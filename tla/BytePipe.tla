------------------------------ MODULE BytePipe ------------------------------
(***************************************************************************)
(* What a session promises for one direction: bytes taken from the SSH     *)
(* connection of one endpoint come out of the other in order, none lost in *)
(* the middle, none repeated, none invented, and the sender is told of a   *)
(* byte only after it came out.  A byte is its position in the stream.     *)
(***************************************************************************)
EXTENDS Integers, Sequences

CONSTANT Length   \* bytes the sender's SSH connection will ever supply

VARIABLES
    taken,   \* bytes read from the sender's SSH connection
    got,     \* what was written to the receiver's SSH connection
    acked    \* bytes the sender knows to have come out

pvars == <<taken, got, acked>>

PInit == taken = 0 /\ got = << >> /\ acked = 0

Take ==
    /\ taken' \in (taken + 1)..Length
    /\ UNCHANGED <<got, acked>>

Deliver ==
    /\ \E k \in (Len(got) + 1)..taken : got' = [i \in 1..k |-> i]
    /\ UNCHANGED <<taken, acked>>

Acknowledge ==
    /\ acked' \in (acked + 1)..Len(got)
    /\ UNCHANGED <<taken, got>>

PNext == Take \/ Deliver \/ Acknowledge

PSpec == PInit /\ [][PNext]_pvars

\* Without failures the whole stream comes out, and the sender is told.
PFairSpec == PSpec /\ WF_pvars(Take) /\ WF_pvars(Deliver) /\ WF_pvars(Acknowledge)
=============================================================================
