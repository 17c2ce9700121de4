-------------------------- MODULE SessionRegistry --------------------------
(***************************************************************************)
(* What the session manager promises, without goroutines, handlers or      *)
(* channels.  "It enforces a session limit as well as individual session   *)
(* lifetimes": a name is registered once, when there is room; it may leave *)
(* the registry at any time and never comes back; the connection of a      *)
(* session is open from its registration until it is terminated, which     *)
(* happens only once it is MaxAge old or some client has attached to it,   *)
(* and which always happens.                                               *)
(***************************************************************************)
EXTENDS Integers, FiniteSets

CONSTANTS
    Name,         \* session IDs
    MaxSessions,  \* <= 0 is "no limit"
    MaxAge        \* the lifetime of a session, in ticks

VARIABLES
    registered,   \* names the registry answers for
    used,         \* names that have been registered at some time
    open,         \* names whose SSH connection is open
    attached,     \* names some client's WebSocket was ever attached to
    old           \* ticks every name has been in use for

rvars == <<registered, used, open, attached, old>>

RInit ==
    /\ registered = {}
    /\ used = {}
    /\ open = {}
    /\ attached = {}
    /\ old = [s \in Name |-> 0]

Room == MaxSessions > 0 => Cardinality(registered) < MaxSessions

Register(s) ==
    /\ s \notin used
    /\ Room
    /\ registered' = registered \cup {s}
    /\ used' = used \cup {s}
    /\ open' = open \cup {s}
    /\ UNCHANGED <<attached, old>>

Deregister(s) ==
    /\ s \in registered
    /\ registered' = registered \ {s}
    /\ UNCHANGED <<used, open, attached, old>>

Attach(s) ==
    /\ s \in used
    /\ attached' = attached \cup {s}
    /\ UNCHANGED <<registered, used, open, old>>

GrowOld(s) ==
    /\ s \in used
    /\ old[s] < MaxAge
    /\ old' = [old EXCEPT ![s] = old[s] + 1]
    /\ UNCHANGED <<registered, used, open, attached>>

Terminate(s) ==
    /\ s \in open
    /\ s \in attached \/ old[s] = MaxAge
    /\ open' = open \ {s}
    /\ UNCHANGED <<registered, used, attached, old>>

RNext == \E s \in Name : \/ Register(s) \/ Deregister(s) \/ Attach(s)
                         \/ GrowOld(s) \/ Terminate(s)

RSpec == RInit /\ [][RNext]_rvars

\* The lifetime is enforced: time passes, and no session stays open for ever.
RFairSpec == RSpec /\ \A s \in Name : WF_rvars(s \in open /\ (GrowOld(s) \/ Terminate(s)))
=============================================================================
