------------------------------ MODULE Command ------------------------------
(***************************************************************************)
(* The in-band commands of corp-relay-v4@google.com in wire format: what   *)
(* the Write methods produce and what Unmarshal makes of a message.        *)
(*                                                                         *)
(* A command is a record with its tag and either an ack or a body (a SID   *)
(* or a payload).  A message is a sequence of bytes below Base; the sizes  *)
(* of its fields are parameters, so that all messages can be enumerated.   *)
(***************************************************************************)
EXTENDS Integers, Sequences

CONSTANTS
    Base,         \* 256
    TagLen,       \* bytes of a tag
    DataLen,      \* bytes of the length of a SID or of a payload
    AckLen,       \* bytes of an ack
    SIDLen,       \* smallest SID
    MaxSIDLen,    \* largest SID
    MaxArrayLen,  \* largest payload
    MaxMessage    \* largest message of a peer that does not use this package

TagConnectSuccess   == 1
TagReconnectSuccess == 2
TagData             == 4
TagAck              == 7

Byte  == 0..(Base - 1)
Bytes(n) == [1..n -> Byte]

\* encoding/binary, big endian: the number that bytes stand for.
Uint(b) ==
    LET value[i \in 0..Len(b)] == IF i = 0 THEN 0 ELSE value[i - 1] * Base + b[i]
    IN  value[Len(b)]

\* The largest number of len bytes.
MaxUint(len) == Uint([i \in 1..len |-> Base - 1])
Uint64 == 0..MaxUint(AckLen)

ASSUME FieldAssumption ==
    /\ Base \in Nat /\ Base > 7
    /\ {TagLen, DataLen, AckLen, SIDLen} \subseteq Nat \ {0}
    /\ {MaxSIDLen, MaxArrayLen} \subseteq 1..MaxUint(DataLen)
    /\ MaxMessage \in Nat

\* What Unmarshal returns with an error.
ErrBad == [tag |-> 0]

(***************************************************************************)
(* Faulty variants of operations below: the mistakes the properties at the *)
(* end of the module must be able to tell from the code.                   *)
(***************************************************************************)

\* An empty payload passes.
checkData_Empty(b) == Len(b) <= MaxArrayLen

\* The bytes after the announced length are ignored.
unmarshal32_Prefix(b) ==
    {SubSeq(b, d + 1, d + Uint(SubSeq(b, 1, d))) : d \in
        {d \in {DataLen} : Len(b) >= d /\ Len(b) >= d + Uint(SubSeq(b, 1, d))}}

\* Numbers are written with the least significant byte first.
PutUint_LittleEndian(v, len) == [i \in 1..len |-> (v \div Base^(i - 1)) % Base]

(***************************************************************************)
(* binWrite, with encoding/binary, big endian: byte i of a number is what  *)
(* is left of it when the bytes after i are shifted out.                   *)
(***************************************************************************)
PutUint(v, len) ==
    LET shift[k \in 0..len] == IF k = 0 THEN v ELSE shift[k - 1] \div Base
    IN  [i \in 1..len |-> shift[len - i] % Base]

(***************************************************************************)
(* The constructors and their checks.                                      *)
(***************************************************************************)
checkSID(b)  == Len(b) >= SIDLen /\ Len(b) <= MaxSIDLen
checkData(b) == Len(b) # 0 /\ Len(b) <= MaxArrayLen

NewConnectSuccess(b) == IF checkSID(b) THEN [tag |-> TagConnectSuccess, body |-> b] ELSE ErrBad
NewReconnectSuccess(a) == [tag |-> TagReconnectSuccess, ack |-> a]
NewData(b) == IF checkData(b) THEN [tag |-> TagData, body |-> b] ELSE ErrBad
NewAck(a)  == [tag |-> TagAck, ack |-> a]

(***************************************************************************)
(* To the wire and back.                                                   *)
(***************************************************************************)
WriteAck(c)  == PutUint(c.tag, TagLen) \o PutUint(c.ack, AckLen)
WriteBody(c) == PutUint(c.tag, TagLen) \o PutUint(Len(c.body), DataLen) \o c.body

Write(c) == IF c.tag \in {TagConnectSuccess, TagData} THEN WriteBody(c) ELSE WriteAck(c)

\* The body of a message whose length field tells the truth, as a set.
unmarshal32(b) ==
    {data \in {SubSeq(b, DataLen + 1, Len(b))} :
        Len(b) >= DataLen /\ Len(data) = Uint(SubSeq(b, 1, DataLen))}

unmarshalAck(b) == {a \in {Uint(b)} : Len(b) = AckLen}

\* The result of a parse that may fail (the empty set), given to a constructor.
Then(S, New(_)) == IF S = {} THEN ErrBad ELSE New(CHOOSE x \in S : TRUE)

Unmarshal(m) ==
    LET b == SubSeq(m, TagLen + 1, Len(m))
        t == Uint(SubSeq(m, 1, TagLen))
    IN  CASE Len(m) < TagLen -> ErrBad
          [] Len(m) >= TagLen /\ t = TagConnectSuccess -> Then(unmarshal32(b), NewConnectSuccess)
          [] Len(m) >= TagLen /\ t = TagReconnectSuccess -> Then(unmarshalAck(b), NewReconnectSuccess)
          [] Len(m) >= TagLen /\ t = TagData -> Then(unmarshal32(b), NewData)
          [] Len(m) >= TagLen /\ t = TagAck -> Then(unmarshalAck(b), NewAck)
          [] OTHER -> ErrBad
(***************************************************************************)
(* One message: sent by a peer that builds a command and writes it, or by  *)
(* one that puts together what it likes, then parsed.                      *)
(***************************************************************************)
VARIABLES
    sent,   \* the command the peer built; ErrBad if there is none
    msg,    \* the message on the wire
    got,    \* what Unmarshal returned
    step    \* "idle", "wire" or "parsed"

vars == <<sent, msg, got, step>>

Init == sent = ErrBad /\ msg = << >> /\ got = ErrBad /\ step = "idle"

Send(c) ==
    /\ c # ErrBad
    /\ sent' = c
    /\ msg' = Write(c)
    /\ step' = "wire"
    /\ UNCHANGED got

SendRaw(b) ==
    /\ msg' = b
    /\ step' = "wire"
    /\ UNCHANGED <<sent, got>>

Receive ==
    /\ step = "wire"
    /\ got' = Unmarshal(msg)
    /\ step' = "parsed"
    /\ UNCHANGED <<sent, msg>>

SendCommand ==
    /\ step = "idle"
    /\ \/ \E n \in 0..(MaxArrayLen + 1) : \E b \in Bytes(n) :
            Send(NewConnectSuccess(b)) \/ Send(NewData(b))
       \/ \E a \in Uint64 : Send(NewReconnectSuccess(a)) \/ Send(NewAck(a))

SendAny ==
    /\ step = "idle"
    /\ \E n \in 0..MaxMessage : \E b \in Bytes(n) : SendRaw(b)

Next == SendCommand \/ SendAny \/ Receive

Spec == Init /\ [][Next]_vars

-----------------------------------------------------------------------------
\* A command that recvCmd gets to see has a body within its limits, an ack
\* within 64 bits and a tag it knows, whatever the peer sent.
TypeOK ==
    /\ \/ got = ErrBad
       \/ got.tag \in {TagReconnectSuccess, TagAck} /\ got.ack \in Uint64
       \/ got.tag = TagConnectSuccess /\ Len(got.body) \in SIDLen..MaxSIDLen
       \/ got.tag = TagData /\ Len(got.body) \in 1..MaxArrayLen
    /\ step \in {"idle", "wire", "parsed"}

\* Unmarshal understands every command the Write methods produce.
RoundTrip == step = "parsed" /\ sent # ErrBad => got = sent

\* Unmarshal accepts no other messages: what it takes for a command is, byte
\* for byte, what Write makes of that command.  No length field that lies, no
\* trailing byte and no second encoding gets through.
Canonical == step = "parsed" /\ got # ErrBad => Write(got) = msg
=============================================================================
