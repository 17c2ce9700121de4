-------------------------- MODULE CorpRelay_proofs --------------------------
(***************************************************************************)
(* Proofs about CorpRelay, for streams, buffers and counters of any size,  *)
(* with and without faults, and with either endpoint, or both, foreign.    *)
(*                                                                         *)
(* As in CorpRelayV4_proofs the argument follows one direction, from the   *)
(* SSH connection of e to that of Peer(e).  Here a payload is at times in  *)
(* a message that is open, which its owner or Run may send, and messages   *)
(* without data lie between the payloads.  The counter is followed up to   *)
(* Run's store of the error bits, and not beyond it.                       *)
(***************************************************************************)
EXTENDS CorpRelay, SequenceTheorems, TLAPS

IsData(f) == f.tag = "BINARY" /\ f.n > 0

\* runWS of e still counts and writes what arrives.
Alive(e) == wsPc[e] \in {"read", "count", "add", "write"}

\* Bytes e has taken in, as long as runWS works.
Base(e) == Len(out[e]) + data[e].n

\* Bytes of e's stream that are on the wire, or were.
End(e) == IF open[e].data.n > 0 THEN open[e].data.lo
          ELSE IF chunk[e].n > 0 THEN chunk[e].lo ELSE inp[e]

\* A foreign endpoint has no goroutines and holds nothing.
ForeignIdle ==
    \A e \in Endpoint : IsForeign(e) =>
        sshPc[e] = "gone" /\ wsPc[e] = "gone" /\ chunk[e].n = 0 /\ open[e].data.n = 0

\* What runSSH holds is the last it has read, in its buffer or in its message.
SendingAt(e) ==
    /\ open[e].by # "ssh" => open[e].data.n = 0
    /\ sshPc[e] \in {"read", "open"} => open[e].by # "ssh"
    /\ sshPc[e] \in {"ack", "copy"} => open[e].data.n = 0
    /\ sshPc[e] \in {"read", "flush"} => chunk[e].n = 0
    /\ chunk[e].n > 0 => open[e].data.n = 0 /\ chunk[e].lo + chunk[e].n = inp[e]
    /\ open[e].data.n > 0 => open[e].data.lo + open[e].data.n = inp[e]
    /\ inp[e] <= StreamLen[e]

Sending == \A e \in Endpoint : SendingAt(e)

\* What runWS holds follows on what it has written.
Receiving ==
    \A e \in Endpoint :
        /\ wsPc[e] = "read" => data[e].n = 0
        /\ Alive(e) /\ data[e].n > 0 => data[e].lo = Len(out[e])
        /\ Base(e) <= End(Peer(e))

\* Run has not stored its error bits.
Unmarked(e) == run[e] \in {"running", "open", "mask", "or"}

\* Bytes that incCounter has counted.
Counted(e) == IF wsPc[e] = "write" THEN Base(e) ELSE Len(out[e])

\* Until Run stores its error bits, Session.c stands for the bytes counted, and
\* runWS adds to no stale value.
Counting ==
    \A e \in Endpoint : Alive(e) /\ Unmarked(e) =>
        /\ c[e] = Counted(e) % CountMod
        /\ wsPc[e] = "add" => wsC[e] = c[e]

\* The payloads on the wire do not overlap and are in order.
Ordered ==
    \A e \in Endpoint : \A i \in DOMAIN wire[e] : IsData(wire[e][i]) =>
        /\ wire[e][i].lo + wire[e][i].n <= End(e)
        /\ \A j \in DOMAIN wire[e] : IsData(wire[e][j]) /\ i < j
                => wire[e][i].lo + wire[e][i].n <= wire[e][j].lo

\* The byte after the first b follows on the first m, or on one of the first
\* k - 1 frames of w.
Joins(w, m, b, k) ==
    \/ b = m
    \/ \E j \in DOMAIN w : j < k /\ IsData(w[j]) /\ b = w[j].lo + w[j].n

\* There is no gap before a payload on the wire, nor, while nothing has been
\* lost with the connection, after the last one.
Gapless ==
    \A e \in Endpoint : Alive(Peer(e)) =>
        /\ \A i \in DOMAIN wire[e] : IsData(wire[e][i])
                => Joins(wire[e], Base(Peer(e)), wire[e][i].lo, i)
        /\ link = "up" => Joins(wire[e], Base(Peer(e)), End(e), Len(wire[e]) + 1)

\* Until Run has had an error, no ack of the endpoint has error bits, wherever
\* it is on its way from the counter to the peer, and none is sent unwritten.
AckCleanAt(e) ==
    /\ GoodAck(c[e])
    /\ \/ open[e].by = "none"
       \/ open[e].by = "ssh" /\ sshPc[e] = "ack"
       \/ GoodAck(open[e].ack)
    /\ \A i \in DOMAIN wire[e] : wire[e][i].tag = "BINARY" => GoodAck(wire[e][i].ack)

AckClean == \A e \in Endpoint : run[e] = "running" => AckCleanAt(e)

\* The part about the bytes on their way.
Streams == Receiving /\ Ordered /\ Gapless /\ StreamIntegrity

Inv == TypeOK /\ ForeignIdle /\ Sending /\ Streams /\ Counting /\ AckClean /\ ErrorHasCause

-----------------------------------------------------------------------------
(***************************************************************************)
(* The model's operators.                                                  *)
(***************************************************************************)

\* Peer swaps the two endpoints.
LEMMA PeerFacts ==
    ASSUME NEW e \in Endpoint
    PROVE  /\ Peer(e) \in Endpoint /\ Peer(e) # e /\ Peer(Peer(e)) = e
           /\ \A a \in Endpoint : a = e \/ a = Peer(e)
  BY DEF Endpoint, Peer

\* Longest is the length of the longer stream.
LEMMA LongestFacts ==
    Longest \in Nat /\ \A e \in Endpoint : StreamLen[e] \in 0..Longest
  BY SizeAssumption DEF Longest, Endpoint

\* The counter is a remainder, and remainders are their own.
LEMMA Wrapped ==
    ASSUME NEW x \in Nat
    PROVE  /\ x % CountMod \in 0..(CountMod - 1)
           /\ (x % CountMod) % CountMod = x % CountMod
<1>1. \A y \in Int : y % CountMod \in 0..(CountMod - 1) BY SizeAssumption
<1>2. \A y \in 0..(CountMod - 1) : y % CountMod = y BY SizeAssumption
<1> QED BY <1>1, <1>2

\* Whole multiples of CountMod do not matter.
LEMMA Multiples ==
    ASSUME NEW q \in Int, NEW r \in 0..(CountMod - 1)
    PROVE  (CountMod * q + r) % CountMod = r
  BY SizeAssumption

\* Counters that agree modulo CountMod agree after the same number of bytes.
LEMMA AddCongruent ==
    ASSUME NEW a \in Nat, NEW b \in Nat, NEW n \in Nat, a % CountMod = b % CountMod
    PROVE  (a + n) % CountMod = (b + n) % CountMod
<1> DEFINE M == CountMod
           r == a % M
           s == (r + n) % M
<1>0. M \in Nat \ {0} BY SizeAssumption
<1>1. \A x \in Int : x = M * (x \div M) + (x % M) /\ x \div M \in Int /\ x % M \in 0..(M - 1)
  BY <1>0
<1>2. r \in 0..(M - 1) /\ r + n \in Int BY <1>0, <1>1
<1>3. r + n = M * ((r + n) \div M) + s /\ (r + n) \div M \in Int /\ s \in 0..(M - 1)
  BY <1>1, <1>2
<1>4. ASSUME NEW x \in Nat, x % M = r PROVE (x + n) % M = s
  <2>1. x = M * (x \div M) + r /\ x \div M \in Int BY <1>1, <1>4
  <2> DEFINE p == x \div M
             q == (r + n) \div M
  <2> HIDE DEF p, q, r, s, M
  <2>2. p \in Int /\ q \in Int /\ p + q \in Int BY <1>3, <2>1 DEF p, q
  <2>3. x = M * p + r /\ r + n = M * q + s BY <1>3, <2>1 DEF p, q
  <2>4. M * (p + q) = M * p + M * q /\ M * p \in Int /\ M * q \in Int BY <1>0, <2>2
  <2>5. x + n = M * (p + q) + s BY <1>0, <1>2, <1>3, <2>2, <2>3, <2>4
  <2> QED BY <1>3, <2>2, <2>5, Multiples DEF M
<1> QED BY <1>4

\* What a frame carries.
LEMMA FrameFacts ==
    ASSUME NEW f \in Frame, f.tag = "BINARY"
    PROVE  /\ f.lo \in 0..Longest /\ f.n \in 0..BufLen /\ f.lo \in Nat /\ f.n \in Nat
           /\ f.ack \in Ack \cup {NoAck}
  BY LongestFacts, SizeAssumption DEF Frame

\* A payload's position and size.
LEMMA PayloadFacts ==
    ASSUME NEW p \in Payload
    PROVE  p.lo \in Nat /\ p.n \in Nat
  BY SizeAssumption, LongestFacts DEF Payload

\* Writing the first k bytes of a payload, which is empty or follows on what
\* was written.
LEMMA WriteFacts ==
    ASSUME NEW s \in Seq(1..Longest), NEW p \in Payload, NEW k \in 0..p.n,
           k > 0 => p.lo = Len(s) /\ p.lo + p.n <= Longest
    PROVE  /\ s \o Bytes(p, k) \in Seq(1..Longest)
           /\ Len(s \o Bytes(p, k)) = Len(s) + k
           /\ \A i \in 1..Len(s) : (s \o Bytes(p, k))[i] = s[i]
           /\ \A i \in (Len(s) + 1)..(Len(s) + k) : (s \o Bytes(p, k))[i] = i
<1>1. Bytes(p, k) \in Seq(1..Longest) /\ Len(Bytes(p, k)) = k
  BY LongestFacts DEF Bytes, Payload
<1>2. Len(s) \in Nat /\ k \in Nat /\ p.lo \in Nat BY PayloadFacts, LenProperties
<1>3. /\ s \o Bytes(p, k) \in Seq(1..Longest) /\ Len(s \o Bytes(p, k)) = Len(s) + k
      /\ \A i \in 1..(Len(s) + k) : (s \o Bytes(p, k))[i] =
            IF i <= Len(s) THEN s[i] ELSE Bytes(p, k)[i - Len(s)]
  <2> DEFINE t == Bytes(p, k)
  <2>1. t \in Seq(1..Longest) /\ Len(t) = k BY <1>1
  <2> HIDE DEF t
  <2>2. /\ s \o t \in Seq(1..Longest) /\ Len(s \o t) = Len(s) + Len(t)
        /\ \A i \in 1..(Len(s) + Len(t)) : (s \o t)[i] = IF i <= Len(s) THEN s[i] ELSE t[i - Len(s)]
    BY <2>1, ConcatProperties, Zenon
  <2> QED BY <2>1, <2>2 DEF t
<1>4. ASSUME NEW i \in (Len(s) + 1)..(Len(s) + k) PROVE Bytes(p, k)[i - Len(s)] = i
  <2>1. i - Len(s) \in 1..k /\ k > 0 BY <1>2
  <2> QED BY <1>2, <2>1 DEF Bytes
<1> QED BY <1>2, <1>3, <1>4

\* The counts of an endpoint are natural numbers.
LEMMA CountFacts ==
    ASSUME TypeOK, NEW e \in Endpoint
    PROVE  /\ inp[e] \in Nat /\ inp[e] <= Longest /\ Longest \in Nat
           /\ chunk[e].lo \in Nat /\ chunk[e].n \in Nat
           /\ open[e].data.lo \in Nat /\ open[e].data.n \in Nat
           /\ data[e].lo \in Nat /\ data[e].n \in Nat
           /\ Len(out[e]) \in Nat /\ DOMAIN out[e] = 1..Len(out[e])
           /\ c[e] \in Nat /\ Base(e) \in Nat /\ End(e) \in Nat
           /\ StreamLen[e] \in Nat /\ StreamLen[e] <= Longest
<1>1. /\ inp[e] \in Nat /\ inp[e] <= Longest /\ Longest \in Nat /\ c[e] \in Nat
      /\ StreamLen[e] \in Nat /\ StreamLen[e] <= Longest
  BY LongestFacts, SizeAssumption DEF TypeOK, Ack
<1>2. chunk[e] \in Payload /\ data[e] \in Payload /\ open[e].data \in Payload BY DEF TypeOK
<1>3. /\ chunk[e].lo \in Nat /\ chunk[e].n \in Nat
      /\ data[e].lo \in Nat /\ data[e].n \in Nat
      /\ open[e].data.lo \in Nat /\ open[e].data.n \in Nat
  BY <1>2, PayloadFacts
<1>4. Len(out[e]) \in Nat /\ DOMAIN out[e] = 1..Len(out[e])
  <2>1. out[e] \in Seq(1..Longest) BY DEF TypeOK
  <2> QED BY <2>1, LenProperties
<1>5. Base(e) \in Nat /\ End(e) \in Nat BY <1>1, <1>3, <1>4 DEF Base, End
<1> QED BY <1>1, <1>3, <1>4, <1>5

\* Writing k bytes of the payload in hand makes the output k bytes longer.
LEMMA WrittenLen ==
    ASSUME TypeOK, NEW e \in Endpoint, NEW k \in Nat
    PROVE  Len(out[e] \o Bytes(data[e], k)) = Len(out[e]) + k
<1>1. out[e] \in Seq(1..Longest) /\ data[e].lo \in Nat BY CountFacts DEF TypeOK
<1>2. Bytes(data[e], k) \in Seq(Nat) /\ Len(Bytes(data[e], k)) = k BY <1>1 DEF Bytes
<1>3. out[e] \in Seq(Nat) BY <1>1, SeqMonotonic, LongestFacts
<1>4. Len(out[e] \o Bytes(data[e], k)) = Len(out[e]) + Len(Bytes(data[e], k))
  BY <1>2, <1>3, ConcatProperties, Zenon
<1> QED BY <1>2, <1>4

\* No more is on the wire than runSSH has read.
LEMMA EndFacts ==
    ASSUME TypeOK, Sending, NEW e \in Endpoint
    PROVE  End(e) <= inp[e] /\ End(e) <= Longest
<1>1. End(e) <= inp[e] BY CountFacts DEF Sending, SendingAt, End
<1> QED BY <1>1, CountFacts

-----------------------------------------------------------------------------
(***************************************************************************)
(* Types.                                                                  *)
(***************************************************************************)

\* What may be open on a WebSocket.
OpenMessage == [by : {"none", "ssh", "run"}, ack : Ack \cup {NoAck}, data : Payload]

\* In TypeOK it is written out.
LEMMA OpenType == TypeOK => open \in [Endpoint -> OpenMessage]
  BY DEF TypeOK, OpenMessage

\* An ack may be written into it.
LEMMA AckUpdate ==
    ASSUME NEW m \in OpenMessage, NEW a \in Ack
    PROVE  [m EXCEPT !.ack = a] \in OpenMessage
  BY DEF OpenMessage

\* e puts f on the wire.
Sent(e, f) == wire' = [wire EXCEPT ![e] = Append(@, f)]

\* The open message as it is sent.
FrameOf(e) ==
    [tag |-> "BINARY", by |-> open[e].by, ack |-> open[e].ack,
     lo |-> open[e].data.lo, n |-> open[e].data.n]

\* A message that somebody has opened is a frame.
LEMMA FrameOfType ==
    ASSUME TypeOK, NEW e \in Endpoint, open[e].by # "none"
    PROVE  FrameOf(e) \in Frame
<1>1. open[e] \in OpenMessage BY OpenType
<1>2. /\ open[e].by \in {"ssh", "run"} /\ open[e].ack \in Ack \cup {NoAck}
      /\ open[e].data \in Payload
  BY <1>1 DEF OpenMessage
<1>3. open[e].data.lo \in 0..Longest /\ open[e].data.n \in 0..BufLen BY <1>2 DEF Payload
<1> QED BY <1>2, <1>3 DEF FrameOf, Frame

\* New and Run start with every variable in its type.
LEMMA TypeInit == Init => TypeOK
<1> SUFFICES ASSUME Init PROVE TypeOK
  OBVIOUS
<1> USE SizeAssumption, EnvAssumption, LongestFacts DEF Init, Endpoint
<1>1. Nothing \in Payload BY DEF Payload, Nothing
<1>2. chunk \in [Endpoint -> Payload] /\ data \in [Endpoint -> Payload] BY <1>1
<1>3. NoMessage \in OpenMessage BY <1>1 DEF NoMessage, Message, OpenMessage
<1>4. open \in [Endpoint -> OpenMessage] BY <1>3
<1>5. c \in [Endpoint -> Ack] /\ wsC \in [Endpoint -> Ack] /\ runC \in [Endpoint -> Ack] BY DEF Ack
<1>6. out \in [Endpoint -> Seq(1..Longest)] /\ wire \in [Endpoint -> Seq(Frame)] OBVIOUS
<1> QED BY <1>2, <1>4, <1>5, <1>6 DEF TypeOK, OpenMessage

\* The payload and the messages that the steps start with.
LEMMA MessageTypes ==
    ASSUME NEW w \in {"none", "ssh", "run"}
    PROVE  /\ Nothing \in Payload /\ Nothing.n = 0
           /\ Message(w) \in OpenMessage
           /\ NoMessage \in OpenMessage
<1>1. Nothing \in Payload /\ Nothing.n = 0
  BY SizeAssumption, LongestFacts DEF Payload, Nothing
<1> QED BY <1>1 DEF Message, NoMessage, OpenMessage

\* What gorilla's NextWriter and Close do to the wire and the open message.
LEMMA WriterSteps ==
    ASSUME TypeOK, NEW e \in Endpoint, NEW w \in {"ssh", "run"},
           NextWriter(e, w) \/ CloseMessage(e, w)
    PROVE  /\ \/ UNCHANGED wire
              \/ link = "up" /\ open[e].by # "none" /\ Sent(e, FrameOf(e))
           /\ \/ UNCHANGED open
              \/ open' = [open EXCEPT ![e] = Message(w)]
              \/ open' = [open EXCEPT ![e] = NoMessage]
<1>1. Flush(e) => Sent(e, FrameOf(e)) BY DEF Flush, Sent, FrameOf
<1>2. CASE NextWriter(e, w) BY <1>1, <1>2 DEF NextWriter
<1>3. CASE CloseMessage(e, w) BY <1>1, <1>3 DEF CloseMessage
<1> QED BY <1>2, <1>3

\* They leave both in their types.
LEMMA WriterTypes ==
    ASSUME TypeOK, NEW e \in Endpoint, NEW w \in {"ssh", "run"},
           NextWriter(e, w) \/ CloseMessage(e, w)
    PROVE  /\ wire' \in [Endpoint -> Seq(Frame)]
           /\ open' \in [Endpoint -> OpenMessage]
<1>1. wire' \in [Endpoint -> Seq(Frame)]
  <2>1. CASE UNCHANGED wire BY <2>1 DEF TypeOK
  <2>2. CASE open[e].by # "none" /\ Sent(e, FrameOf(e))
    <3>1. FrameOf(e) \in Frame BY <2>2, FrameOfType
    <3>2. wire[e] \in Seq(Frame) BY DEF TypeOK
    <3>3. Append(wire[e], FrameOf(e)) \in Seq(Frame) BY <3>1, <3>2, AppendProperties
    <3> QED BY <2>2, <3>3 DEF Sent, TypeOK
  <2> QED BY <2>1, <2>2, WriterSteps
<1>2. open' \in [Endpoint -> OpenMessage] BY WriterSteps, MessageTypes, OpenType
<1> QED BY <1>1, <1>2

\* runSSH.
LEMMA TypeSSH ==
    ASSUME TypeOK, NEW e \in Endpoint, RunSSH(e) \/ SshReadEOF(e)
    PROVE  TypeOK'
<1> USE DEF TypeOK, streamVars, countVars, doneVars, Err, OpenMessage
<1>0. Nothing \in Payload BY MessageTypes
<1>1. CASE SshRead(e)
  <2>1. PICK k \in 1..BufLen :
            /\ inp[e] + k <= StreamLen[e] /\ inp' = [inp EXCEPT ![e] = inp[e] + k]
            /\ chunk' = [chunk EXCEPT ![e] = [lo |-> inp[e], n |-> k]]
    BY <1>1 DEF SshRead
  <2>2. inp[e] + k \in 0..Longest BY <2>1, SizeAssumption, LongestFacts
  <2>3. [lo |-> inp[e], n |-> k] \in Payload BY SizeAssumption DEF Payload
  <2>4. inp' \in [Endpoint -> 0..Longest] /\ chunk' \in [Endpoint -> Payload]
    BY <2>1, <2>2, <2>3
  <2> QED BY <1>1, <2>4 DEF SshRead
<1>2. CASE SshReadEOF(e) BY <1>2 DEF SshReadEOF
<1>3. CASE SshReadFails(e) BY <1>3 DEF SshReadFails
<1>4. CASE SshOpen(e)
  <2>1. NextWriter(e, "ssh") BY <1>4 DEF SshOpen
  <2>2. /\ wire' \in [Endpoint -> Seq(Frame)]
        /\ open' \in [Endpoint -> OpenMessage]
    BY <2>1, WriterTypes
  <2> QED BY <1>4, <2>2 DEF SshOpen
<1>5. CASE SshOpenFails(e) BY <1>5 DEF SshOpenFails
<1>6. CASE copySSH(e)
  <2>1. chunk' \in [Endpoint -> Payload] BY <1>0, <1>6 DEF copySSH
  <2>2. open' \in [Endpoint -> OpenMessage]
    BY <1>6 DEF copySSH
  <2> QED BY <1>6, <2>1, <2>2 DEF copySSH
<1>7. CASE copySSHFails(e)
  <2>1. open' \in [Endpoint -> OpenMessage]
    BY <1>7, MessageTypes DEF copySSHFails
  <2> QED BY <1>7, <2>1 DEF copySSHFails
<1>8. CASE SshFlush(e)
  <2>1. /\ wire' \in [Endpoint -> Seq(Frame)]
        /\ open' \in [Endpoint -> OpenMessage]
    BY <1>0, <1>8, WriterTypes DEF SshFlush
  <2> QED BY <1>8, <2>1 DEF SshFlush
<1>9. CASE SshPanics(e) BY <1>9 DEF SshPanics
<1>10. CASE SshWriteAck(e)
  <2>1. [open[e] EXCEPT !.ack = c[e]] \in OpenMessage BY AckUpdate
  <2>2. open' \in [Endpoint -> OpenMessage]
    <3> HIDE DEF OpenMessage
    <3> QED BY <1>10, <2>1, OpenType DEF SshWriteAck
  <2> QED BY <1>10, <2>2 DEF SshWriteAck
<1> QED BY <1>1, <1>2, <1>3, <1>4, <1>5, <1>6, <1>7, <1>8, <1>9, <1>10 DEF RunSSH

\* Run.
LEMMA TypeRun ==
    ASSUME TypeOK, NEW e \in Endpoint, Run(e)
    PROVE  TypeOK'
<1> USE DEF TypeOK, streamVars, countVars, doneVars, Err, OpenMessage
<1>0. \A x \in Ack : Masked(x) \in Ack BY SizeAssumption DEF Masked, Ack
<1>1. CASE RunRecvErr(e) BY <1>1 DEF RunRecvErr
<1>2. CASE RunNextWriter(e)
  <2>1. /\ wire' \in [Endpoint -> Seq(Frame)]
        /\ open' \in [Endpoint -> OpenMessage]
    BY <1>2, WriterTypes DEF RunNextWriter
  <2> QED BY <1>2, <2>1 DEF RunNextWriter
<1>3. CASE RunPanics(e) BY <1>3 DEF RunPanics
<1>4. CASE RunMask(e)
  <2>1. Masked(runC[e]) \in Ack BY <1>0
  <2>2. c' \in [Endpoint -> Ack] BY <1>4, <2>1 DEF RunMask
  <2> QED BY <1>4, <2>2 DEF RunMask
<1>5. CASE RunWriteAck(e)
  <2>1. PICK x \in {c[e], Masked(runC[e])} :
            open' = IF open[e].by = "run" THEN [open EXCEPT ![e].ack = x] ELSE open
    BY <1>5 DEF RunWriteAck
  <2>2. [open[e] EXCEPT !.ack = x] \in OpenMessage BY <1>0, AckUpdate
  <2>3. open' \in [Endpoint -> OpenMessage]
    <3> HIDE DEF OpenMessage
    <3> QED BY <2>1, <2>2, OpenType
  <2>4. runC' \in [Endpoint -> Ack] BY <1>5, SizeAssumption DEF RunWriteAck, Ack
  <2> QED BY <1>5, <2>3, <2>4 DEF RunWriteAck
<1>6. CASE RunFlush(e)
  <2>1. /\ wire' \in [Endpoint -> Seq(Frame)]
        /\ open' \in [Endpoint -> OpenMessage]
    BY <1>6, WriterTypes DEF RunFlush
  <2> QED BY <1>6, <2>1 DEF RunFlush
<1>7. CASE RunClose(e) BY <1>7 DEF RunClose
<1>8. CASE CallerReturns(e) BY <1>8 DEF CallerReturns
<1>9. CASE RunLoad(e) BY <1>9 DEF RunLoad
<1>10. CASE RunSend(e) BY <1>10 DEF RunSend
<1> QED BY <1>1, <1>2, <1>3, <1>4, <1>5, <1>6, <1>7, <1>8, <1>9, <1>10 DEF Run

\* Taking in a frame leaves frames on the wire.
LEMMA ReceiveType ==
    ASSUME TypeOK, NEW e \in Endpoint, wire[Peer(e)] # << >>
    PROVE  Incoming(e) \in Frame /\ (Receive(e) => wire' \in [Endpoint -> Seq(Frame)])
<1>1. Peer(e) \in Endpoint BY PeerFacts
<1>2. wire[Peer(e)] \in Seq(Frame) BY <1>1 DEF TypeOK
<1>3. Head(wire[Peer(e)]) \in Frame /\ Tail(wire[Peer(e)]) \in Seq(Frame)
  BY <1>2, HeadTailProperties
<1> QED BY <1>1, <1>3 DEF TypeOK, Incoming, Receive

\* What incCounter stores is a number of 24 bits.
LEMMA CountStored ==
    ASSUME TypeOK, NEW e \in Endpoint
    PROVE  LET x == (wsC[e] + data[e].n) % CountMod IN x \in Ack /\ GoodAck(x)
<1>1. wsC[e] \in Nat /\ data[e].n \in Nat BY CountFacts, SizeAssumption DEF TypeOK, Ack
<1>2. wsC[e] + data[e].n \in Nat BY <1>1
<1>3. \A x \in 0..(CountMod - 1) : x \in Ack BY SizeAssumption DEF Ack
<1> QED BY <1>2, <1>3, Wrapped DEF GoodAck

\* runWS takes messages in and counts them.
LEMMA TypeWS ==
    ASSUME TypeOK, NEW e \in Endpoint,
           RecvBinary(e) \/ RecvText(e) \/ WsReadFails(e) \/ CountLoad(e) \/ CountStore(e)
    PROVE  TypeOK'
<1> USE DEF TypeOK, streamVars, countVars, doneVars, Err
<1>1. CASE RecvBinary(e)
  <2>1. Incoming(e) \in Frame /\ Incoming(e).tag = "BINARY" /\ wire' \in [Endpoint -> Seq(Frame)]
    BY <1>1, ReceiveType DEF RecvBinary, WsReady
  <2>2. [lo |-> Incoming(e).lo, n |-> Incoming(e).n] \in Payload
    BY <2>1, FrameFacts DEF Payload
  <2>3. data' \in [Endpoint -> Payload]
    <3> HIDE DEF TypeOK
    <3>1. data \in [Endpoint -> Payload] BY DEF TypeOK
    <3> QED BY <1>1, <2>2, <3>1 DEF RecvBinary
  <2> QED BY <1>1, <2>1, <2>3 DEF RecvBinary
<1>2. CASE RecvText(e) BY <1>2, ReceiveType DEF RecvText, WsReady
<1>3. CASE WsReadFails(e) BY <1>3 DEF WsReadFails
<1>4. CASE CountLoad(e) BY <1>4 DEF CountLoad
<1>5. CASE CountStore(e)
  <2>1. c' \in [Endpoint -> Ack] BY <1>5, CountStored DEF CountStore, incCounter
  <2>2. wsC' \in [Endpoint -> Ack] BY <1>5, SizeAssumption DEF CountStore, Ack
  <2> QED BY <1>5, <2>1, <2>2 DEF CountStore
<1> QED BY <1>1, <1>2, <1>3, <1>4, <1>5

\* What is written to an SSH connection are bytes of the peer's stream, since
\* the payload in hand follows on what was written.
LEMMA TypeWrite ==
    ASSUME TypeOK, Receiving, Sending, NEW e \in Endpoint, SshWrite(e) \/ SshWriteFails(e)
    PROVE  TypeOK'
<1>1. /\ data[e] \in Payload /\ (data[e].n > 0 => data[e].lo = Len(out[e]))
      /\ Base(e) <= End(Peer(e)) /\ Peer(e) \in Endpoint /\ data[e].n \in Nat
  BY PeerFacts, CountFacts DEF TypeOK, SshWrite, SshWriteFails, Receiving, Alive
<1>2. data[e].n > 0 => data[e].lo + data[e].n <= Longest
  <2>1. End(Peer(e)) <= Longest BY <1>1, EndFacts
  <2>2. data[e].n > 0 => data[e].lo + data[e].n = Base(e) BY <1>1 DEF Base
  <2>3. Base(e) \in Nat /\ End(Peer(e)) \in Nat /\ Longest \in Nat BY <1>1, CountFacts
  <2> QED BY <1>1, <2>1, <2>2, <2>3
<1>3. ASSUME NEW k \in 0..data[e].n, out' = [out EXCEPT ![e] = @ \o Bytes(data[e], k)]
      PROVE  out' \in [Endpoint -> Seq(1..Longest)]
  <2>1. out[e] \in Seq(1..Longest) BY DEF TypeOK
  <2>2. k > 0 => data[e].n > 0 BY <1>1
  <2>3. out[e] \o Bytes(data[e], k) \in Seq(1..Longest) BY <1>1, <1>2, <2>1, <2>2, WriteFacts
  <2> QED BY <1>3, <2>3 DEF TypeOK
<1>4. out' \in [Endpoint -> Seq(1..Longest)]
  <2>1. CASE SshWrite(e)
    <3>1. data[e].n \in 0..data[e].n BY <1>1
    <3> QED BY <2>1, <3>1, <1>3 DEF SshWrite
  <2>2. CASE SshWriteFails(e)
    <3>1. ASSUME NEW k \in 0..(data[e].n - 1) PROVE k \in 0..data[e].n BY <1>1
    <3> QED BY <2>2, <3>1, <1>3 DEF TypeOK, SshWriteFails
  <2> QED BY <2>1, <2>2
<1>5. Nothing \in Payload BY MessageTypes
<1>6. data' \in [Endpoint -> Payload] BY <1>5 DEF SshWrite, SshWriteFails, TypeOK
<1> QED BY <1>4, <1>6 DEF TypeOK, SshWrite, SshWriteFails, Err, countVars, doneVars

\* The environment.
LEMMA TypeEnv ==
    ASSUME TypeOK, NEW e \in Endpoint,
           ForeignSend(e) \/ ForeignRecv(e) \/ LinkBreaks \/ DeadlineClose \/ DeadlineSend
    PROVE  TypeOK'
<1> USE DEF TypeOK, streamVars, countVars, doneVars
<1>1. CASE ForeignSend(e)
  <2>1. CASE \E k \in 0..BufLen, a \in Ack \cup {NoAck} :
                /\ inp[e] + k <= StreamLen[e]
                /\ inp' = [inp EXCEPT ![e] = inp[e] + k]
                /\ wire' = [wire EXCEPT ![e] = Append(@,
                        [tag |-> "BINARY", by |-> "ssh", ack |-> a, lo |-> inp[e], n |-> k])]
    <3>1. PICK k \in 0..BufLen, a \in Ack \cup {NoAck} :
                /\ inp[e] + k <= StreamLen[e]
                /\ inp' = [inp EXCEPT ![e] = inp[e] + k]
                /\ wire' = [wire EXCEPT ![e] = Append(@,
                        [tag |-> "BINARY", by |-> "ssh", ack |-> a, lo |-> inp[e], n |-> k])]
      BY <2>1
    <3>2. inp[e] + k \in 0..Longest BY <3>1, SizeAssumption, LongestFacts
    <3>3. [tag |-> "BINARY", by |-> "ssh", ack |-> a, lo |-> inp[e], n |-> k] \in Frame
      BY DEF Frame
    <3>4. wire' \in [Endpoint -> Seq(Frame)] BY <3>1, <3>3, AppendProperties
    <3>5. inp' \in [Endpoint -> 0..Longest] BY <3>1, <3>2
    <3> QED BY <1>1, <3>4, <3>5 DEF ForeignSend
  <2>2. CASE wire' = [wire EXCEPT ![e] = Append(@, [tag |-> "TEXT"])] /\ UNCHANGED inp
    <3>1. [tag |-> "TEXT"] \in Frame BY DEF Frame
    <3>2. wire' \in [Endpoint -> Seq(Frame)] BY <2>2, <3>1, AppendProperties
    <3> QED BY <1>1, <2>2, <3>2 DEF ForeignSend
  <2> QED BY <1>1, <2>1, <2>2 DEF ForeignSend
<1>2. CASE ForeignRecv(e) BY <1>2, ReceiveType DEF ForeignRecv
<1>3. CASE LinkBreaks BY <1>3 DEF LinkBreaks
<1>4. CASE DeadlineClose \/ DeadlineSend BY <1>4 DEF DeadlineClose, DeadlineSend, Endpoint
<1> QED BY <1>1, <1>2, <1>3, <1>4

\* No step takes a variable out of its type.
LEMMA TypeNext == TypeOK /\ Sending /\ Receiving /\ [Next]_vars => TypeOK'
<1> SUFFICES ASSUME TypeOK, Sending, Receiving, [Next]_vars PROVE TypeOK'
  OBVIOUS
<1>1. CASE UNCHANGED vars BY <1>1 DEF vars, streamVars, countVars, doneVars, TypeOK
<1>2. CASE Next
  BY <1>2, TypeSSH, TypeRun, TypeWS, TypeWrite, TypeEnv DEF Next, RunWS, Endpoint
<1> QED BY <1>1, <1>2

-----------------------------------------------------------------------------
(***************************************************************************)
(* What an endpoint has in hand.                                           *)
(***************************************************************************)

\* Only e's own steps touch its side.
LEMMA SendingElsewhere ==
    ASSUME TypeOK, Sending, NEW e \in Endpoint, SendingAt(e)',
           \A a \in Endpoint \ {e} : /\ open'[a] = open[a] /\ sshPc'[a] = sshPc[a]
                                     /\ chunk'[a] = chunk[a] /\ inp'[a] = inp[a]
    PROVE  Sending'
  BY DEF Sending, SendingAt

\* The open message after NextWriter and after Close.
LEMMA OpenNext ==
    ASSUME TypeOK, NEW e \in Endpoint, NEW w \in {"ssh", "run"}
    PROVE  /\ NextWriter(e, w) =>
                /\ link = "up"
                /\ open'[e].by = w /\ open'[e].ack = NoAck /\ open'[e].data.n = 0
                /\ \A x \in Endpoint \ {e} : open'[x] = open[x]
                /\ IF open[e].by = "none" THEN UNCHANGED wire ELSE Sent(e, FrameOf(e))
           /\ CloseMessage(e, w) =>
                /\ \A x \in Endpoint \ {e} : open'[x] = open[x]
                /\ open[e].by # w => UNCHANGED <<open, wire>>
                /\ open[e].by = w =>
                    /\ open'[e].by = "none" /\ open'[e].data.n = 0
                    /\ \/ link = "up" /\ Sent(e, FrameOf(e))
                       \/ link = "down" /\ UNCHANGED wire
<1>1. Flush(e) => Sent(e, FrameOf(e)) BY DEF Flush, Sent, FrameOf
<1> USE OpenType DEF Message, NoMessage, Nothing
<1>2. ASSUME NextWriter(e, w)
      PROVE  /\ link = "up"
             /\ open'[e].by = w /\ open'[e].ack = NoAck /\ open'[e].data.n = 0
             /\ \A x \in Endpoint \ {e} : open'[x] = open[x]
             /\ IF open[e].by = "none" THEN UNCHANGED wire ELSE Sent(e, FrameOf(e))
  BY <1>1, <1>2 DEF NextWriter
<1>3. ASSUME CloseMessage(e, w)
      PROVE  /\ \A x \in Endpoint \ {e} : open'[x] = open[x]
             /\ open[e].by # w => UNCHANGED <<open, wire>>
             /\ open[e].by = w =>
                    /\ open'[e].by = "none" /\ open'[e].data.n = 0
                    /\ \/ link = "up" /\ Sent(e, FrameOf(e))
                       \/ link = "down" /\ UNCHANGED wire
  BY <1>1, <1>3 DEF CloseMessage
<1> QED BY <1>2, <1>3

\* runSSH keeps what it holds in order.
LEMMA SendingSSH ==
    ASSUME TypeOK, Sending, NEW e \in Endpoint, RunSSH(e) \/ SshReadEOF(e)
    PROVE  Sending'
<1> USE SendingElsewhere DEF streamVars, countVars, doneVars
<1>0. SendingAt(e) BY DEF Sending
<1>1. CASE SshRead(e)
  <2>1. PICK k \in 1..BufLen :
            /\ inp[e] + k <= StreamLen[e] /\ inp' = [inp EXCEPT ![e] = inp[e] + k]
            /\ chunk' = [chunk EXCEPT ![e] = [lo |-> inp[e], n |-> k]]
    BY <1>1 DEF SshRead
  <2>2. /\ inp'[e] = inp[e] + k /\ chunk'[e].lo = inp[e] /\ chunk'[e].n = k
        /\ sshPc'[e] = "open" /\ open' = open
        /\ \A a \in Endpoint \ {e} : inp'[a] = inp[a] /\ chunk'[a] = chunk[a] /\ sshPc'[a] = sshPc[a]
    BY <1>1, <2>1 DEF SshRead, TypeOK
  <2>3. SendingAt(e)' BY <1>0, <1>1, <2>1, <2>2 DEF SendingAt, SshRead
  <2> QED BY <2>2, <2>3
<1>2. CASE SshReadEOF(e) BY <1>0, <1>2 DEF SshReadEOF, SendingAt, TypeOK
<1>3. CASE SshReadFails(e) BY <1>0, <1>3 DEF SshReadFails, SendingAt, TypeOK
<1>4. CASE SshOpen(e)
  <2>1. /\ open'[e].by = "ssh" /\ open'[e].data.n = 0
        /\ \A x \in Endpoint \ {e} : open'[x] = open[x]
    BY <1>4, OpenNext DEF SshOpen
  <2>2. sshPc'[e] = "ack" /\ \A x \in Endpoint \ {e} : sshPc'[x] = sshPc[x]
    BY <1>4 DEF SshOpen, TypeOK
  <2>3. SendingAt(e)' BY <1>0, <1>4, <2>1, <2>2 DEF SendingAt, SshOpen
  <2> QED BY <1>4, <2>1, <2>2, <2>3 DEF SshOpen
<1>5. CASE SshOpenFails(e) BY <1>0, <1>5 DEF SshOpenFails, SendingAt, TypeOK
<1>6. CASE copySSH(e)
  <2>1. /\ open'[e].by = "ssh" /\ open'[e].data = chunk[e] /\ chunk'[e].n = 0
        /\ sshPc'[e] = "flush" /\ inp' = inp
        /\ \A a \in Endpoint \ {e} : open'[a] = open[a] /\ chunk'[a] = chunk[a] /\ sshPc'[a] = sshPc[a]
    BY <1>6 DEF copySSH, TypeOK, Nothing
  <2>2. SendingAt(e)' BY <1>0, <2>1 DEF SendingAt
  <2> QED BY <2>1, <2>2
<1>7. CASE copySSHFails(e)
  <2>1. /\ open'[e] = open[e] \/ (open'[e].by = "none" /\ open'[e].data.n = 0)
        /\ sshPc'[e] = "io" /\ inp' = inp /\ chunk' = chunk
        /\ \A a \in Endpoint \ {e} : open'[a] = open[a] /\ sshPc'[a] = sshPc[a]
    BY <1>7 DEF copySSHFails, TypeOK, NoMessage, Message, Nothing
  <2>2. SendingAt(e)' BY <1>0, <2>1 DEF SendingAt
  <2> QED BY <2>1, <2>2
<1>8. CASE SshFlush(e)
  <2>1. /\ \A x \in Endpoint \ {e} : open'[x] = open[x]
        /\ open[e].by # "ssh" => UNCHANGED <<open, wire>>
        /\ open[e].by = "ssh" => open'[e].by = "none" /\ open'[e].data.n = 0
    BY <1>8, OpenNext DEF SshFlush
  <2>2. sshPc'[e] = "read" /\ \A x \in Endpoint \ {e} : sshPc'[x] = sshPc[x]
    BY <1>8 DEF SshFlush, TypeOK
  <2>3. SendingAt(e)' BY <1>0, <1>8, <2>1, <2>2 DEF SendingAt, SshFlush
  <2> QED BY <1>8, <2>1, <2>2, <2>3 DEF SshFlush
<1>9. CASE SshPanics(e) BY <1>0, <1>9 DEF SshPanics, SendingAt, TypeOK
<1>10. CASE SshWriteAck(e)
  <2>1. /\ open'[e].by = "ssh" /\ open'[e].data = open[e].data
        /\ sshPc'[e] = "copy" /\ inp' = inp /\ chunk' = chunk
        /\ \A a \in Endpoint \ {e} : open'[a] = open[a] /\ sshPc'[a] = sshPc[a]
    BY <1>10 DEF SshWriteAck, TypeOK
  <2>2. SendingAt(e)' BY <1>0, <1>10, <2>1 DEF SendingAt, SshWriteAck
  <2> QED BY <2>1, <2>2
<1> QED BY <1>1, <1>2, <1>3, <1>4, <1>5, <1>6, <1>7, <1>8, <1>9, <1>10 DEF RunSSH

\* Run may send runSSH's message as it is, and puts no data into its own.
LEMMA SendingRun ==
    ASSUME TypeOK, Sending, NEW e \in Endpoint, Run(e)
    PROVE  Sending'
<1> USE SendingElsewhere DEF streamVars, countVars, doneVars
<1>0. SendingAt(e) BY DEF Sending
<1>1. CASE RunRecvErr(e) BY <1>0, <1>1 DEF RunRecvErr, SendingAt, TypeOK, Err
<1>2. CASE RunNextWriter(e)
  <2>1. UNCHANGED <<sshPc, chunk, inp>> BY <1>2 DEF RunNextWriter
  <2>2. CASE NextWriter(e, "run")
    <3>1. /\ open'[e].by = "run" /\ open'[e].data.n = 0
          /\ \A x \in Endpoint \ {e} : open'[x] = open[x]
      BY <2>2, OpenNext
    <3>2. SendingAt(e)' BY <1>0, <2>1, <3>1 DEF SendingAt
    <3> QED BY <2>1, <3>1, <3>2
  <2>3. CASE UNCHANGED open BY <2>1, <2>3 DEF Sending, SendingAt
  <2> QED BY <1>2, <2>2, <2>3 DEF RunNextWriter
<1>3. CASE RunPanics(e) BY <1>3 DEF RunPanics, Sending, SendingAt
<1>4. CASE RunLoad(e) \/ RunMask(e) BY <1>4 DEF RunLoad, RunMask, Sending, SendingAt
<1>5. CASE RunWriteAck(e)
  <2>1. \A a \in Endpoint : open'[a].by = open[a].by /\ open'[a].data = open[a].data
    BY <1>5 DEF RunWriteAck, TypeOK
  <2> QED BY <1>5, <2>1 DEF RunWriteAck, Sending, SendingAt
<1>6. CASE RunFlush(e)
  <2>1. UNCHANGED <<sshPc, chunk, inp>> BY <1>6 DEF RunFlush
  <2>2. /\ \A x \in Endpoint \ {e} : open'[x] = open[x]
        /\ open'[e] = open[e] \/ (open'[e].by = "none" /\ open'[e].data.n = 0)
    BY <1>6, OpenNext DEF RunFlush
  <2>3. SendingAt(e)' BY <1>0, <2>1, <2>2 DEF SendingAt
  <2> QED BY <2>1, <2>2, <2>3
<1>7. CASE RunClose(e) BY <1>7 DEF RunClose, Sending, SendingAt
<1>8. CASE RunSend(e) \/ CallerReturns(e) BY <1>8 DEF RunSend, CallerReturns, Sending, SendingAt
<1> QED BY <1>1, <1>2, <1>3, <1>4, <1>5, <1>6, <1>7, <1>8 DEF Run

\* No step of any other kind touches it, and a foreign peer holds nothing.
LEMMA SendingNext == TypeOK /\ ForeignIdle /\ Sending /\ [Next]_vars => Sending'
<1> SUFFICES ASSUME TypeOK, ForeignIdle, Sending, [Next]_vars PROVE Sending'
  OBVIOUS
<1> USE DEF streamVars, countVars, doneVars
<1>1. ASSUME UNCHANGED <<open, sshPc, chunk, inp>> PROVE Sending'
  BY <1>1 DEF Sending, SendingAt
<1>2. ASSUME NEW e \in Endpoint, RunWS(e) \/ ForeignRecv(e) PROVE Sending'
  BY <1>1, <1>2 DEF RunWS, RecvBinary, RecvText, WsReadFails, CountLoad, CountStore, SshWrite,
                    SshWriteFails, ForeignRecv
<1>3. ASSUME NEW e \in Endpoint, ForeignSend(e) PROVE Sending'
  <2>1. SendingAt(e) /\ chunk[e].n = 0 /\ open[e].data.n = 0
    BY <1>3 DEF Sending, ForeignSend, ForeignIdle
  <2>2. UNCHANGED <<open, sshPc, chunk>> BY <1>3 DEF ForeignSend
  <2>3. inp'[e] <= StreamLen[e] /\ \A a \in Endpoint \ {e} : inp'[a] = inp[a]
    BY <1>3, <2>1 DEF ForeignSend, TypeOK, SendingAt
  <2>4. SendingAt(e)' BY <2>1, <2>2, <2>3 DEF SendingAt
  <2> QED BY <2>2, <2>3, <2>4, SendingElsewhere
<1>4. CASE LinkBreaks \/ DeadlineClose \/ DeadlineSend \/ UNCHANGED vars
  BY <1>1, <1>4 DEF LinkBreaks, DeadlineClose, DeadlineSend, vars
<1> QED BY <1>2, <1>3, <1>4, SendingSSH, SendingRun DEF Next

\* A foreign endpoint stays foreign and idle, and no other becomes one.
LEMMA ForeignNext ==
    TypeOK /\ ForeignIdle /\ [Next]_vars
        => ForeignIdle' /\ \A e \in Endpoint : IsForeign(e)' <=> IsForeign(e)
<1> SUFFICES ASSUME TypeOK, ForeignIdle, [Next]_vars
             PROVE  ForeignIdle' /\ \A e \in Endpoint : IsForeign(e)' <=> IsForeign(e)
  OBVIOUS
<1> DEFINE Goal == ForeignIdle' /\ \A e \in Endpoint : IsForeign(e)' <=> IsForeign(e)
<1> USE DEF streamVars, countVars, doneVars
<1>1. ASSUME NEW e \in Endpoint, ~IsForeign(e), run'[e] # "foreign",
             \A a \in Endpoint \ {e} :
                /\ run'[a] = run[a] /\ sshPc'[a] = sshPc[a] /\ wsPc'[a] = wsPc[a]
                /\ chunk'[a] = chunk[a] /\ open'[a] = open[a]
      PROVE  Goal
  BY <1>1 DEF ForeignIdle, IsForeign
<1>2. ASSUME NEW e \in Endpoint, sshPc[e] # "gone" \/ wsPc[e] # "gone" PROVE ~IsForeign(e)
  BY <1>2 DEF ForeignIdle
<1>3. ASSUME UNCHANGED <<run, sshPc, wsPc, chunk, open>> PROVE Goal
  BY <1>3 DEF ForeignIdle, IsForeign
<1>4. ASSUME NEW e \in Endpoint, RunSSH(e) \/ SshReadEOF(e) PROVE Goal
  <2>1. sshPc[e] # "gone"
    BY <1>4 DEF RunSSH, SshRead, SshReadEOF, SshReadFails, SshOpen, SshOpenFails, SshWriteAck,
                copySSH, copySSHFails, SshFlush, SshPanics
  <2>2. \A a \in Endpoint \ {e} :
            /\ run'[a] = run[a] /\ sshPc'[a] = sshPc[a] /\ wsPc'[a] = wsPc[a]
            /\ chunk'[a] = chunk[a]
    BY <1>4 DEF RunSSH, SshRead, SshReadEOF, SshReadFails, SshOpen, SshOpenFails, SshWriteAck,
                copySSH, copySSHFails, SshFlush, SshPanics, TypeOK
  <2>3. \A a \in Endpoint \ {e} : open'[a] = open[a]
    <3>1. CASE SshOpen(e) BY <3>1, OpenNext DEF SshOpen
    <3>2. CASE SshFlush(e) BY <3>2, OpenNext DEF SshFlush
    <3>3. CASE SshWriteAck(e) \/ copySSH(e) \/ copySSHFails(e)
      BY <3>3 DEF SshWriteAck, copySSH, copySSHFails, TypeOK
    <3> QED
      BY <1>4, <3>1, <3>2, <3>3
         DEF RunSSH, SshRead, SshReadEOF, SshReadFails, SshOpenFails, SshPanics
  <2>4. ~IsForeign(e) BY <1>2, <2>1
  <2>5. run'[e] # "foreign"
    BY <1>4, <2>4 DEF RunSSH, SshRead, SshReadEOF, SshReadFails, SshOpen, SshOpenFails,
                      SshWriteAck, copySSH, copySSHFails, SshFlush, SshPanics, TypeOK, IsForeign
  <2> QED BY <1>1, <2>2, <2>3, <2>4, <2>5
<1>5. ASSUME NEW e \in Endpoint, RunWS(e) PROVE Goal
  <2>1. wsPc[e] # "gone"
    BY <1>5 DEF RunWS, RecvBinary, RecvText, WsReadFails, CountLoad, CountStore, SshWrite,
                SshWriteFails, WsReady
  <2>2. /\ UNCHANGED <<run, sshPc, chunk, open>>
        /\ \A a \in Endpoint \ {e} : wsPc'[a] = wsPc[a]
    BY <1>5 DEF RunWS, RecvBinary, RecvText, WsReadFails, CountLoad, CountStore, SshWrite,
                SshWriteFails, TypeOK
  <2>3. ~IsForeign(e) BY <1>2, <2>1
  <2> QED BY <1>1, <2>2, <2>3 DEF IsForeign
<1>6. ASSUME NEW e \in Endpoint, Run(e) PROVE Goal
  <2>1. /\ ~IsForeign(e) /\ run'[e] # "foreign" /\ UNCHANGED chunk
        /\ \A a \in Endpoint \ {e} : run'[a] = run[a] /\ sshPc'[a] = sshPc[a] /\ wsPc'[a] = wsPc[a]
    BY <1>6 DEF Run, RunRecvErr, RunNextWriter, RunPanics, RunLoad, RunMask, RunWriteAck, RunFlush,
                RunClose, RunSend, CallerReturns, TypeOK, IsForeign
  <2>2. \A a \in Endpoint \ {e} : open'[a] = open[a]
    <3>1. CASE RunNextWriter(e) BY <3>1, OpenNext DEF RunNextWriter
    <3>2. CASE RunFlush(e) BY <3>2, OpenNext DEF RunFlush
    <3>3. CASE RunWriteAck(e) BY <3>3 DEF RunWriteAck, TypeOK
    <3> QED
      BY <1>6, <3>1, <3>2, <3>3 DEF Run, RunRecvErr, RunPanics, RunLoad, RunMask, RunClose,
                                    RunSend, CallerReturns
  <2> QED BY <1>1, <2>1, <2>2
<1>7. ASSUME NEW e \in Endpoint, ForeignSend(e) \/ ForeignRecv(e) PROVE Goal
  BY <1>3, <1>7 DEF ForeignSend, ForeignRecv
<1>8. CASE LinkBreaks \/ DeadlineClose \/ DeadlineSend \/ UNCHANGED vars
  BY <1>3, <1>8 DEF LinkBreaks, DeadlineClose, DeadlineSend, vars
<1> QED BY <1>4, <1>5, <1>6, <1>7, <1>8 DEF Next

-----------------------------------------------------------------------------
(***************************************************************************)
(* A step that neither moves a frame nor writes a byte.  The stream may    *)
(* skip bytes only on a broken connection.                                 *)
(***************************************************************************)

\* Payloads on the wire are numbers.
LEMMA WireFacts ==
    ASSUME TypeOK, NEW e \in Endpoint, NEW i \in DOMAIN wire[e]
    PROVE  /\ wire[e][i] \in Frame
           /\ IsData(wire[e][i]) => wire[e][i].lo \in Nat /\ wire[e][i].n \in Nat
<1>1. wire[e] \in Seq(Frame) BY DEF TypeOK
<1>2. wire[e][i] \in Frame BY <1>1, LenProperties, ElementOfSeq
<1> QED BY <1>2, FrameFacts DEF IsData

\* runWS of a stays where it is, or goes on with the payload in hand.
StaysAt(a) == wsPc'[a] = wsPc[a] \/ {wsPc[a], wsPc'[a]} \subseteq {"count", "add", "write"}

\* Such a step keeps the streams.
LEMMA QuietStreams ==
    ASSUME TypeOK, Streams, UNCHANGED <<data, out, wire>>,
           \A a \in Endpoint : /\ Alive(a)' => StaysAt(a)
                               /\ End(a) <= End(a)' /\ End(a)' \in Nat,
           link' = "up" => link = "up" /\ \A a \in Endpoint : End(a)' = End(a)
    PROVE  Streams'
<1>1. \A a \in Endpoint : Base(a)' = Base(a) /\ (Alive(a)' => Alive(a))
  BY DEF Base, Alive, StaysAt
<1>2. Receiving'
  <2> SUFFICES ASSUME NEW a \in Endpoint
               PROVE  /\ wsPc'[a] = "read" => data'[a].n = 0
                      /\ Alive(a)' /\ data'[a].n > 0 => data'[a].lo = Len(out'[a])
                      /\ Base(a)' <= End(Peer(a))'
    BY DEF Receiving
  <2>1. Peer(a) \in Endpoint BY PeerFacts
  <2>2. Base(a) <= End(Peer(a)) BY DEF Streams, Receiving
  <2>3. Base(a)' <= End(Peer(a))' BY <1>1, <2>1, <2>2, CountFacts
  <2>4. ASSUME Alive(a)' PROVE /\ wsPc'[a] = "read" => data'[a].n = 0
                               /\ data'[a].n > 0 => data'[a].lo = Len(out'[a])
    BY <1>1, <2>4 DEF Streams, Receiving, StaysAt
  <2> QED BY <2>3, <2>4 DEF Alive
<1>3. Ordered'
  <2>1. ASSUME NEW a \in Endpoint, NEW i \in DOMAIN wire[a], IsData(wire[a][i])
        PROVE  wire[a][i].lo + wire[a][i].n <= End(a)'
    <3>1. wire[a][i].lo + wire[a][i].n <= End(a) BY <2>1 DEF Streams, Ordered
    <3>2. wire[a][i].lo \in Nat /\ wire[a][i].n \in Nat BY <2>1, WireFacts
    <3>3. End(a) <= End(a)' /\ End(a) \in Nat /\ End(a)' \in Nat BY CountFacts
    <3> QED BY <3>1, <3>2, <3>3
  <2> QED BY <2>1 DEF Streams, Ordered
<1>4. Gapless' BY <1>1, PeerFacts DEF Streams, Gapless
<1>5. StreamIntegrity' BY DEF Streams, StreamIntegrity
<1> QED BY <1>2, <1>3, <1>4, <1>5 DEF Streams

-----------------------------------------------------------------------------
(***************************************************************************)
(* A frame is taken from the wire.                                         *)
(***************************************************************************)

\* What Receive does to the two queues.
LEMMA ReceiveShape ==
    ASSUME TypeOK, NEW e \in Endpoint, wire[Peer(e)] # << >>, Receive(e)
    PROVE  /\ wire'[e] = wire[e]
           /\ Len(wire[Peer(e)]) \in Nat \ {0}
           /\ Len(wire'[Peer(e)]) = Len(wire[Peer(e)]) - 1
           /\ DOMAIN wire[Peer(e)] = 1..Len(wire[Peer(e)])
           /\ DOMAIN wire'[Peer(e)] = 1..(Len(wire[Peer(e)]) - 1)
           /\ \A i \in DOMAIN wire'[Peer(e)] : wire'[Peer(e)][i] = wire[Peer(e)][i + 1]
           /\ Incoming(e) = wire[Peer(e)][1]
<1>1. Peer(e) \in Endpoint /\ Peer(e) # e BY PeerFacts
<1>2. wire[Peer(e)] \in Seq(Frame) BY <1>1 DEF TypeOK
<1>3. wire'[e] = wire[e] /\ wire'[Peer(e)] = Tail(wire[Peer(e)])
  BY <1>1 DEF TypeOK, Receive
<1> DEFINE s == wire[Peer(e)]
<1>4. /\ Len(s) \in Nat \ {0} /\ DOMAIN s = 1..Len(s) /\ Len(Tail(s)) = Len(s) - 1
      /\ DOMAIN Tail(s) = 1..(Len(s) - 1) /\ \A i \in 1..(Len(s) - 1) : Tail(s)[i] = s[i + 1]
      /\ Head(s) = s[1]
  BY <1>2, HeadTailProperties, LenProperties, EmptySeq
<1> QED BY <1>3, <1>4 DEF Incoming

\* Taking a frame leaves the other payloads in order.
LEMMA ReceiveOrdered ==
    ASSUME TypeOK, Ordered, NEW e \in Endpoint, wire[Peer(e)] # << >>, Receive(e),
           \A a \in Endpoint : End(a)' = End(a)
    PROVE  Ordered'
<1> DEFINE P(a) == \A i \in DOMAIN wire[a] : IsData(wire[a][i]) =>
                     /\ wire[a][i].lo + wire[a][i].n <= End(a)
                     /\ \A j \in DOMAIN wire[a] : IsData(wire[a][j]) /\ i < j
                            => wire[a][i].lo + wire[a][i].n <= wire[a][j].lo
<1>1. \A a \in Endpoint : End(a)' = End(a) OBVIOUS
<1>2. P(e)' BY <1>1, ReceiveShape DEF Ordered, IsData
<1>3. P(Peer(e))'
  <2> SUFFICES ASSUME NEW i \in DOMAIN wire'[Peer(e)], IsData(wire'[Peer(e)][i])
               PROVE  /\ wire'[Peer(e)][i].lo + wire'[Peer(e)][i].n <= End(Peer(e))'
                      /\ \A j \in DOMAIN wire'[Peer(e)] : IsData(wire'[Peer(e)][j]) /\ i < j
                            => wire'[Peer(e)][i].lo + wire'[Peer(e)][i].n <= wire'[Peer(e)][j].lo
    BY DEF IsData
  <2>1. Peer(e) \in Endpoint BY PeerFacts
  <2>2. i + 1 \in DOMAIN wire[Peer(e)] /\ wire'[Peer(e)][i] = wire[Peer(e)][i + 1]
    BY ReceiveShape
  <2>3. ASSUME NEW j \in DOMAIN wire'[Peer(e)], i < j
        PROVE  j + 1 \in DOMAIN wire[Peer(e)] /\ wire'[Peer(e)][j] = wire[Peer(e)][j + 1] /\ i + 1 < j + 1
    BY <2>3, ReceiveShape
  <2> QED BY <1>1, <2>1, <2>2, <2>3 DEF Ordered, IsData
<1> QED BY <1>2, <1>3, PeerFacts DEF Ordered

\* What remains after a frame without data was taken, or after runWS has
\* ended, still has no gap.
LEMMA ReceiveGapless ==
    ASSUME TypeOK, Gapless, NEW e \in Endpoint, wire[Peer(e)] # << >>, Receive(e),
           UNCHANGED link, \A a \in Endpoint : End(a)' = End(a) /\ (Alive(a)' => Base(a)' = Base(a)),
           \A a \in Endpoint : Alive(a)' => Alive(a),
           Alive(e)' => ~IsData(Incoming(e))
    PROVE  Gapless'
<1> DEFINE P(a) == Alive(Peer(a)) =>
                     /\ \A i \in DOMAIN wire[a] : IsData(wire[a][i])
                            => Joins(wire[a], Base(Peer(a)), wire[a][i].lo, i)
                     /\ link = "up" => Joins(wire[a], Base(Peer(a)), End(a), Len(wire[a]) + 1)
<1>1. \A a \in Endpoint : End(a)' = End(a) /\ (Alive(a)' => Base(a)' = Base(a)) OBVIOUS
<1>2. Peer(e) \in Endpoint /\ Peer(Peer(e)) = e BY PeerFacts
<1>3. P(e)' BY <1>1, <1>2, ReceiveShape DEF Gapless
<1>4. P(Peer(e))'
  <2> SUFFICES ASSUME Alive(e)'
               PROVE  /\ \A i \in DOMAIN wire'[Peer(e)] : IsData(wire'[Peer(e)][i])
                            => Joins(wire'[Peer(e)], Base(e), wire'[Peer(e)][i].lo, i)
                      /\ link = "up"
                            => Joins(wire'[Peer(e)], Base(e), End(Peer(e)), Len(wire'[Peer(e)]) + 1)
    BY <1>1, <1>2
  <2>1. ASSUME NEW m, NEW b, NEW k \in Int, Joins(wire[Peer(e)], m, b, k + 1)
        PROVE  Joins(wire'[Peer(e)], m, b, k)
    <3>1. CASE b = m BY <3>1 DEF Joins
    <3>2. ASSUME NEW j \in DOMAIN wire[Peer(e)], j < k + 1, IsData(wire[Peer(e)][j]),
                 b = wire[Peer(e)][j].lo + wire[Peer(e)][j].n
          PROVE  Joins(wire'[Peer(e)], m, b, k)
      <4>1. j # 1 BY <3>2, ReceiveShape DEF IsData
      <4>2. /\ j - 1 \in DOMAIN wire'[Peer(e)] /\ j - 1 < k
            /\ wire'[Peer(e)][j - 1] = wire[Peer(e)][j]
        BY <3>2, <4>1, ReceiveShape
      <4> QED BY <3>2, <4>2 DEF Joins
    <3> QED BY <2>1, <3>1, <3>2 DEF Joins
  <2>2. ASSUME NEW i \in DOMAIN wire'[Peer(e)], IsData(wire'[Peer(e)][i])
        PROVE  Joins(wire'[Peer(e)], Base(e), wire'[Peer(e)][i].lo, i)
    <3>1. /\ i \in Int /\ i + 1 \in DOMAIN wire[Peer(e)]
          /\ wire'[Peer(e)][i] = wire[Peer(e)][i + 1]
      BY ReceiveShape
    <3>2. Joins(wire[Peer(e)], Base(e), wire[Peer(e)][i + 1].lo, i + 1)
      BY <1>2, <2>2, <3>1 DEF Gapless
    <3> QED BY <2>1, <3>1, <3>2
  <2>3. ASSUME link = "up"
        PROVE  Joins(wire'[Peer(e)], Base(e), End(Peer(e)), Len(wire'[Peer(e)]) + 1)
    <3>1. Joins(wire[Peer(e)], Base(e), End(Peer(e)), Len(wire[Peer(e)]) + 1)
      BY <1>2, <2>3 DEF Gapless
    <3>2. Len(wire[Peer(e)]) \in Int /\ Len(wire'[Peer(e)]) + 1 = Len(wire[Peer(e)])
      BY ReceiveShape
    <3> QED BY <2>1, <3>1, <3>2
  <2> QED BY <2>2, <2>3
<1> QED BY <1>3, <1>4, PeerFacts DEF Gapless

-----------------------------------------------------------------------------
(***************************************************************************)
(* A frame is put on the wire.                                             *)
(***************************************************************************)

\* The queue grows by f at its end, the other one stays.
LEMMA SentShape ==
    ASSUME TypeOK, NEW e \in Endpoint, NEW f \in Frame, Sent(e, f)
    PROVE  /\ wire'[Peer(e)] = wire[Peer(e)]
           /\ Len(wire[e]) \in Nat
           /\ Len(wire'[e]) = Len(wire[e]) + 1
           /\ DOMAIN wire[e] = 1..Len(wire[e])
           /\ DOMAIN wire'[e] = 1..(Len(wire[e]) + 1)
           /\ \A i \in DOMAIN wire[e] : wire'[e][i] = wire[e][i]
           /\ wire'[e][Len(wire[e]) + 1] = f
<1>1. Peer(e) \in Endpoint /\ Peer(e) # e BY PeerFacts
<1>2. wire[e] \in Seq(Frame) BY DEF TypeOK
<1>3. wire'[Peer(e)] = wire[Peer(e)] /\ wire'[e] = Append(wire[e], f)
  BY <1>1 DEF TypeOK, Sent
<1>4. /\ Len(wire[e]) \in Nat /\ DOMAIN wire[e] = 1..Len(wire[e])
      /\ Append(wire[e], f) \in Seq(Frame) /\ Len(Append(wire[e], f)) = Len(wire[e]) + 1
      /\ \A i \in 1..Len(wire[e]) : Append(wire[e], f)[i] = wire[e][i]
      /\ Append(wire[e], f)[Len(wire[e]) + 1] = f
  BY <1>2, AppendProperties, LenProperties
<1> QED BY <1>3, <1>4, LenProperties

\* A frame on the wire after sending was there before, or is the new one.
LEMMA SentCases ==
    ASSUME TypeOK, NEW e \in Endpoint, NEW f \in Frame, Sent(e, f)
    PROVE  \A i \in DOMAIN wire'[e] :
                \/ i \in DOMAIN wire[e] /\ wire'[e][i] = wire[e][i] /\ i < Len(wire[e]) + 1
                \/ i = Len(wire[e]) + 1 /\ wire'[e][i] = f
  BY SentShape

\* A payload that is sent starts where the stream stands and moves it on.
Extends(e, f) ==
    \/ ~IsData(f) /\ End(e)' = End(e)
    \/ IsData(f) /\ f.lo = End(e) /\ End(e)' = f.lo + f.n

\* It lies after all that is on the wire.
LEMMA SentOrdered ==
    ASSUME TypeOK, Ordered, NEW e \in Endpoint, NEW f \in Frame, Sent(e, f), Extends(e, f),
           End(Peer(e))' = End(Peer(e))
    PROVE  Ordered'
<1>1. ASSUME NEW i \in DOMAIN wire'[Peer(e)], IsData(wire'[Peer(e)][i])
      PROVE  /\ wire'[Peer(e)][i].lo + wire'[Peer(e)][i].n <= End(Peer(e))'
             /\ \A j \in DOMAIN wire'[Peer(e)] : IsData(wire'[Peer(e)][j]) /\ i < j
                    => wire'[Peer(e)][i].lo + wire'[Peer(e)][i].n <= wire'[Peer(e)][j].lo
  BY <1>1, SentShape, PeerFacts DEF Ordered
<1>2. ASSUME IsData(f) PROVE f.lo \in Nat /\ f.n \in Nat
  BY <1>2, FrameFacts, LongestFacts, SizeAssumption DEF IsData
<1>3. ASSUME NEW i \in DOMAIN wire[e], IsData(wire[e][i])
      PROVE  wire[e][i].lo + wire[e][i].n <= End(e) /\ wire[e][i].lo + wire[e][i].n \in Nat
  <2>1. wire[e][i] \in Frame BY ElementOfSeq, SentShape DEF TypeOK
  <2> QED BY <1>3, <2>1, FrameFacts, LongestFacts, SizeAssumption DEF Ordered, IsData
<1>4. End(e) \in Nat /\ (IsData(f) => f.lo = End(e)) /\ End(e)' \in Nat /\ End(e) <= End(e)'
      /\ (IsData(f) => f.lo + f.n <= End(e)')
  BY <1>2, CountFacts DEF Extends
<1>5. ASSUME NEW i \in DOMAIN wire'[e], IsData(wire'[e][i])
      PROVE  /\ wire'[e][i].lo + wire'[e][i].n <= End(e)'
             /\ \A j \in DOMAIN wire'[e] : IsData(wire'[e][j]) /\ i < j
                    => wire'[e][i].lo + wire'[e][i].n <= wire'[e][j].lo
  <2>1. CASE i = Len(wire[e]) + 1 /\ wire'[e][i] = f
    <3>1. \A j \in DOMAIN wire'[e] : ~(i < j) BY <2>1, SentShape
    <3> QED BY <1>4, <1>5, <2>1, <3>1
  <2>2. CASE i \in DOMAIN wire[e] /\ wire'[e][i] = wire[e][i]
    <3>1. wire'[e][i].lo + wire'[e][i].n <= End(e)' BY <1>3, <1>4, <1>5, <2>2
    <3>2. ASSUME NEW j \in DOMAIN wire'[e], IsData(wire'[e][j]), i < j
          PROVE  wire'[e][i].lo + wire'[e][i].n <= wire'[e][j].lo
      <4>1. CASE j = Len(wire[e]) + 1 /\ wire'[e][j] = f
        BY <1>3, <1>4, <1>5, <2>2, <3>2, <4>1
      <4>2. CASE j \in DOMAIN wire[e] /\ wire'[e][j] = wire[e][j]
        BY <1>5, <2>2, <3>2, <4>2 DEF Ordered
      <4> QED BY <4>1, <4>2, SentCases
    <3> QED BY <3>1, <3>2
  <2> QED BY <2>1, <2>2, SentCases
<1> QED BY <1>1, <1>5, PeerFacts DEF Ordered

\* A payload that is sent follows on what is on the wire.
LEMMA SentGapless ==
    ASSUME TypeOK, Gapless, NEW e \in Endpoint, NEW f \in Frame, Sent(e, f), Extends(e, f),
           link = "up", End(Peer(e))' = End(Peer(e)),
           \A a \in Endpoint : Base(a)' = Base(a) /\ (Alive(a)' => Alive(a))
    PROVE  Gapless'
<1>1. Peer(e) \in Endpoint /\ Peer(Peer(e)) = e /\ Peer(e) # e BY PeerFacts
<1>2. ASSUME Alive(e)'
      PROVE  /\ \A i \in DOMAIN wire'[Peer(e)] : IsData(wire'[Peer(e)][i])
                    => Joins(wire'[Peer(e)], Base(e)', wire'[Peer(e)][i].lo, i)
             /\ Joins(wire'[Peer(e)], Base(e)', End(Peer(e))', Len(wire'[Peer(e)]) + 1)
  BY <1>1, <1>2, SentShape DEF Gapless
<1>3. ASSUME NEW m, NEW b, NEW k \in Int, NEW l \in Int, k <= l, Joins(wire[e], m, b, k)
      PROVE  Joins(wire'[e], m, b, l)
  <2>1. CASE b = m BY <2>1 DEF Joins
  <2>2. ASSUME NEW j \in DOMAIN wire[e], j < k, IsData(wire[e][j]), b = wire[e][j].lo + wire[e][j].n
        PROVE  Joins(wire'[e], m, b, l)
    <3>1. j \in DOMAIN wire'[e] /\ wire'[e][j] = wire[e][j] /\ j < l BY <1>3, <2>2, SentShape
    <3> QED BY <2>2, <3>1 DEF Joins
  <2> QED BY <1>3, <2>1, <2>2 DEF Joins
<1>4. ASSUME Alive(Peer(e))'
      PROVE  /\ \A i \in DOMAIN wire'[e] : IsData(wire'[e][i])
                    => Joins(wire'[e], Base(Peer(e))', wire'[e][i].lo, i)
             /\ Joins(wire'[e], Base(Peer(e))', End(e)', Len(wire'[e]) + 1)
  <2> DEFINE m == Base(Peer(e))
  <2>1. Alive(Peer(e)) /\ Base(Peer(e))' = m BY <1>1, <1>4
  <2>2. Joins(wire[e], m, End(e), Len(wire[e]) + 1) BY <2>1 DEF Gapless
  <2>3. Len(wire[e]) + 1 \in Int /\ Len(wire'[e]) + 1 = (Len(wire[e]) + 1) + 1
    BY SentShape
  <2>4. ASSUME NEW i \in DOMAIN wire'[e], IsData(wire'[e][i])
        PROVE  Joins(wire'[e], m, wire'[e][i].lo, i)
    <3>1. CASE i = Len(wire[e]) + 1 /\ wire'[e][i] = f
      <4>1. f.lo = End(e) BY <2>4, <3>1 DEF Extends
      <4> QED BY <1>3, <2>2, <2>3, <3>1, <4>1
    <3>2. CASE i \in DOMAIN wire[e] /\ wire'[e][i] = wire[e][i]
      <4>1. Joins(wire[e], m, wire[e][i].lo, i) BY <2>1, <2>4, <3>2 DEF Gapless
      <4>2. i \in Int /\ i <= i BY SentShape
      <4> QED BY <1>3, <3>2, <4>1, <4>2
    <3> QED BY <3>1, <3>2, SentCases
  <2>5. Joins(wire'[e], m, End(e)', Len(wire'[e]) + 1)
    <3>1. CASE ~IsData(f) /\ End(e)' = End(e)
      <4>1. Len(wire'[e]) + 1 \in Int /\ Len(wire[e]) + 1 <= Len(wire'[e]) + 1 BY <2>3
      <4> QED BY <1>3, <2>2, <2>3, <3>1, <4>1
    <3>2. CASE IsData(f) /\ End(e)' = f.lo + f.n
      <4>1. /\ Len(wire[e]) + 1 \in DOMAIN wire'[e] /\ wire'[e][Len(wire[e]) + 1] = f
            /\ Len(wire[e]) + 1 < Len(wire'[e]) + 1
        BY SentShape
      <4> QED BY <3>2, <4>1 DEF Joins
    <3> QED BY <3>1, <3>2 DEF Extends
  <2> QED BY <2>1, <2>4, <2>5
<1> QED BY <1>1, <1>2, <1>4, PeerFacts DEF Gapless

\* A message that is sent keeps the streams.
LEMMA SentStreams ==
    ASSUME TypeOK, Streams, NEW e \in Endpoint, NEW f \in Frame, Sent(e, f), Extends(e, f),
           link = "up", UNCHANGED <<wsPc, data, out>>,
           \A a \in Endpoint \ {e} : End(a)' = End(a)
    PROVE  Streams'
<1>1. Peer(e) \in Endpoint /\ End(Peer(e))' = End(Peer(e)) BY PeerFacts
<1>2. \A a \in Endpoint : Base(a)' = Base(a) /\ (Alive(a)' <=> Alive(a)) BY DEF Base, Alive
<1>3. \A a \in Endpoint : End(a) <= End(a)' /\ End(a) \in Nat /\ End(a)' \in Nat
  <2>1. IsData(f) => f.lo \in Nat /\ f.n \in Nat BY FrameFacts DEF IsData
  <2> QED BY <2>1, CountFacts DEF Extends
<1>4. Receiving'
  <2>1. ASSUME NEW a \in Endpoint PROVE Base(a)' <= End(Peer(a))'
    <3>1. Base(a) <= End(Peer(a)) /\ Base(a) \in Nat BY CountFacts DEF Streams, Receiving
    <3> QED BY <1>2, <1>3, <3>1, PeerFacts
  <2> QED BY <1>2, <2>1 DEF Streams, Receiving
<1>5. Ordered' BY <1>1, SentOrdered DEF Streams
<1>6. Gapless' BY <1>1, <1>2, SentGapless DEF Streams
<1>7. StreamIntegrity' BY DEF Streams, StreamIntegrity
<1> QED BY <1>4, <1>5, <1>6, <1>7 DEF Streams

-----------------------------------------------------------------------------
(***************************************************************************)
(* runWS.                                                                  *)
(***************************************************************************)

\* A frame that adds nothing to the stream is taken.
LEMMA TakenStreams ==
    ASSUME TypeOK, Streams, NEW e \in Endpoint, wire[Peer(e)] # << >>, Receive(e),
           Receiving', UNCHANGED <<inp, chunk, open, out, link>>,
           \A a \in Endpoint : Alive(a)' => Alive(a) /\ Base(a)' = Base(a),
           Alive(e)' => ~IsData(Incoming(e))
    PROVE  Streams'
<1>1. \A a \in Endpoint : End(a)' = End(a) BY DEF End
<1>2. Ordered' BY <1>1, ReceiveOrdered DEF Streams
<1>3. Gapless' BY <1>1, ReceiveGapless DEF Streams
<1>4. StreamIntegrity' BY DEF Streams, StreamIntegrity
<1> QED BY <1>2, <1>3, <1>4 DEF Streams

\* Text, and an ack with error bits, which ends runWS.
LEMMA IgnoredStreams ==
    ASSUME TypeOK, ForeignIdle, Streams, NEW e \in Endpoint,
           \/ RecvText(e) \/ ForeignRecv(e)
           \/ RecvBinary(e) /\ ~GoodAck(Incoming(e).ack)
    PROVE  Streams'
<1> USE DEF streamVars, countVars, doneVars, WsReady
<1>1. /\ wire[Peer(e)] # << >> /\ Receive(e) /\ UNCHANGED <<inp, chunk, open, data, out, link>>
  BY DEF RecvText, ForeignRecv, RecvBinary
<1>2. \A a \in Endpoint : Alive(a)' => Alive(a) /\ wsPc'[a] = wsPc[a]
  BY DEF RecvText, ForeignRecv, RecvBinary, Alive, TypeOK
<1>3. Alive(e)' => ~IsData(Incoming(e))
  BY DEF RecvText, ForeignRecv, RecvBinary, Alive, TypeOK, ForeignIdle, IsData
<1>4. \A a \in Endpoint : Base(a)' = Base(a) /\ End(a)' = End(a) BY <1>1 DEF Base, End
<1>5. Receiving'
  <2> SUFFICES ASSUME NEW a \in Endpoint
               PROVE  /\ wsPc'[a] = "read" => data'[a].n = 0
                      /\ Alive(a)' /\ data'[a].n > 0 => data'[a].lo = Len(out'[a])
                      /\ Base(a)' <= End(Peer(a))'
    BY DEF Receiving
  <2>1. Base(a)' <= End(Peer(a))' BY <1>4, PeerFacts DEF Streams, Receiving
  <2>2. ASSUME Alive(a)' PROVE /\ wsPc'[a] = "read" => data'[a].n = 0
                               /\ data'[a].n > 0 => data'[a].lo = Len(out'[a])
    BY <1>1, <1>2, <2>2 DEF Streams, Receiving
  <2> QED BY <2>1, <2>2 DEF Alive
<1> QED BY <1>1, <1>2, <1>3, <1>4, <1>5, TakenStreams

\* What a message that runWS accepts does to the payload.
LEMMA RecvShape ==
    ASSUME TypeOK, Streams, NEW e \in Endpoint, RecvBinary(e), GoodAck(Incoming(e).ack)
    PROVE  /\ Incoming(e) \in Frame /\ Incoming(e).lo \in Nat /\ Incoming(e).n \in Nat
           /\ wire[Peer(e)] # << >> /\ Receive(e) /\ wsPc[e] = "read" /\ wsPc'[e] = "count"
           /\ data[e].n = 0 /\ Base(e) = Len(out[e])
           /\ data'[e] = [lo |-> Incoming(e).lo, n |-> Incoming(e).n]
           /\ Base(e)' = Base(e) + Incoming(e).n
           /\ \A a \in Endpoint \ {e} : /\ data'[a] = data[a] /\ wsPc'[a] = wsPc[a]
                                        /\ Base(a)' = Base(a)
           /\ \A a \in Endpoint : End(a)' = End(a) /\ (Alive(a)' <=> Alive(a))
           /\ UNCHANGED <<inp, chunk, open, out, link>>
<1>1. /\ wire[Peer(e)] # << >> /\ Receive(e) /\ wsPc[e] = "read"
      /\ UNCHANGED <<inp, chunk, open, out, link>> /\ Incoming(e).tag = "BINARY"
  BY DEF RecvBinary, WsReady
<1>2. Incoming(e) \in Frame /\ Incoming(e).lo \in Nat /\ Incoming(e).n \in Nat
  BY <1>1, ReceiveType, FrameFacts
<1>3. data[e].n = 0 /\ Base(e) = Len(out[e]) BY <1>1, CountFacts DEF Streams, Receiving, Base
<1>4. /\ data'[e] = [lo |-> Incoming(e).lo, n |-> Incoming(e).n] /\ wsPc'[e] = "count"
      /\ \A a \in Endpoint \ {e} : data'[a] = data[a] /\ wsPc'[a] = wsPc[a]
  BY DEF RecvBinary, TypeOK
<1>5. Base(e)' = Base(e) + Incoming(e).n BY <1>1, <1>2, <1>3, <1>4 DEF Base
<1>6. \A a \in Endpoint \ {e} : Base(a)' = Base(a) BY <1>1, <1>4 DEF Base
<1>7. \A a \in Endpoint : End(a)' = End(a) BY <1>1 DEF End
<1>8. \A a \in Endpoint : Alive(a)' <=> Alive(a) BY <1>1, <1>4 DEF Alive
<1> QED BY <1>1, <1>2, <1>3, <1>4, <1>5, <1>6, <1>7, <1>8

\* The payload that arrives is the next one: it follows on what was written.
LEMMA RecvStreams ==
    ASSUME TypeOK, Streams, NEW e \in Endpoint, RecvBinary(e), GoodAck(Incoming(e).ack)
    PROVE  Streams'
<1> DEFINE p == Peer(e)
           f == wire[Peer(e)][1]
<1>1. p \in Endpoint /\ Peer(p) = e /\ p # e BY PeerFacts
<1>2. wire[p] # << >> /\ Receive(e) BY RecvShape
<1>3. 1 \in DOMAIN wire[p] /\ Incoming(e) = f /\ f.tag = "BINARY" BY <1>2, ReceiveShape DEF RecvBinary
<1>4. f.lo \in Nat /\ f.n \in Nat BY <1>3, RecvShape
<1>5. Alive(e) /\ Alive(e)' BY RecvShape DEF Alive
<1>6. ASSUME f.n > 0 PROVE f.lo = Base(e) /\ f.lo + f.n <= End(p)
  <2>0. IsData(f) BY <1>3, <1>6 DEF IsData
  <2>1. Joins(wire[p], Base(e), f.lo, 1) BY <1>1, <1>3, <1>5, <2>0 DEF Streams, Gapless
  <2>2. \A j \in DOMAIN wire[p] : ~(j < 1) BY <1>2, ReceiveShape
  <2>3. f.lo = Base(e) BY <2>1, <2>2 DEF Joins
  <2> QED BY <1>1, <1>3, <2>0, <2>3 DEF Streams, Ordered
<1>7. Receiving'
  <2>1. Base(e)' <= End(p)'
    <3>1. Base(e) <= End(p) BY DEF Streams, Receiving
    <3>2. CASE f.n > 0 BY <1>1, <1>3, <1>4, <1>6, <3>2, RecvShape
    <3>3. CASE f.n = 0
      <4>1. Base(e) \in Nat /\ Base(e)' = Base(e) + f.n BY <1>3, RecvShape, CountFacts
      <4>2. End(p)' = End(p) BY <1>1, RecvShape
      <4> QED BY <3>1, <3>3, <4>1, <4>2
    <3> QED BY <1>4, <3>2, <3>3
  <2>2. data'[e].n > 0 => data'[e].lo = Len(out'[e])
    <3>1. data'[e] = [lo |-> f.lo, n |-> f.n] /\ Base(e) = Len(out[e]) /\ out' = out
      BY <1>3, RecvShape
    <3> QED BY <1>6, <3>1
  <2>3. ASSUME NEW a \in Endpoint, a # e
        PROVE  /\ wsPc'[a] = "read" => data'[a].n = 0
               /\ Alive(a)' /\ data'[a].n > 0 => data'[a].lo = Len(out'[a])
               /\ Base(a)' <= End(Peer(a))'
    <3>1. /\ data'[a] = data[a] /\ wsPc'[a] = wsPc[a] /\ Base(a)' = Base(a)
          /\ out' = out /\ (Alive(a)' <=> Alive(a))
      BY <2>3, RecvShape
    <3>2. End(Peer(a))' = End(Peer(a)) BY RecvShape, PeerFacts
    <3> QED BY <3>1, <3>2 DEF Streams, Receiving
  <2> QED BY <2>1, <2>2, <2>3, RecvShape DEF Receiving
<1>8. CASE f.n = 0
  <2>1. ~IsData(Incoming(e)) BY <1>3, <1>8 DEF IsData
  <2>2. \A a \in Endpoint : Base(a)' = Base(a)
    <3>1. Base(e) \in Nat /\ Base(e)' = Base(e) + f.n BY <1>3, RecvShape, CountFacts
    <3>2. \A a \in Endpoint \ {e} : Base(a)' = Base(a) BY RecvShape
    <3> QED BY <1>8, <3>1, <3>2
  <2> QED BY <1>2, <1>7, <2>1, <2>2, RecvShape, TakenStreams
<1>9. CASE f.n > 0
  <2>1. Ordered' BY <1>2, RecvShape, ReceiveOrdered DEF Streams
  <2>2. StreamIntegrity' BY RecvShape DEF Streams, StreamIntegrity
  <2>3. ASSUME Alive(p)'
        PROVE  /\ \A i \in DOMAIN wire'[e] : IsData(wire'[e][i])
                    => Joins(wire'[e], Base(p)', wire'[e][i].lo, i)
               /\ link' = "up" => Joins(wire'[e], Base(p)', End(e)', Len(wire'[e]) + 1)
    <3>1. wire'[e] = wire[e] BY <1>2, ReceiveShape
    <3> QED BY <1>1, <2>3, <3>1, RecvShape DEF Streams, Gapless
  <2>4. ASSUME NEW b, NEW k \in Int, Joins(wire[p], Base(e), b, k + 1), b # Base(e)
        PROVE  Joins(wire'[p], f.lo + f.n, b, k)
    <3>1. PICK j \in DOMAIN wire[p] :
                j < k + 1 /\ IsData(wire[p][j]) /\ b = wire[p][j].lo + wire[p][j].n
      BY <2>4 DEF Joins
    <3>2. CASE j = 1 BY <3>1, <3>2 DEF Joins
    <3>3. CASE j # 1
      <4>1. j - 1 \in DOMAIN wire'[p] /\ j - 1 < k /\ wire'[p][j - 1] = wire[p][j]
        BY <1>2, <3>1, <3>3, ReceiveShape
      <4> QED BY <3>1, <4>1 DEF Joins
    <3> QED BY <3>2, <3>3
  <2>5. ASSUME NEW i \in DOMAIN wire'[p], IsData(wire'[p][i])
        PROVE  Joins(wire'[p], f.lo + f.n, wire'[p][i].lo, i)
    <3>1. /\ i \in Int /\ i + 1 \in DOMAIN wire[p] /\ wire'[p][i] = wire[p][i + 1] /\ 1 < i + 1
      BY <1>2, ReceiveShape
    <3>2. Joins(wire[p], Base(e), wire[p][i + 1].lo, i + 1)
      BY <1>1, <1>5, <2>5, <3>1 DEF Streams, Gapless
    <3>3. f.lo + f.n <= wire[p][i + 1].lo
      BY <1>1, <1>3, <1>9, <2>5, <3>1 DEF Streams, Ordered, IsData
    <3>4. wire[p][i + 1].lo # Base(e) BY <1>4, <1>6, <1>9, <3>3
    <3> QED BY <2>4, <3>1, <3>2, <3>4
  <2>6. ASSUME link' = "up" PROVE Joins(wire'[p], f.lo + f.n, End(p), Len(wire'[p]) + 1)
    <3>1. Joins(wire[p], Base(e), End(p), Len(wire[p]) + 1)
      BY <1>1, <1>5, <2>6, RecvShape DEF Streams, Gapless
    <3>2. Len(wire[p]) \in Int /\ Len(wire'[p]) + 1 = Len(wire[p]) BY <1>2, ReceiveShape
    <3>3. End(p) # Base(e) BY <1>1, <1>4, <1>6, <1>9, CountFacts
    <3> QED BY <2>4, <3>1, <3>2, <3>3
  <2>7. Base(e)' = f.lo + f.n /\ End(p)' = End(p) BY <1>1, <1>3, <1>6, <1>9, RecvShape
  <2>8. Gapless' BY <1>1, <2>3, <2>5, <2>6, <2>7, PeerFacts DEF Gapless
  <2> QED BY <1>7, <2>1, <2>2, <2>8 DEF Streams
<1> QED BY <1>4, <1>8, <1>9

\* runWS has written the payload, or k bytes of it before the write failed.
LEMMA WriteStreams ==
    ASSUME TypeOK, Sending, Streams, NEW e \in Endpoint, NEW k \in Nat, NEW l \in {"read", "io"},
           wsPc[e] = "write", k <= data[e].n, l = "read" => k = data[e].n,
           out' = [out EXCEPT ![e] = @ \o Bytes(data[e], k)],
           data' = [data EXCEPT ![e] = Nothing], wsPc' = [wsPc EXCEPT ![e] = l],
           UNCHANGED <<inp, chunk, open, wire, link>>
    PROVE  Streams'
<1>1. /\ wsPc'[e] = l /\ data'[e].n = 0 /\ out'[e] = out[e] \o Bytes(data[e], k)
      /\ \A a \in Endpoint \ {e} : wsPc'[a] = wsPc[a] /\ out'[a] = out[a] /\ data'[a] = data[a]
  BY DEF TypeOK, Nothing
<1>2. data[e].n > 0 => data[e].lo = Len(out[e]) BY DEF Streams, Receiving, Alive
<1>3. data[e].n > 0 => data[e].lo + data[e].n <= Longest
  <2>1. Peer(e) \in Endpoint BY PeerFacts
  <2>2. End(Peer(e)) <= Longest /\ Base(e) <= End(Peer(e)) BY <2>1, EndFacts DEF Streams, Receiving
  <2>3. Base(e) \in Nat /\ End(Peer(e)) \in Nat /\ Longest \in Nat /\ Len(out[e]) \in Nat
        /\ data[e].n \in Nat /\ data[e].lo \in Nat
    BY <2>1, CountFacts
  <2>4. data[e].n > 0 => data[e].lo + data[e].n = Base(e) BY <1>2 DEF Base
  <2> QED BY <2>2, <2>3, <2>4
<1>4. /\ Len(out'[e]) = Len(out[e]) + k
      /\ \A i \in 1..Len(out[e]) : out'[e][i] = out[e][i]
      /\ \A i \in (Len(out[e]) + 1)..(Len(out[e]) + k) : out'[e][i] = i
      /\ DOMAIN out'[e] = 1..(Len(out[e]) + k)
  <2>1. out[e] \in Seq(1..Longest) /\ data[e] \in Payload BY DEF TypeOK
  <2>2. k \in 0..data[e].n /\ (k > 0 => data[e].n > 0) BY CountFacts
  <2> DEFINE s == out[e] \o Bytes(data[e], k)
  <2>3. /\ s \in Seq(1..Longest) /\ Len(s) = Len(out[e]) + k
        /\ \A i \in 1..Len(out[e]) : s[i] = out[e][i]
        /\ \A i \in (Len(out[e]) + 1)..(Len(out[e]) + k) : s[i] = i
    BY <1>2, <1>3, <2>1, <2>2, WriteFacts
  <2>4. DOMAIN s = 1..Len(s) BY <2>3, LenProperties
  <2> QED BY <1>1, <2>3, <2>4
<1>5. /\ Base(e)' <= Base(e) /\ Base(e)' \in Nat /\ (l = "read" => Base(e)' = Base(e))
      /\ \A a \in Endpoint \ {e} : Base(a)' = Base(a)
  <2>1. Base(e)' = Len(out[e]) + k + 0 /\ Base(e) = Len(out[e]) + data[e].n BY <1>1, <1>4 DEF Base
  <2>2. Len(out[e]) \in Nat /\ data[e].n \in Nat BY CountFacts
  <2>3. \A a \in Endpoint \ {e} : Base(a)' = Base(a) BY <1>1 DEF Base
  <2> QED BY <2>1, <2>2, <2>3
<1>6. \A a \in Endpoint : End(a)' = End(a) /\ (Alive(a)' => Alive(a)) BY <1>1 DEF End, Alive
<1>7. Alive(e)' => l = "read" BY <1>1 DEF Alive
<1>8. Receiving'
  <2>1. \A a \in Endpoint : Base(a)' <= End(Peer(a))'
    <3> SUFFICES ASSUME NEW a \in Endpoint PROVE Base(a)' <= End(Peer(a))'
      OBVIOUS
    <3>1. Base(a)' <= Base(a) /\ Base(a)' \in Nat /\ Base(a) \in Nat BY <1>5, CountFacts
    <3>2. Base(a) <= End(Peer(a)) BY DEF Streams, Receiving
    <3>3. End(Peer(a))' = End(Peer(a)) /\ End(Peer(a)) \in Nat BY <1>6, CountFacts, PeerFacts
    <3> QED BY <3>1, <3>2, <3>3
  <2>2. ASSUME NEW a \in Endpoint
        PROVE  /\ wsPc'[a] = "read" => data'[a].n = 0
               /\ Alive(a)' /\ data'[a].n > 0 => data'[a].lo = Len(out'[a])
    <3>1. CASE a = e BY <1>1, <3>1
    <3>2. CASE a # e
      <4>1. wsPc'[a] = wsPc[a] /\ out'[a] = out[a] /\ data'[a] = data[a] BY <1>1, <3>2
      <4> QED BY <1>6, <4>1 DEF Streams, Receiving
    <3> QED BY <3>1, <3>2
  <2> QED BY <2>1, <2>2 DEF Receiving
<1>9. Ordered' BY <1>6 DEF Streams, Ordered
<1>10. Gapless'
  <2>1. \A a \in Endpoint : Alive(a)' => Base(a)' = Base(a) BY <1>5, <1>7
  <2> QED BY <1>6, <2>1, PeerFacts DEF Streams, Gapless
<1>11. StreamIntegrity'
  <2>1. \A i \in DOMAIN out'[e] : out'[e][i] = i
    <3> SUFFICES ASSUME NEW i \in DOMAIN out'[e] PROVE out'[e][i] = i
      OBVIOUS
    <3>1. CASE i \in 1..Len(out[e]) BY <1>4, <3>1, CountFacts DEF Streams, StreamIntegrity
    <3>2. CASE i \notin 1..Len(out[e]) BY <1>4, <3>2, CountFacts
    <3> QED BY <3>1, <3>2
  <2> QED BY <1>1, <2>1 DEF Streams, StreamIntegrity
<1> QED BY <1>8, <1>9, <1>10, <1>11 DEF Streams

\* The two ways a write to the SSH connection ends.
LEMMA SshWriteStreams ==
    ASSUME TypeOK, Sending, Streams, NEW e \in Endpoint, SshWrite(e) \/ SshWriteFails(e)
    PROVE  Streams'
<1>1. data[e].n \in Nat /\ out[e] \in Seq(1..Longest) /\ data[e] \in Payload
  BY CountFacts DEF TypeOK
<1>2. /\ wsPc[e] = "write" /\ data' = [data EXCEPT ![e] = Nothing]
      /\ UNCHANGED <<inp, chunk, open, wire, link>>
  BY DEF SshWrite, SshWriteFails
<1>3. CASE SshWrite(e)
  <2>1. data[e].n <= data[e].n BY <1>1
  <2>2. /\ out' = [out EXCEPT ![e] = @ \o Bytes(data[e], data[e].n)]
        /\ wsPc' = [wsPc EXCEPT ![e] = "read"]
    BY <1>3 DEF SshWrite
  <2> QED BY <1>1, <1>2, <2>1, <2>2, WriteStreams
<1>4. CASE SshWriteFails(e)
  <2>1. ASSUME NEW k \in Nat, k <= data[e].n, out' = [out EXCEPT ![e] = @ \o Bytes(data[e], k)]
        PROVE  Streams'
    BY <1>2, <1>4, <2>1, WriteStreams DEF SshWriteFails
  <2>2. ASSUME NEW k \in 0..(data[e].n - 1), out' = [out EXCEPT ![e] = @ \o Bytes(data[e], k)]
        PROVE  Streams'
    <3>1. k \in Nat /\ k <= data[e].n BY <1>1
    <3> QED BY <2>1, <2>2, <3>1
  <2>3. ASSUME UNCHANGED out PROVE Streams'
    <3>1. Bytes(data[e], 0) = << >> BY <1>1 DEF Bytes, Payload
    <3>2. out[e] \o << >> = out[e] BY <1>1, ConcatEmptySeq
    <3>3. out' = [out EXCEPT ![e] = @ \o Bytes(data[e], 0)] BY <2>3, <3>1, <3>2 DEF TypeOK
    <3>4. 0 \in Nat /\ 0 <= data[e].n BY <1>1
    <3> QED BY <2>1, <3>3, <3>4
  <2> QED BY <1>4, <2>2, <2>3 DEF SshWriteFails
<1> QED BY <1>3, <1>4

-----------------------------------------------------------------------------
(***************************************************************************)
(* runSSH, Run and the environment.                                        *)
(***************************************************************************)

\* An open message that is closed, by its owner or by NextWriter, holds the
\* bytes at which the stream stands, or none.
LEMMA Closed ==
    ASSUME TypeOK, Sending, NEW e \in Endpoint, open'[e].data.n = 0, UNCHANGED <<chunk, inp>>,
           \A a \in Endpoint \ {e} : open'[a] = open[a]
    PROVE  /\ Extends(e, FrameOf(e))
           /\ open[e].data.n = 0 => End(e)' = End(e)
           /\ \A a \in Endpoint \ {e} : End(a)' = End(a)
           /\ \A a \in Endpoint : End(a) <= End(a)' /\ End(a)' \in Nat
<1>1. SendingAt(e) BY DEF Sending
<1>2. FrameOf(e).tag = "BINARY" /\ FrameOf(e).n = open[e].data.n /\ FrameOf(e).lo = open[e].data.lo
  BY DEF FrameOf
<1>3. /\ open[e].data.n \in Nat /\ open[e].data.lo \in Nat /\ chunk[e].n \in Nat /\ inp[e] \in Nat
      /\ chunk[e].lo \in Nat
  BY CountFacts
<1>4. \A a \in Endpoint \ {e} : End(a)' = End(a) BY DEF End
<1>5. CASE open[e].data.n = 0
  <2>1. End(e)' = End(e) BY <1>5 DEF End
  <2>2. ~IsData(FrameOf(e)) BY <1>2, <1>5 DEF IsData
  <2> QED BY <1>4, <1>5, <2>1, <2>2, CountFacts DEF Extends
<1>6. CASE open[e].data.n > 0
  <2>1. chunk[e].n = 0 /\ open[e].data.lo + open[e].data.n = inp[e]
    BY <1>1, <1>3, <1>6 DEF SendingAt
  <2>2. End(e) = open[e].data.lo /\ End(e)' = inp[e] BY <1>6, <2>1 DEF End
  <2>3. IsData(FrameOf(e)) BY <1>2, <1>6 DEF IsData
  <2>4. Extends(e, FrameOf(e)) BY <1>2, <2>1, <2>2, <2>3 DEF Extends
  <2>5. End(e) <= End(e)' /\ End(e)' \in Nat BY <1>3, <2>1, <2>2
  <2> QED BY <1>4, <1>6, <2>4, <2>5, CountFacts
<1> QED BY <1>3, <1>5, <1>6

\* A step that touches nothing of the streams but ends goroutines or the
\* connection.
LEMMA IdleStreams ==
    ASSUME TypeOK, Streams, UNCHANGED <<open, inp, chunk, data, out, wire>>,
           \A a \in Endpoint : Alive(a)' => StaysAt(a),
           link' = "up" => link = "up"
    PROVE  Streams'
<1>1. \A a \in Endpoint : End(a)' = End(a) BY DEF End
<1>2. \A a \in Endpoint : End(a) <= End(a)' /\ End(a)' \in Nat BY <1>1, CountFacts
<1> QED BY <1>1, <1>2, QuietStreams

\* NextWriter and Close keep the streams.
LEMMA WriterStreams ==
    ASSUME TypeOK, Sending, Streams, NEW e \in Endpoint, NEW w \in {"ssh", "run"},
           NextWriter(e, w) \/ CloseMessage(e, w),
           UNCHANGED <<wsPc, inp, chunk, data, out, link>>
    PROVE  Streams'
<1>1. SendingAt(e) BY DEF Sending
<1>2. ASSUME open'[e].data.n = 0, \A x \in Endpoint \ {e} : open'[x] = open[x], link = "up",
             open[e].by # "none", Sent(e, FrameOf(e))
      PROVE  Streams'
  <2>1. FrameOf(e) \in Frame BY <1>2, FrameOfType
  <2> QED BY <1>2, <2>1, Closed, SentStreams
<1>3. ASSUME open'[e].data.n = 0, \A x \in Endpoint \ {e} : open'[x] = open[x], UNCHANGED wire,
             link = "down" \/ open[e].data.n = 0
      PROVE  Streams'
  <2>1. \A x \in Endpoint : End(x) <= End(x)' /\ End(x)' \in Nat BY <1>3, Closed
  <2>2. link' = "up" => \A x \in Endpoint : End(x)' = End(x) BY <1>3, Closed
  <2> QED BY <1>3, <2>1, <2>2, QuietStreams DEF StaysAt
<1>4. CASE NextWriter(e, w)
  <2>1. open[e].by = "none" => open[e].data.n = 0 BY <1>1 DEF SendingAt
  <2> QED BY <1>2, <1>3, <1>4, <2>1, OpenNext
<1>5. CASE CloseMessage(e, w)
  <2>1. CASE open[e].by = w BY <1>2, <1>3, <1>5, <2>1, OpenNext
  <2>2. CASE open[e].by # w
    <3>1. UNCHANGED <<open, wire>> BY <1>5, <2>2, OpenNext
    <3> QED BY <3>1, IdleStreams DEF StaysAt
  <2> QED BY <2>1, <2>2
<1> QED BY <1>4, <1>5

\* runSSH.
LEMMA SshStreams ==
    ASSUME TypeOK, Sending, Streams, NEW e \in Endpoint, RunSSH(e) \/ SshReadEOF(e)
    PROVE  Streams'
<1> USE DEF streamVars, countVars, doneVars
<1>0. SendingAt(e) BY DEF Sending
<1>1. ASSUME UNCHANGED <<wsPc, data, out, wire, link>>, \A a \in Endpoint : End(a)' = End(a)
      PROVE  Streams'
  <2>1. \A a \in Endpoint : End(a) <= End(a)' /\ End(a)' \in Nat BY <1>1, CountFacts
  <2> QED BY <1>1, <2>1, QuietStreams DEF StaysAt
<1>2. CASE SshRead(e)
  <2>1. PICK k \in 1..BufLen : chunk' = [chunk EXCEPT ![e] = [lo |-> inp[e], n |-> k]]
    BY <1>2 DEF SshRead
  <2>2. /\ chunk'[e].n > 0 /\ chunk'[e].lo = inp[e] /\ open' = open
        /\ \A a \in Endpoint \ {e} : chunk'[a] = chunk[a] /\ inp'[a] = inp[a]
    BY <1>2, <2>1 DEF SshRead, TypeOK
  <2>3. chunk[e].n = 0 /\ open[e].data.n = 0 BY <1>0, <1>2 DEF SshRead, SendingAt
  <2>4. \A a \in Endpoint : End(a)' = End(a) BY <2>2, <2>3 DEF End
  <2> QED BY <1>1, <1>2, <2>4 DEF SshRead
<1>3. CASE SshReadEOF(e) \/ SshReadFails(e) \/ SshOpenFails(e)
  BY <1>3, IdleStreams DEF StaysAt, SshReadEOF, SshReadFails, SshOpenFails
<1>4. CASE SshOpen(e) BY <1>4, WriterStreams DEF SshOpen
<1>5. CASE copySSH(e)
  <2>1. /\ open'[e].data = chunk[e] /\ chunk'[e].n = 0 /\ inp' = inp
        /\ \A a \in Endpoint \ {e} : open'[a] = open[a] /\ chunk'[a] = chunk[a]
    BY <1>5 DEF copySSH, TypeOK, Nothing
  <2>2. open[e].data.n = 0 BY <1>0, <1>5 DEF copySSH, SendingAt
  <2>3. \A a \in Endpoint : End(a)' = End(a) BY <2>1, <2>2 DEF End
  <2> QED BY <1>1, <1>5, <2>3 DEF copySSH
<1>6. CASE copySSHFails(e)
  <2>1. /\ open'[e] = open[e] \/ open'[e].data.n = 0
        /\ \A a \in Endpoint \ {e} : open'[a] = open[a]
    BY <1>6 DEF copySSHFails, TypeOK, NoMessage, Message, Nothing
  <2>2. open[e].data.n = 0 BY <1>0, <1>6 DEF copySSHFails, SendingAt
  <2>3. \A a \in Endpoint : End(a)' = End(a) BY <1>6, <2>1, <2>2 DEF End, copySSHFails
  <2> QED BY <1>1, <1>6, <2>3 DEF copySSHFails
<1>7. CASE SshFlush(e)
  <2>1. CloseMessage(e, "ssh") /\ UNCHANGED <<wsPc, inp, chunk, data, out, link>>
    BY <1>7 DEF SshFlush
  <2> QED BY <2>1, WriterStreams
<1>8. CASE SshPanics(e)
  <2>1. \A a \in Endpoint : Alive(a)' => StaysAt(a) BY <1>8 DEF SshPanics, Alive, StaysAt, TypeOK
  <2> QED BY <1>8, <2>1, IdleStreams DEF StaysAt, SshPanics
<1>9. CASE SshWriteAck(e)
  <2>1. \A a \in Endpoint : open'[a].data = open[a].data BY <1>9 DEF SshWriteAck, TypeOK
  <2>2. \A a \in Endpoint : End(a)' = End(a) BY <1>9, <2>1 DEF SshWriteAck, End
  <2> QED BY <1>1, <1>9, <2>2 DEF SshWriteAck
<1> QED BY <1>2, <1>3, <1>4, <1>5, <1>6, <1>7, <1>8, <1>9 DEF RunSSH

\* Run: its error ack carries no data.
LEMMA RunStreams ==
    ASSUME TypeOK, Sending, Streams, NEW e \in Endpoint, Run(e)
    PROVE  Streams'
<1> USE DEF streamVars, countVars, doneVars
<1>1. CASE RunRecvErr(e)
  <2>1. \A a \in Endpoint : Alive(a)' => StaysAt(a) BY <1>1 DEF RunRecvErr, Alive, StaysAt, TypeOK
  <2> QED BY <1>1, <2>1, IdleStreams DEF StaysAt, RunRecvErr
<1>2. CASE RunNextWriter(e)
  <2>1. UNCHANGED <<wsPc, inp, chunk, data, out, link>> BY <1>2 DEF RunNextWriter
  <2>2. CASE NextWriter(e, "run") BY <2>1, <2>2, WriterStreams
  <2>3. CASE UNCHANGED <<open, wire>> BY <2>1, <2>3, IdleStreams DEF StaysAt
  <2> QED BY <1>2, <2>2, <2>3 DEF RunNextWriter
<1>3. CASE RunPanics(e) \/ RunLoad(e) \/ RunMask(e) \/ RunClose(e) \/ RunSend(e) \/ CallerReturns(e)
  BY <1>3, IdleStreams DEF StaysAt, RunPanics, RunLoad, RunMask, RunClose, RunSend, CallerReturns
<1>4. CASE RunWriteAck(e)
  <2>1. \A a \in Endpoint : open'[a].data = open[a].data BY <1>4 DEF RunWriteAck, TypeOK
  <2>2. \A a \in Endpoint : End(a)' = End(a) BY <1>4, <2>1 DEF RunWriteAck, End
  <2>3. \A a \in Endpoint : End(a) <= End(a)' /\ End(a)' \in Nat BY <2>2, CountFacts
  <2> QED BY <1>4, <2>2, <2>3, QuietStreams DEF StaysAt, RunWriteAck
<1>5. CASE RunFlush(e)
  <2>1. CloseMessage(e, "run") /\ UNCHANGED <<wsPc, inp, chunk, data, out, link>>
    BY <1>5 DEF RunFlush
  <2> QED BY <2>1, WriterStreams
<1> QED BY <1>1, <1>2, <1>3, <1>4, <1>5 DEF Run

\* A foreign endpoint sends its data in the order of its stream.
LEMMA ForeignStreams ==
    ASSUME TypeOK, ForeignIdle, Streams, NEW e \in Endpoint, ForeignSend(e)
    PROVE  Streams'
<1>1. /\ link = "up" /\ chunk[e].n = 0 /\ open[e].data.n = 0
      /\ UNCHANGED <<wsPc, open, chunk, data, out, link>>
  BY DEF ForeignSend, ForeignIdle
<1>2. End(e) = inp[e] /\ End(e)' = inp'[e] /\ inp[e] \in Nat BY <1>1, CountFacts DEF End
<1>3. CASE \E k \in 0..BufLen, a \in Ack \cup {NoAck} :
                /\ inp[e] + k <= StreamLen[e]
                /\ inp' = [inp EXCEPT ![e] = inp[e] + k]
                /\ wire' = [wire EXCEPT ![e] = Append(@,
                        [tag |-> "BINARY", by |-> "ssh", ack |-> a, lo |-> inp[e], n |-> k])]
  <2>1. PICK k \in 0..BufLen, a \in Ack \cup {NoAck} :
                /\ inp' = [inp EXCEPT ![e] = inp[e] + k]
                /\ wire' = [wire EXCEPT ![e] = Append(@,
                        [tag |-> "BINARY", by |-> "ssh", ack |-> a, lo |-> inp[e], n |-> k])]
    BY <1>3
  <2> DEFINE f == [tag |-> "BINARY", by |-> "ssh", ack |-> a, lo |-> inp[e], n |-> k]
  <2>2. f \in Frame
    <3>1. inp[e] \in 0..Longest BY DEF TypeOK
    <3> QED BY <3>1 DEF Frame
  <2>3. k \in Nat /\ inp'[e] = inp[e] + k /\ \A x \in Endpoint \ {e} : inp'[x] = inp[x]
    BY <2>1, SizeAssumption DEF TypeOK
  <2>4. Extends(e, f)
    <3>1. CASE k = 0 BY <1>2, <2>3, <3>1 DEF Extends, IsData
    <3>2. CASE k > 0 BY <1>2, <2>3, <3>2 DEF Extends, IsData
    <3> QED BY <2>3, <3>1, <3>2
  <2>5. \A x \in Endpoint \ {e} : End(x)' = End(x) BY <1>1, <2>3 DEF End
  <2>6. Sent(e, f) BY <2>1 DEF Sent
  <2> QED BY <1>1, <2>2, <2>4, <2>5, <2>6, SentStreams
<1>4. CASE wire' = [wire EXCEPT ![e] = Append(@, [tag |-> "TEXT"])] /\ UNCHANGED inp
  <2> DEFINE f == [tag |-> "TEXT"]
  <2>1. f \in Frame /\ ~IsData(f) BY DEF Frame, IsData
  <2>2. \A x \in Endpoint : End(x)' = End(x) BY <1>1, <1>4 DEF End
  <2>3. Extends(e, f) BY <2>1, <2>2 DEF Extends
  <2>4. Sent(e, f) BY <1>4 DEF Sent
  <2> QED BY <1>1, <2>1, <2>2, <2>3, <2>4, SentStreams
<1> QED BY <1>3, <1>4 DEF ForeignSend

\* Every step keeps the streams.
LEMMA StreamsNext == TypeOK /\ ForeignIdle /\ Sending /\ Streams /\ [Next]_vars => Streams'
<1> SUFFICES ASSUME TypeOK, ForeignIdle, Sending, Streams, [Next]_vars PROVE Streams'
  OBVIOUS
<1>1. ASSUME NEW e \in Endpoint, RunWS(e) PROVE Streams'
  <2>1. CASE WsReadFails(e)
    <3>1. \A a \in Endpoint : Alive(a)' => StaysAt(a)
      BY <2>1 DEF WsReadFails, Alive, StaysAt, TypeOK
    <3> QED BY <2>1, <3>1, IdleStreams DEF StaysAt, WsReadFails, streamVars, countVars, doneVars
  <2>2. CASE CountLoad(e) \/ CountStore(e)
    <3>1. \A a \in Endpoint : Alive(a)' => StaysAt(a)
      BY <2>2 DEF CountLoad, CountStore, StaysAt, TypeOK
    <3> QED BY <2>2, <3>1, IdleStreams DEF CountLoad, CountStore, streamVars
  <2> QED BY <1>1, <2>1, <2>2, IgnoredStreams, RecvStreams, SshWriteStreams DEF RunWS
<1>2. CASE UNCHANGED vars \/ LinkBreaks \/ DeadlineClose \/ DeadlineSend
  BY <1>2, IdleStreams DEF StaysAt, vars, LinkBreaks, DeadlineClose, DeadlineSend, streamVars,
                           countVars, doneVars
<1> QED BY <1>1, <1>2, SshStreams, RunStreams, ForeignStreams, IgnoredStreams DEF Next

-----------------------------------------------------------------------------
(***************************************************************************)
(* The counter, as long as runWS alone stores it.                          *)
(***************************************************************************)

\* Run stores its error bits once and for all.
LEMMA UnmarkedOnce ==
    TypeOK /\ [Next]_vars => \A a \in Endpoint : Unmarked(a)' => Unmarked(a)
<1> SUFFICES ASSUME TypeOK, [Next]_vars, NEW a \in Endpoint, Unmarked(a)' PROVE Unmarked(a)
  OBVIOUS
<1>1. ASSUME UNCHANGED run PROVE Unmarked(a) BY <1>1 DEF Unmarked
<1>2. ASSUME NEW e \in Endpoint, RunSSH(e) \/ SshReadEOF(e) PROVE Unmarked(a)
  <2>1. CASE SshPanics(e) BY <2>1 DEF SshPanics, TypeOK, Unmarked
  <2> QED
    BY <1>1, <1>2, <2>1 DEF RunSSH, SshRead, SshReadEOF, SshReadFails, SshOpen, SshOpenFails,
                            SshWriteAck, copySSH, copySSHFails, SshFlush
<1>3. ASSUME NEW e \in Endpoint, RunWS(e) \/ ForeignSend(e) \/ ForeignRecv(e) PROVE Unmarked(a)
  BY <1>1, <1>3 DEF RunWS, RecvBinary, RecvText, WsReadFails, CountLoad, CountStore, SshWrite,
                    SshWriteFails, ForeignSend, ForeignRecv
<1>4. ASSUME NEW e \in Endpoint, Run(e) PROVE Unmarked(a)
  BY <1>4 DEF Run, RunRecvErr, RunNextWriter, RunPanics, RunLoad, RunMask, RunWriteAck, RunFlush,
              RunClose, RunSend, CallerReturns, TypeOK, Unmarked
<1>5. CASE UNCHANGED vars \/ LinkBreaks \/ DeadlineClose \/ DeadlineSend
  BY <1>1, <1>5 DEF vars, LinkBreaks, DeadlineClose, DeadlineSend
<1> QED BY <1>2, <1>3, <1>4, <1>5 DEF Next

\* What Counting says of one endpoint.
CountingAt(e) ==
    Alive(e) /\ Unmarked(e) => c[e] = Counted(e) % CountMod /\ (wsPc[e] = "add" => wsC[e] = c[e])

\* runWS counts the bytes it has taken in, one message after the other.
LEMMA CountingWS ==
    ASSUME TypeOK, Sending, Streams, Counting, NEW e \in Endpoint, RunWS(e),
           Unmarked(e)' => Unmarked(e)
    PROVE  CountingAt(e)'
<1> USE DEF streamVars, countVars, doneVars, TypeOK
<1>0. CountingAt(e) /\ (Unmarked(e)' => Unmarked(e)) BY DEF Counting, CountingAt
<1>1. CASE RecvBinary(e)
  <2>1. /\ wsPc[e] = "read" /\ wsPc'[e] \in {"count", "proto"} /\ UNCHANGED <<c, out>>
    BY <1>1 DEF RecvBinary, WsReady
  <2> QED BY <1>0, <2>1 DEF CountingAt, Alive, Counted
<1>2. CASE RecvText(e) \/ WsReadFails(e)
  <2>1. /\ wsPc[e] = "read" /\ wsPc'[e] \in {"read", "io"} /\ UNCHANGED <<c, out>>
    BY <1>2 DEF RecvText, WsReadFails, WsReady
  <2> QED BY <1>0, <2>1 DEF CountingAt, Alive, Counted
<1>3. CASE CountLoad(e)
  <2>1. wsPc[e] = "count" /\ wsPc'[e] = "add" /\ UNCHANGED <<c, out>> /\ wsC'[e] = c[e]
    BY <1>3 DEF CountLoad
  <2> QED BY <1>0, <2>1 DEF CountingAt, Alive, Counted
<1>4. CASE CountStore(e)
  <2>1. /\ wsPc[e] = "add" /\ wsPc'[e] = "write" /\ UNCHANGED <<data, out>>
        /\ c'[e] = (wsC[e] + data[e].n) % CountMod
    BY <1>4 DEF CountStore, incCounter
  <2>2. ASSUME Unmarked(e) PROVE c'[e] = (Len(out[e]) + data[e].n) % CountMod
    <3>1. wsC[e] = Len(out[e]) % CountMod BY <1>0, <2>1, <2>2 DEF CountingAt, Alive, Counted
    <3>2. Len(out[e]) \in Nat /\ data[e].n \in Nat BY CountFacts
    <3>3. wsC[e] \in Nat /\ wsC[e] % CountMod = Len(out[e]) % CountMod
      BY <3>1, <3>2, Wrapped
    <3> QED BY <2>1, <3>2, <3>3, AddCongruent
  <2> QED BY <1>0, <2>1, <2>2 DEF CountingAt, Counted, Base
<1>5. CASE SshWrite(e)
  <2>1. /\ wsPc[e] = "write" /\ wsPc'[e] = "read" /\ UNCHANGED c
        /\ out'[e] = out[e] \o Bytes(data[e], data[e].n)
    BY <1>5 DEF SshWrite
  <2>2. Len(out'[e]) = Len(out[e]) + data[e].n BY <2>1, CountFacts, WrittenLen
  <2> QED BY <1>0, <2>1, <2>2 DEF CountingAt, Alive, Counted, Base
<1>6. CASE SshWriteFails(e)
  <2>1. wsPc'[e] = "io" BY <1>6 DEF SshWriteFails
  <2> QED BY <2>1 DEF CountingAt, Alive
<1> QED BY <1>1, <1>2, <1>3, <1>4, <1>5, <1>6 DEF RunWS

\* Nobody else stores to an endpoint's counter before Run does.
LEMMA CountingNext == TypeOK /\ Sending /\ Streams /\ Counting /\ [Next]_vars => Counting'
<1> SUFFICES ASSUME TypeOK, Sending, Streams, Counting, [Next]_vars, NEW a \in Endpoint
             PROVE  CountingAt(a)'
  BY DEF Counting, CountingAt
<1> USE DEF streamVars, countVars, doneVars
<1>0. CountingAt(a) /\ (Unmarked(a)' => Unmarked(a)) BY UnmarkedOnce DEF Counting, CountingAt
<1>1. ASSUME Unmarked(a)' => c'[a] = c[a] /\ wsC'[a] = wsC[a],
             data'[a] = data[a], out'[a] = out[a], Alive(a)' => wsPc'[a] = wsPc[a]
      PROVE  CountingAt(a)'
  BY <1>0, <1>1 DEF CountingAt, Alive, Counted, Base
<1>2. ASSUME NEW e \in Endpoint, RunSSH(e) \/ SshReadEOF(e) PROVE CountingAt(a)'
  <2>1. UNCHANGED <<c, wsC, data, out>>
    BY <1>2 DEF RunSSH, SshRead, SshReadEOF, SshReadFails, SshOpen, SshOpenFails, SshWriteAck,
                copySSH, copySSHFails, SshFlush, SshPanics
  <2>2. Alive(a)' => wsPc'[a] = wsPc[a]
    <3>1. CASE SshPanics(e) BY <3>1 DEF SshPanics, TypeOK, Alive
    <3> QED
      BY <1>2, <3>1 DEF RunSSH, SshRead, SshReadEOF, SshReadFails, SshOpen, SshOpenFails,
                        SshWriteAck, copySSH, copySSHFails, SshFlush
  <2> QED BY <1>1, <2>1, <2>2
<1>3. ASSUME NEW e \in Endpoint, RunWS(e) PROVE CountingAt(a)'
  <2>1. CASE a = e BY <1>0, <1>3, <2>1, CountingWS
  <2>2. CASE a # e
    <3>1. /\ c'[a] = c[a] /\ wsC'[a] = wsC[a] /\ data'[a] = data[a] /\ out'[a] = out[a]
          /\ wsPc'[a] = wsPc[a]
      BY <1>3, <2>2 DEF RunWS, RecvBinary, RecvText, WsReadFails, CountLoad, CountStore, SshWrite,
                        SshWriteFails, incCounter, TypeOK
    <3> QED BY <1>1, <3>1
  <2> QED BY <2>1, <2>2
<1>4. ASSUME NEW e \in Endpoint, Run(e) PROVE CountingAt(a)'
  <2>1. UNCHANGED <<wsC, data, out>>
    BY <1>4 DEF Run, RunRecvErr, RunNextWriter, RunPanics, RunLoad, RunMask, RunWriteAck,
                RunFlush, RunClose, RunSend, CallerReturns
  <2>2. Alive(a)' => wsPc'[a] = wsPc[a]
    <3>1. CASE RunRecvErr(e) BY <3>1 DEF RunRecvErr, TypeOK, Alive
    <3> QED
      BY <1>4, <3>1 DEF Run, RunNextWriter, RunPanics, RunLoad, RunMask, RunWriteAck, RunFlush,
                        RunClose, RunSend, CallerReturns
  <2>3. Unmarked(a)' => c'[a] = c[a]
    <3>1. CASE RunMask(e) BY <3>1 DEF RunMask, TypeOK, Unmarked
    <3> QED
      BY <1>4, <3>1 DEF Run, RunRecvErr, RunNextWriter, RunPanics, RunLoad, RunWriteAck, RunFlush,
                        RunClose, RunSend, CallerReturns
  <2> QED BY <1>1, <2>1, <2>2, <2>3
<1>5. ASSUME NEW e \in Endpoint, ForeignSend(e) \/ ForeignRecv(e) PROVE CountingAt(a)'
  BY <1>1, <1>5 DEF ForeignSend, ForeignRecv
<1>6. CASE UNCHANGED vars \/ LinkBreaks \/ DeadlineClose \/ DeadlineSend
  BY <1>1, <1>6 DEF vars, LinkBreaks, DeadlineClose, DeadlineSend
<1> QED BY <1>2, <1>3, <1>4, <1>5, <1>6 DEF Next

-----------------------------------------------------------------------------
(***************************************************************************)
(* Error bits.                                                             *)
(***************************************************************************)

\* Run does not go back to waiting for an error.
LEMMA RunningOnce ==
    TypeOK /\ [Next]_vars => \A a \in Endpoint : run'[a] = "running" => run[a] = "running"
<1> SUFFICES ASSUME TypeOK, [Next]_vars, NEW a \in Endpoint, run'[a] = "running"
             PROVE  run[a] = "running"
  OBVIOUS
<1>1. ASSUME NEW e \in Endpoint, RunSSH(e) \/ SshReadEOF(e) PROVE run[a] = "running"
  BY <1>1 DEF RunSSH, SshRead, SshReadEOF, SshReadFails, SshOpen, SshOpenFails, SshWriteAck,
              copySSH, copySSHFails, SshFlush, SshPanics, TypeOK
<1>2. ASSUME NEW e \in Endpoint, RunWS(e) \/ ForeignSend(e) \/ ForeignRecv(e)
      PROVE  run[a] = "running"
  BY <1>2 DEF RunWS, RecvBinary, RecvText, WsReadFails, CountLoad, CountStore, SshWrite,
              SshWriteFails, ForeignSend, ForeignRecv
<1>3. ASSUME NEW e \in Endpoint, Run(e) PROVE run[a] = "running"
  BY <1>3 DEF Run, RunRecvErr, RunNextWriter, RunPanics, RunLoad, RunMask, RunWriteAck, RunFlush,
              RunClose, RunSend, CallerReturns, TypeOK
<1>4. CASE UNCHANGED vars \/ LinkBreaks \/ DeadlineClose \/ DeadlineSend
  BY <1>4 DEF vars, LinkBreaks, DeadlineClose, DeadlineSend
<1> QED BY <1>1, <1>2, <1>3, <1>4 DEF Next

\* A message that is sent while Run waits has no error bits.
LEMMA SentClean ==
    ASSUME TypeOK, NEW e \in Endpoint, AckCleanAt(e), sshPc[e] # "ack", open[e].by # "none",
           Sent(e, FrameOf(e))
    PROVE  \A i \in DOMAIN wire'[e] : wire'[e][i].tag = "BINARY" => GoodAck(wire'[e][i].ack)
<1>1. FrameOf(e) \in Frame BY FrameOfType
<1>2. GoodAck(FrameOf(e).ack) BY DEF AckCleanAt, FrameOf
<1> QED BY <1>1, <1>2, SentCases DEF AckCleanAt

\* What remains on the wire when a message is taken is as it was.
LEMMA ReceiveClean ==
    ASSUME TypeOK, NEW e \in Endpoint, NEW a \in Endpoint, AckCleanAt(a),
           wire[Peer(e)] # << >>, Receive(e)
    PROVE  \A i \in DOMAIN wire'[a] : wire'[a][i].tag = "BINARY" => GoodAck(wire'[a][i].ack)
<1>1. CASE a = e BY <1>1, ReceiveShape DEF AckCleanAt
<1>2. CASE a = Peer(e)
  <2>1. \A i \in DOMAIN wire'[a] : i + 1 \in DOMAIN wire[a] /\ wire'[a][i] = wire[a][i + 1]
    BY <1>2, ReceiveShape
  <2> QED BY <2>1 DEF AckCleanAt
<1> QED BY <1>1, <1>2, PeerFacts

\* runSSH copies a counter without error bits into its messages.
LEMMA CleanSSH ==
    ASSUME TypeOK, NEW e \in Endpoint, NEW a \in Endpoint, AckCleanAt(a), RunSSH(e) \/ SshReadEOF(e)
    PROVE  AckCleanAt(a)'
<1> USE DEF streamVars, countVars, doneVars
<1>0. \A x \in Endpoint : x # e => sshPc'[x] = sshPc[x]
  BY DEF RunSSH, SshRead, SshReadEOF, SshReadFails, SshOpen, SshOpenFails, SshWriteAck, copySSH,
         copySSHFails, SshFlush, SshPanics, TypeOK
<1>1. ASSUME UNCHANGED <<c, open, wire>>, sshPc[e] # "ack" PROVE AckCleanAt(a)'
  BY <1>0, <1>1 DEF AckCleanAt
<1>2. ASSUME a # e, UNCHANGED c, \A x \in Endpoint \ {e} : open'[x] = open[x],
             UNCHANGED wire \/ Sent(e, FrameOf(e))
      PROVE  AckCleanAt(a)'
  <2>1. wire'[a] = wire[a] BY <1>2 DEF Sent, TypeOK
  <2> QED BY <1>0, <1>2, <2>1 DEF AckCleanAt
<1>3. ASSUME a = e, UNCHANGED c, sshPc[e] # "ack",
             open'[e].by = "none" \/ (open'[e].by = "ssh" /\ sshPc'[e] = "ack"),
             UNCHANGED wire \/ (open[e].by # "none" /\ Sent(e, FrameOf(e)))
      PROVE  AckCleanAt(a)'
  <2>1. \A i \in DOMAIN wire'[e] : wire'[e][i].tag = "BINARY" => GoodAck(wire'[e][i].ack)
    BY <1>3, SentClean DEF AckCleanAt
  <2> QED BY <1>3, <2>1 DEF AckCleanAt
<1>4. CASE SshOpen(e)
  <2>1. /\ open'[e].by = "ssh" /\ \A x \in Endpoint \ {e} : open'[x] = open[x]
        /\ UNCHANGED wire \/ (open[e].by # "none" /\ Sent(e, FrameOf(e)))
        /\ UNCHANGED c
    BY <1>4, OpenNext DEF SshOpen
  <2>2. sshPc[e] = "open" /\ sshPc'[e] = "ack" BY <1>4 DEF SshOpen, TypeOK
  <2> QED BY <1>2, <1>3, <2>1, <2>2
<1>5. CASE SshWriteAck(e)
  <2>1. /\ open'[e].ack = c[e] /\ \A x \in Endpoint \ {e} : open'[x] = open[x]
        /\ UNCHANGED <<c, wire>>
    BY <1>5 DEF SshWriteAck, TypeOK
  <2>2. a = e => GoodAck(open'[e].ack) BY <2>1 DEF AckCleanAt
  <2> QED BY <1>0, <2>1, <2>2 DEF AckCleanAt
<1>6. CASE copySSH(e)
  <2>1. \A x \in Endpoint : open'[x].by = open[x].by /\ open'[x].ack = open[x].ack
    BY <1>6 DEF copySSH, TypeOK
  <2>2. sshPc[e] = "copy" /\ UNCHANGED <<c, wire>> BY <1>6 DEF copySSH
  <2> QED BY <1>0, <2>1, <2>2 DEF AckCleanAt
<1>7. CASE copySSHFails(e)
  <2>1. \A x \in Endpoint : open'[x] = open[x] \/ open'[x].by = "none"
    BY <1>7 DEF copySSHFails, TypeOK, NoMessage, Message
  <2>2. UNCHANGED <<c, wire>> /\ (sshPc[e] = "copy" \/ open[e].by # "ssh")
    BY <1>7 DEF copySSHFails
  <2> QED BY <1>0, <2>1, <2>2 DEF AckCleanAt
<1>8. CASE SshFlush(e)
  <2>1. CloseMessage(e, "ssh") /\ UNCHANGED c /\ sshPc[e] = "flush" BY <1>8 DEF SshFlush
  <2>2. CASE open[e].by # "ssh" BY <1>1, <2>1, <2>2, OpenNext
  <2>3. CASE open[e].by = "ssh"
    <3>1. /\ open'[e].by = "none" /\ \A x \in Endpoint \ {e} : open'[x] = open[x]
          /\ UNCHANGED wire \/ Sent(e, FrameOf(e))
      BY <2>1, <2>3, OpenNext
    <3> QED BY <1>2, <1>3, <2>1, <2>3, <3>1
  <2> QED BY <2>2, <2>3
<1>9. CASE SshRead(e) \/ SshReadEOF(e) \/ SshReadFails(e) \/ SshOpenFails(e) \/ SshPanics(e)
  BY <1>1, <1>9 DEF SshRead, SshReadEOF, SshReadFails, SshOpenFails, SshPanics
<1> QED BY <1>4, <1>5, <1>6, <1>7, <1>8, <1>9 DEF RunSSH

\* Run works on its own endpoint only.
LEMMA CleanRun ==
    ASSUME TypeOK, NEW e \in Endpoint, NEW a \in Endpoint, AckCleanAt(a), Run(e), a # e
    PROVE  AckCleanAt(a)'
<1> USE DEF streamVars, countVars, doneVars
<1>1. c'[a] = c[a] /\ sshPc'[a] = sshPc[a]
  BY DEF Run, RunRecvErr, RunNextWriter, RunPanics, RunLoad, RunMask, RunWriteAck, RunFlush,
         RunClose, RunSend, CallerReturns, TypeOK
<1>2. open'[a] = open[a] /\ wire'[a] = wire[a]
  <2>1. CASE RunNextWriter(e)
    <3>1. \A x \in Endpoint \ {e} : open'[x] = open[x] BY <2>1, OpenNext DEF RunNextWriter
    <3>2. UNCHANGED wire \/ Sent(e, FrameOf(e)) BY <2>1, OpenNext DEF RunNextWriter
    <3> QED BY <3>1, <3>2 DEF Sent, TypeOK
  <2>2. CASE RunFlush(e)
    <3>1. \A x \in Endpoint \ {e} : open'[x] = open[x] BY <2>2, OpenNext DEF RunFlush
    <3>2. UNCHANGED wire \/ Sent(e, FrameOf(e)) BY <2>2, OpenNext DEF RunFlush
    <3> QED BY <3>1, <3>2 DEF Sent, TypeOK
  <2>3. CASE RunWriteAck(e) BY <2>3 DEF RunWriteAck, TypeOK
  <2> QED
    BY <2>1, <2>2, <2>3 DEF Run, RunRecvErr, RunPanics, RunLoad, RunMask, RunClose, RunSend,
                            CallerReturns
<1> QED BY <1>1, <1>2 DEF AckCleanAt

\* An endpoint whose Run still waits for an error sends no error bits.
LEMMA CleanNext == TypeOK /\ AckClean /\ [Next]_vars => AckClean'
<1> SUFFICES ASSUME TypeOK, AckClean, [Next]_vars, NEW a \in Endpoint, run'[a] = "running"
             PROVE  AckCleanAt(a)'
  BY DEF AckClean
<1> USE DEF streamVars, countVars, doneVars
<1>0. run[a] = "running" /\ AckCleanAt(a) BY RunningOnce DEF AckClean
<1>1. ASSUME UNCHANGED <<c, sshPc, open, wire>> PROVE AckCleanAt(a)' BY <1>0, <1>1 DEF AckCleanAt
<1>2. ASSUME NEW e \in Endpoint, RunWS(e) \/ ForeignRecv(e) PROVE AckCleanAt(a)'
  <2>1. CASE WsReadFails(e) \/ CountLoad(e) \/ SshWrite(e) \/ SshWriteFails(e)
    BY <1>1, <2>1 DEF WsReadFails, CountLoad, SshWrite, SshWriteFails
  <2>2. CASE RecvBinary(e) \/ RecvText(e) \/ ForeignRecv(e)
    <3>1. wire[Peer(e)] # << >> /\ Receive(e) /\ UNCHANGED <<c, sshPc, open>>
      BY <2>2 DEF RecvBinary, RecvText, ForeignRecv, WsReady
    <3>2. \A i \in DOMAIN wire'[a] : wire'[a][i].tag = "BINARY" => GoodAck(wire'[a][i].ack)
      BY <1>0, <3>1, ReceiveClean
    <3> QED BY <1>0, <3>1, <3>2 DEF AckCleanAt
  <2>3. CASE CountStore(e)
    <3>1. UNCHANGED <<sshPc, open, wire>> BY <2>3 DEF CountStore
    <3>2. c'[e] = (wsC[e] + data[e].n) % CountMod /\ (a # e => c'[a] = c[a])
      BY <2>3 DEF CountStore, incCounter, TypeOK
    <3>3. GoodAck(c'[a]) BY <1>0, <3>2, CountStored DEF AckCleanAt
    <3> QED BY <1>0, <3>1, <3>3 DEF AckCleanAt
  <2> QED BY <1>2, <2>1, <2>2, <2>3 DEF RunWS
<1>3. ASSUME NEW e \in Endpoint, Run(e) PROVE AckCleanAt(a)'
  <2>1. run'[e] # "running"
    BY <1>3 DEF Run, RunRecvErr, RunNextWriter, RunPanics, RunLoad, RunMask, RunWriteAck, RunFlush,
                RunClose, RunSend, CallerReturns, TypeOK
  <2> QED BY <1>0, <1>3, <2>1, CleanRun
<1>4. ASSUME NEW e \in Endpoint, ForeignSend(e) PROVE AckCleanAt(a)'
  <2>1. a # e BY <1>0, <1>4 DEF ForeignSend, IsForeign
  <2>2. wire'[a] = wire[a] BY <1>4, <2>1 DEF ForeignSend, TypeOK
  <2> QED BY <1>0, <1>4, <2>2 DEF ForeignSend, AckCleanAt
<1>5. CASE UNCHANGED vars \/ LinkBreaks \/ DeadlineClose \/ DeadlineSend
  BY <1>1, <1>5 DEF vars, LinkBreaks, DeadlineClose, DeadlineSend
<1> QED BY <1>0, <1>2, <1>3, <1>4, <1>5, CleanSSH DEF Next

\* readAck reports an error only when it has read error bits.
LEMMA CauseNext ==
    TypeOK /\ AckClean /\ ErrorHasCause /\ [Next]_vars => ErrorHasCause'
<1> SUFFICES ASSUME TypeOK, AckClean, ErrorHasCause, [Next]_vars,
                    NEW a \in Endpoint, wsPc'[a] = "proto"
             PROVE  run'[Peer(a)] # "running"
  BY DEF ErrorHasCause
<1> USE DEF streamVars, countVars, doneVars
<1>0. Peer(a) \in Endpoint /\ (run'[Peer(a)] = "running" => run[Peer(a)] = "running")
  BY RunningOnce, PeerFacts
<1>1. CASE wsPc[a] = "proto" BY <1>0, <1>1 DEF ErrorHasCause
<1>2. CASE wsPc[a] # "proto"
  <2>1. RecvBinary(a) /\ ~GoodAck(Incoming(a).ack)
    <3>1. ASSUME NEW e \in Endpoint, RunSSH(e) \/ SshReadEOF(e) PROVE wsPc'[a] # "proto"
      BY <1>2, <3>1 DEF RunSSH, SshRead, SshReadEOF, SshReadFails, SshOpen, SshOpenFails,
                        SshWriteAck, copySSH, copySSHFails, SshFlush, SshPanics, TypeOK
    <3>2. ASSUME NEW e \in Endpoint, RunWS(e) PROVE RecvBinary(a) /\ ~GoodAck(Incoming(a).ack)
      BY <1>2, <3>2 DEF RunWS, RecvBinary, RecvText, WsReadFails, CountLoad, CountStore, SshWrite,
                        SshWriteFails, TypeOK
    <3>3. ASSUME NEW e \in Endpoint, Run(e) PROVE wsPc'[a] # "proto"
      BY <1>2, <3>3 DEF Run, RunRecvErr, RunNextWriter, RunPanics, RunLoad, RunMask, RunWriteAck,
                        RunFlush, RunClose, RunSend, CallerReturns, TypeOK
    <3>4. ASSUME NEW e \in Endpoint, ForeignSend(e) \/ ForeignRecv(e) PROVE wsPc'[a] # "proto"
      BY <1>2, <3>4 DEF ForeignSend, ForeignRecv
    <3>5. CASE UNCHANGED vars \/ LinkBreaks \/ DeadlineClose \/ DeadlineSend
      BY <1>2, <3>5 DEF vars, LinkBreaks, DeadlineClose, DeadlineSend
    <3> QED BY <3>1, <3>2, <3>3, <3>4, <3>5 DEF Next
  <2>2. 1 \in DOMAIN wire[Peer(a)] /\ Incoming(a) = wire[Peer(a)][1] /\ Incoming(a).tag = "BINARY"
    BY <2>1, ReceiveShape DEF RecvBinary, WsReady
  <2>3. run[Peer(a)] # "running" BY <1>0, <2>1, <2>2 DEF AckClean, AckCleanAt
  <2> QED BY <1>0, <2>3
<1> QED BY <1>1, <1>2

-----------------------------------------------------------------------------
(***************************************************************************)
(* The theorems.                                                           *)
(***************************************************************************)

\* A session starts with nothing read, sent or written.
LEMMA InvInit == Init => Inv
<1> SUFFICES ASSUME Init PROVE Inv
  OBVIOUS
<1>1. TypeOK BY TypeInit
<1>2. /\ \A e \in Endpoint :
            /\ c[e] = 0 /\ inp[e] = 0 /\ chunk[e].n = 0 /\ data[e].n = 0 /\ open[e].data.n = 0
            /\ open[e].by = "none" /\ out[e] = << >> /\ wire[e] = << >>
            /\ wsPc[e] \in {"read", "gone"} /\ sshPc[e] \in {"read", "gone"}
            /\ run[e] = "foreign" => sshPc[e] = "gone" /\ wsPc[e] = "gone"
  BY DEF Init, Nothing, NoMessage, Message
<1>3. \A e \in Endpoint : /\ Len(out[e]) = 0 /\ Len(wire[e]) = 0 /\ DOMAIN out[e] = {}
                          /\ DOMAIN wire[e] = {} /\ Base(e) = 0 /\ End(e) = 0
  BY <1>2 DEF Base, End
<1>4. ForeignIdle BY <1>2 DEF ForeignIdle, IsForeign
<1>5. Sending BY <1>2, SizeAssumption DEF Sending, SendingAt
<1>6. Receiving BY <1>2, <1>3, PeerFacts DEF Receiving
<1>7. Ordered /\ StreamIntegrity BY <1>3 DEF Ordered, StreamIntegrity
<1>8. Gapless BY <1>3, PeerFacts DEF Gapless, Joins
<1>9. AckClean BY <1>2, <1>3, SizeAssumption DEF AckClean, AckCleanAt, GoodAck
<1>10. ErrorHasCause BY <1>2 DEF ErrorHasCause
<1>11. Counting
  <2>1. 0 % CountMod = 0 BY SizeAssumption
  <2> QED BY <1>2, <1>3, <2>1 DEF Counting, Counted
<1> QED BY <1>1, <1>4, <1>5, <1>6, <1>7, <1>8, <1>9, <1>10, <1>11 DEF Inv, Streams

\* Every step keeps the invariant.
LEMMA InvNext == Inv /\ [Next]_vars => Inv'
  BY TypeNext, ForeignNext, SendingNext, StreamsNext, CountingNext, CleanNext, CauseNext DEF Inv,
                                                                                             Streams

\* The invariant of a version 1 session holds throughout.
THEOREM Invariance == Spec => []Inv
<1>1. Init => Inv BY InvInit
<1>2. Inv /\ [Next]_vars => Inv' BY InvNext
<1> QED BY <1>1, <1>2, PTL DEF Spec

\* Every variable of a version 1 session keeps its type.
THEOREM TypeCorrect == Spec => []TypeOK
<1>1. Inv => TypeOK BY DEF Inv
<1> QED BY <1>1, Invariance, PTL

\* runWS writes to an SSH connection a prefix of what the other SSH connection
\* supplied, although Run sends runSSH's message half way at times.
THEOREM StreamCorrect == Spec => []StreamIntegrity
<1>1. Inv => StreamIntegrity BY DEF Inv, Streams
<1> QED BY <1>1, Invariance, PTL

\* Until Run stores its error bits, Session.c is between messages the number of
\* bytes written modulo 2^24, after any number of wraps, although incCounter's
\* load and store are two steps and Run loads the counter meanwhile.
THEOREM CounterIsExact == Spec => []CounterExact
<1>1. Inv => CounterExact BY DEF Inv, Counting, CounterExact, Alive, Unmarked, Counted
<1> QED BY <1>1, Invariance, PTL

\* readAck finds error bits only in a session whose other end has failed, or
\* does not run this code.
THEOREM ErrorsHaveCauses == Spec => []ErrorHasCause
<1>1. Inv => ErrorHasCause BY DEF Inv
<1> QED BY <1>1, Invariance, PTL

-----------------------------------------------------------------------------
(***************************************************************************)
(* The two directions implement BytePipe.                                  *)
(***************************************************************************)

\* An SSH connection was given the first bytes of the peer's stream, and no
\* more of them than the peer's runSSH has read.
Prefixes ==
    \A e \in Endpoint : /\ out[Peer(e)] = [i \in 1..Len(out[Peer(e)]) |-> i]
                        /\ Len(out[Peer(e)]) \in Nat /\ Len(out[Peer(e)]) <= inp[e]

\* That follows from the invariant: End bounds what was counted.
LEMMA OutIsPrefix == Inv => Prefixes
<1> SUFFICES ASSUME Inv, NEW e \in Endpoint
             PROVE  /\ out[Peer(e)] = [i \in 1..Len(out[Peer(e)]) |-> i]
                    /\ Len(out[Peer(e)]) \in Nat /\ Len(out[Peer(e)]) <= inp[e]
  BY DEF Prefixes
<1>1. TypeOK /\ Sending /\ Peer(e) \in Endpoint /\ Peer(Peer(e)) = e BY PeerFacts DEF Inv
<1>2. /\ out[Peer(e)] \in Seq(1..Longest) /\ Len(out[Peer(e)]) \in Nat
      /\ DOMAIN out[Peer(e)] = 1..Len(out[Peer(e)])
  BY <1>1, CountFacts DEF TypeOK
<1>3. out[Peer(e)] = [i \in 1..Len(out[Peer(e)]) |-> i]
  BY <1>1, <1>2 DEF Inv, Streams, StreamIntegrity
<1>4. Base(Peer(e)) <= End(e) /\ End(e) <= inp[e]
  BY <1>1, EndFacts DEF Inv, Streams, Receiving
<1>5. data[Peer(e)].n \in Nat /\ End(e) \in Nat /\ inp[e] \in Nat BY <1>1, CountFacts
<1> QED BY <1>2, <1>3, <1>4, <1>5 DEF Base

\* The same after a step.
LEMMA OutIsPrefixNext == Inv' => Prefixes'
  BY OutIsPrefix, PTL

\* Appending to what was written makes it no shorter.
LEMMA Longer ==
    ASSUME TypeOK, NEW a \in Endpoint, NEW e \in Endpoint, NEW k \in Nat,
           out' = [out EXCEPT ![a] = @ \o Bytes(data[a], k)]
    PROVE  Len(out[e]) <= Len(out'[e])
<1>1. out[a] \in Seq(1..Longest) /\ data[a] \in Payload /\ Len(out[e]) \in Nat
  BY CountFacts DEF TypeOK
<1>2. CASE e # a BY <1>1, <1>2 DEF TypeOK
<1>3. CASE e = a
  <2>1. Len(out[a] \o Bytes(data[a], k)) = Len(out[a]) + k BY WrittenLen
  <2>2. out'[a] = out[a] \o Bytes(data[a], k) BY DEF TypeOK
  <2> QED BY <1>1, <1>3, <2>1, <2>2
<1> QED BY <1>2, <1>3

\* A step moves at most one of what was read and what was written, and only
\* forward.
LEMMA Moves ==
    ASSUME TypeOK, [Next]_vars
    PROVE  \/ UNCHANGED out /\ \A e \in Endpoint : inp[e] <= inp'[e]
           \/ UNCHANGED inp /\ \A e \in Endpoint : Len(out[e]) <= Len(out'[e])
<1> DEFINE Goal == \/ UNCHANGED out /\ \A e \in Endpoint : inp[e] <= inp'[e]
                   \/ UNCHANGED inp /\ \A e \in Endpoint : Len(out[e]) <= Len(out'[e])
<1> USE DEF streamVars, countVars, doneVars
<1>1. \A e \in Endpoint : inp[e] \in Nat /\ Len(out[e]) \in Nat /\ data[e].n \in Nat
  BY CountFacts
<1>2. ASSUME UNCHANGED <<inp, out>> PROVE Goal BY <1>1, <1>2
<1>3. ASSUME NEW a \in Endpoint, NEW k \in Nat, UNCHANGED out,
             inp' = [inp EXCEPT ![a] = inp[a] + k]
      PROVE  Goal
  BY <1>1, <1>3 DEF TypeOK
<1>4. ASSUME NEW a \in Endpoint, SshRead(a) PROVE Goal
  <2>1. PICK k \in 1..BufLen : inp' = [inp EXCEPT ![a] = inp[a] + k] BY <1>4 DEF SshRead
  <2>2. k \in Nat BY SizeAssumption
  <2> QED BY <1>3, <1>4, <2>1, <2>2 DEF SshRead
<1>5. ASSUME NEW a \in Endpoint, ForeignSend(a) PROVE Goal
  <2>0. UNCHANGED out BY <1>5 DEF ForeignSend
  <2>1. CASE UNCHANGED inp BY <1>2, <2>0, <2>1
  <2>2. CASE ~UNCHANGED inp
    <3>1. PICK k \in 0..BufLen : inp' = [inp EXCEPT ![a] = inp[a] + k]
      BY <1>5, <2>2 DEF ForeignSend
    <3>2. k \in Nat BY SizeAssumption
    <3> QED BY <1>3, <2>0, <3>1, <3>2
  <2> QED BY <2>1, <2>2
<1>6. ASSUME NEW a \in Endpoint, SshWrite(a) \/ SshWriteFails(a) PROVE Goal
  <2>0. UNCHANGED inp BY <1>6 DEF SshWrite, SshWriteFails
  <2>1. CASE UNCHANGED out BY <1>2, <2>0, <2>1
  <2>2. CASE ~UNCHANGED out
    <3>1. PICK k \in 0..data[a].n : out' = [out EXCEPT ![a] = @ \o Bytes(data[a], k)]
      <4>1. CASE SshWrite(a)
        <5>1. data[a].n \in 0..data[a].n BY <1>1
        <5> QED BY <4>1, <5>1 DEF SshWrite
      <4>2. CASE SshWriteFails(a)
        <5>1. PICK k \in 0..(data[a].n - 1) : out' = [out EXCEPT ![a] = @ \o Bytes(data[a], k)]
          BY <2>2, <4>2 DEF SshWriteFails
        <5>2. k \in 0..data[a].n BY <1>1, <5>1
        <5> QED BY <5>1, <5>2
      <4> QED BY <1>6, <4>1, <4>2
    <3>2. k \in Nat BY <1>1
    <3> QED BY <2>0, <3>1, <3>2, Longer
  <2> QED BY <2>1, <2>2
<1>7. ASSUME NEW a \in Endpoint,
             \/ RunSSH(a) /\ ~SshRead(a)
             \/ RunWS(a) /\ ~SshWrite(a) /\ ~SshWriteFails(a)
             \/ SshReadEOF(a) \/ Run(a) \/ ForeignRecv(a)
      PROVE  UNCHANGED <<inp, out>>
  <2>1. CASE RunSSH(a) /\ ~SshRead(a)
    BY <2>1 DEF RunSSH, SshReadFails, SshOpen, SshOpenFails, SshWriteAck, copySSH, copySSHFails,
                SshFlush, SshPanics
  <2>2. CASE RunWS(a) /\ ~SshWrite(a) /\ ~SshWriteFails(a)
    BY <2>2 DEF RunWS, RecvBinary, RecvText, WsReadFails, CountLoad, CountStore
  <2>3. CASE SshReadEOF(a) \/ ForeignRecv(a) BY <2>3 DEF SshReadEOF, ForeignRecv
  <2>4. CASE Run(a)
    BY <2>4 DEF Run, RunRecvErr, RunNextWriter, RunPanics, RunLoad, RunMask, RunWriteAck, RunFlush,
                RunClose, RunSend, CallerReturns
  <2> QED BY <1>7, <2>1, <2>2, <2>3, <2>4
<1>8. CASE UNCHANGED vars \/ LinkBreaks \/ DeadlineClose \/ DeadlineSend
  BY <1>2, <1>8 DEF vars, LinkBreaks, DeadlineClose, DeadlineSend
<1> QED BY <1>2, <1>4, <1>5, <1>6, <1>7, <1>8 DEF Next

\* So a step is one of BytePipe's for the direction from e to its peer, or
\* changes nothing in it.
LEMMA PipeStep ==
    ASSUME Inv, [Next]_vars, NEW e \in Endpoint
    PROVE  \/ inp'[e] \in (inp[e] + 1)..StreamLen[e] /\ out'[Peer(e)] = out[Peer(e)]
           \/ /\ \E k \in (Len(out[Peer(e)]) + 1)..inp[e] : out'[Peer(e)] = [i \in 1..k |-> i]
              /\ inp'[e] = inp[e]
           \/ inp'[e] = inp[e] /\ out'[Peer(e)] = out[Peer(e)]
<1>1. TypeOK /\ Peer(e) \in Endpoint /\ Inv' BY PeerFacts, InvNext DEF Inv
<1>2. inp[e] \in Nat /\ StreamLen[e] \in Nat BY <1>1, CountFacts
<1>3. inp'[e] <= StreamLen[e] /\ inp'[e] \in Nat
  <2>1. TypeOK' /\ Sending' BY <1>1 DEF Inv
  <2> QED BY <2>1, LongestFacts DEF TypeOK, Sending, SendingAt
<1>4. /\ out[Peer(e)] = [i \in 1..Len(out[Peer(e)]) |-> i] /\ Len(out[Peer(e)]) \in Nat
      /\ out'[Peer(e)] = [i \in 1..Len(out'[Peer(e)]) |-> i] /\ Len(out'[Peer(e)]) \in Nat
      /\ Len(out'[Peer(e)]) <= inp'[e]
  BY <1>1, OutIsPrefix, OutIsPrefixNext DEF Prefixes
<1>5. CASE UNCHANGED out /\ \A a \in Endpoint : inp[a] <= inp'[a]
  BY <1>2, <1>3, <1>5
<1>6. CASE UNCHANGED inp /\ \A a \in Endpoint : Len(out[a]) <= Len(out'[a])
  <2>1. CASE Len(out'[Peer(e)]) = Len(out[Peer(e)]) BY <1>4, <1>6, <2>1
  <2>2. CASE Len(out'[Peer(e)]) # Len(out[Peer(e)])
    <3>1. Len(out'[Peer(e)]) \in (Len(out[Peer(e)]) + 1)..inp[e]
      BY <1>1, <1>2, <1>4, <1>6, <2>2
    <3> QED BY <1>4, <1>6, <3>1
  <2> QED BY <2>1, <2>2
<1> QED BY <1>1, <1>5, <1>6, Moves

\* A session starts as two empty pipes.
LEMMA PipesInit == Init => Up!PInit /\ Down!PInit
  BY DEF Init, Up!PInit, Down!PInit, Endpoint

\* And every step is a step, or none, of each of the two pipes.
LEMMA PipesNext == Inv /\ [Next]_vars => [Up!PNext]_(Up!pvars) /\ [Down!PNext]_(Down!pvars)
<1> SUFFICES ASSUME Inv, [Next]_vars
             PROVE  [Up!PNext]_(Up!pvars) /\ [Down!PNext]_(Down!pvars)
  OBVIOUS
<1>1. /\ "client" \in Endpoint /\ Peer("client") = "server"
      /\ "server" \in Endpoint /\ Peer("server") = "client"
  BY DEF Endpoint, Peer
<1>2. [Up!PNext]_(Up!pvars)
  BY <1>1, PipeStep DEF Up!PNext, Up!Take, Up!Deliver, Up!Acknowledge, Up!pvars
<1>3. [Down!PNext]_(Down!pvars)
  BY <1>1, PipeStep DEF Down!PNext, Down!Take, Down!Deliver, Down!Acknowledge, Down!pvars
<1> QED BY <1>2, <1>3

\* In both directions a version 1 session implements BytePipe: what runWS
\* writes was read by the other runSSH, in order and without a gap, although
\* two writers share the WebSocket.
THEOREM Refinement == Spec => ImplementsPipes
  BY PipesInit, PipesNext, Invariance, PTL DEF Spec, ImplementsPipes, Up!PSpec, Down!PSpec
=============================================================================
