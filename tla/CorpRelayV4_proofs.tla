------------------------ MODULE CorpRelayV4_proofs -------------------------
(***************************************************************************)
(* Proofs about CorpRelayV4, for streams, payloads, buffers and counters   *)
(* of any size, with and without faults, and with either endpoint, or      *)
(* both, foreign.                                                          *)
(*                                                                         *)
(* The argument is about one direction at a time, from the SSH connection  *)
(* of e to that of Peer(e): the payloads on the wire lie end to end        *)
(* between what Peer(e) has counted and what runSSH of e has handed over.  *)
(***************************************************************************)
EXTENDS CorpRelayV4, SequenceTheorems, TLAPS

IsData(f) == f.tag = "DATA"

\* runWS of e still counts and writes what arrives.
Alive(e) == pc[e]["ws"] \in {"read", "write", "lock", "send"}

\* Bytes e has counted in rCount, as long as runWS works.
Base(e) == Len(out[e]) + data[e].n

\* Bytes of e's stream that its runSSH has handed to the WebSocket.
End(e) == IF chunk[e].n > 0 THEN chunk[e].lo ELSE inp[e]

\* A foreign endpoint has no goroutines, holds nothing and writes nothing.
ForeignIdle ==
    \A e \in Endpoint : IsForeign(e) =>
        /\ \A g \in Goroutine : pc[e][g] = "gone"
        /\ chunk[e].n = 0
        /\ out[e] = << >>
        /\ wCount[e] = 0

\* What runSSH holds is the last it has read.
Sending ==
    \A e \in Endpoint :
        /\ pc[e]["ssh"] = "read" => chunk[e].n = 0
        /\ chunk[e].n > 0 => chunk[e].lo + chunk[e].n = inp[e]
        /\ inp[e] <= StreamLen[e]

\* What runWS holds follows on what it has written, and is counted.
Receiving ==
    \A e \in Endpoint :
        /\ pc[e]["ws"] # "write" => data[e].n = 0
        /\ pc[e]["ws"] = "write" => data[e].lo = Len(out[e])
        /\ Alive(e) => rCount[e] = Base(e)
        /\ Base(e) <= End(Peer(e))

\* The payloads on the wire do not overlap and are in order.
Ordered ==
    \A e \in Endpoint : \A i \in DOMAIN wire[e] : IsData(wire[e][i]) =>
        /\ wire[e][i].lo + wire[e][i].n <= End(e)
        /\ \A j \in DOMAIN wire[e] : IsData(wire[e][j]) /\ i < j
                => wire[e][i].lo + wire[e][i].n <= wire[e][j].lo

\* The byte after the first b follows on the first m, or on one of the first
\* k - 1 frames of w.
Joins(w, m, b, k) ==
    \/ b = m
    \/ \E j \in DOMAIN w : j < k /\ IsData(w[j]) /\ b = w[j].lo + w[j].n

\* There is no gap before a payload on the wire, nor, while nothing has been
\* lost with the connection, after the last one.
Gapless ==
    \A e \in Endpoint : Alive(Peer(e)) =>
        /\ \A i \in DOMAIN wire[e] : IsData(wire[e][i])
                => Joins(wire[e], Base(Peer(e)), wire[e][i].lo, i)
        /\ link = "up" => Joins(wire[e], Base(Peer(e)), End(e), Len(wire[e]) + 1)

\* ACKs of an endpoint that runs this code never go back.
AckOrder ==
    \A e \in Endpoint : ~IsForeign(e) =>
        \A i \in DOMAIN wire[e] : wire[e][i].tag = "ACK" =>
            /\ wCount[Peer(e)] <= wire[e][i].ack
            /\ \A j \in DOMAIN wire[e] : wire[e][j].tag = "ACK" /\ i < j
                    => wire[e][i].ack <= wire[e][j].ack

\* Both endpoints run this code.
BothOurs == \A e \in Endpoint : ~IsForeign(e)

\* Frames that one of our endpoints sends to the other, and the only
\* CONNECT_SUCCESS, which finds the client without a SID.
GoodFrames ==
    \A e \in Endpoint : \A i \in DOMAIN wire[e] :
        /\ wire[e][i].tag \in {"DATA", "ACK", "CONNECT_SUCCESS"}
        /\ IsData(wire[e][i]) => wire[e][i].n \in 1..MaxArrayLen
        /\ wire[e][i].tag = "CONNECT_SUCCESS" =>
            /\ e = "server" /\ wire[e][i].sid = "sid" /\ sid["client"] = "nil"
            /\ \A j \in DOMAIN wire[e] : wire[e][j].tag = "CONNECT_SUCCESS" => i = j

ConnectPending(e) == pc[e]["ssh"] \in {"lock", "send"} /\ chunk[e].n = 0

ConnectOnce ==
    /\ sid["server"] = "sid"
    /\ ~ConnectPending("client")
    /\ ConnectPending("server") =>
        /\ sid["client"] = "nil"
        /\ \A i \in DOMAIN wire["server"] : wire["server"][i].tag # "CONNECT_SUCCESS"
    /\ \A e \in Endpoint : chunk[e].n <= MaxArrayLen

Handshake == BothOurs => GoodFrames /\ ConnectOnce

Inv == /\ TypeOK /\ OneWriter /\ ForeignIdle /\ Sending /\ Receiving /\ Ordered /\ Gapless
       /\ StreamIntegrity /\ AckSound /\ AckOrder /\ Handshake /\ NoProtocolError

-----------------------------------------------------------------------------
(***************************************************************************)
(* The model's operators.                                                  *)
(***************************************************************************)

\* Peer swaps the two endpoints.
LEMMA PeerFacts ==
    ASSUME NEW e \in Endpoint
    PROVE  /\ Peer(e) \in Endpoint /\ Peer(e) # e /\ Peer(Peer(e)) = e
           /\ \A a \in Endpoint : a = e \/ a = Peer(e)
  BY DEF Endpoint, Peer

\* Longest is the length of the longer stream.
LEMMA LongestFacts ==
    Longest \in Nat /\ \A e \in Endpoint : StreamLen[e] \in 0..Longest
  BY SizeAssumption DEF Longest, Endpoint

\* A count that stays below CountMod does not wrap.
LEMMA NoWrap ==
    ASSUME NEW x \in Nat, x < CountMod
    PROVE  x % CountMod = x
  BY CountAssumption

\* A wrapped count is a uint64.
LEMMA Wrapped ==
    ASSUME NEW x \in Int
    PROVE  x % CountMod \in 0..(CountMod - 1)
  BY CountAssumption, LongestFacts

\* An ACK that does not go back, of a stream short enough, has a difference
\* that is not negative.
LEMMA DiffForward ==
    ASSUME NEW a \in 0..Longest, NEW b \in 0..a
    PROVE  ~(Diff(a, b) < 0)
<1>1. (a - b) % CountMod = a - b
  BY NoWrap, CountAssumption, LongestFacts
<1> QED BY <1>1, CountAssumption, LongestFacts DEF Diff

\* What a frame carries.
LEMMA FrameFacts ==
    ASSUME NEW f \in Frame
    PROVE  /\ f.tag = "DATA" => f.lo \in 0..Longest /\ f.n \in 0..(MaxArrayLen + 1)
           /\ f.tag = "ACK" => f.ack \in 0..(CountMod - 1)
           /\ f.tag = "CONNECT_SUCCESS" => f.sid \in Sid \cup {"unparsable"}
  BY DEF Frame
\* Whatever a goroutine sends is a frame.
LEMMA MessageType ==
    ASSUME TypeOK, NEW e \in Endpoint, NEW g \in Goroutine
    PROVE  Message(e, g) \in Frame
<1> USE DEF TypeOK, Payload
<1>1. sendAck(e) \in Frame BY DEF sendAck, Frame
<1>2. sendConnect(e) \in Frame BY DEF sendConnect, Frame
<1>3. copySSH(e) \in Frame BY DEF copySSH, Frame
<1> QED BY <1>1, <1>2, <1>3 DEF Message, Goroutine

\* Writing the first k bytes of a payload that follows on what was written.
LEMMA WriteFacts ==
    ASSUME NEW s \in Seq(1..Longest), NEW p \in Payload, NEW k \in 0..p.n,
           p.lo = Len(s), p.lo + p.n <= Longest
    PROVE  /\ s \o Bytes(p, k) \in Seq(1..Longest)
           /\ Len(s \o Bytes(p, k)) = Len(s) + k
           /\ \A i \in 1..Len(s) : (s \o Bytes(p, k))[i] = s[i]
           /\ \A i \in (Len(s) + 1)..(Len(s) + k) : (s \o Bytes(p, k))[i] = i
<1>1. Bytes(p, k) \in Seq(1..Longest) /\ Len(Bytes(p, k)) = k
  BY LongestFacts DEF Bytes, Payload
<1> QED BY <1>1, ConcatProperties DEF Bytes, Payload

-----------------------------------------------------------------------------
(***************************************************************************)
(* Types.                                                                  *)
(***************************************************************************)

\* New and Run start with every variable in its type.
LEMMA TypeInit == Init => TypeOK
<1> SUFFICES ASSUME Init PROVE TypeOK
  OBVIOUS
<1> USE SizeAssumption, CountAssumption, EnvAssumption, LongestFacts
        DEF Init, Endpoint, Goroutine
<1>1. chunk \in [Endpoint -> Payload] /\ data \in [Endpoint -> Payload]
  BY DEF Payload, Nothing
<1>2. pc \in [Endpoint -> [Goroutine -> {"read", "write", "lock", "send", "gone"} \cup Err]]
  OBVIOUS
<1>3. sid \in [Endpoint -> Sid] /\ run \in [Endpoint -> {"foreign", "running", "close", "returned", "done"}]
  BY DEF Sid
<1> QED BY <1>1, <1>2, <1>3 DEF TypeOK

\* A goroutine that moves to a known place stays in its type.
LEMMA GotoType ==
    ASSUME TypeOK, NEW e \in Endpoint, NEW g \in Goroutine,
           NEW l \in {"read", "write", "lock", "send", "gone"} \cup Err, Goto(e, g, l)
    PROVE  pc' \in [Endpoint -> [Goroutine -> {"read", "write", "lock", "send", "gone"} \cup Err]]
  BY DEF TypeOK, Goto

\* runSSH and runWS send frames only, and leave the other variables in their
\* types.
LEMMA TypeWriter ==
    ASSUME TypeOK, NEW e \in Endpoint, NEW g \in Goroutine,
           Lock(e, g) \/ LockFails(e, g) \/ Send(e, g) \/ SendLost(e, g)
    PROVE  TypeOK'
<1> USE GotoType DEF TypeOK, streamVars, runVars, doneVars, Err
<1>1. CASE Lock(e, g) BY <1>1 DEF Lock
<1>2. CASE LockFails(e, g) BY <1>2 DEF LockFails
<1>3. ASSUME Cancel(e, g)
      PROVE  mu' \in [Endpoint -> Goroutine \cup {"free"}] /\ chunk' \in [Endpoint -> Payload]
  <2>1. Nothing \in Payload BY SizeAssumption, LongestFacts DEF Payload, Nothing
  <2>2. mu' = [mu EXCEPT ![e] = "free"] /\ (chunk' = [chunk EXCEPT ![e] = Nothing] \/ chunk' = chunk)
    BY <1>3 DEF Cancel
  <2> QED BY <2>1, <2>2
<1>4. CASE Send(e, g)
  <2>1. wire' \in [Endpoint -> Seq(Frame)]
    BY <1>4, MessageType, AppendProperties DEF Send
  <2> QED BY <1>3, <1>4, <2>1 DEF Send
<1>5. CASE SendLost(e, g) BY <1>3, <1>5 DEF SendLost
<1> QED BY <1>1, <1>2, <1>4, <1>5
\* Taking in a frame leaves frames on the wire.
LEMMA ReceiveType ==
    ASSUME TypeOK, NEW e \in Endpoint, wire[Peer(e)] # << >>
    PROVE  Incoming(e) \in Frame /\ (Receive(e) => wire' \in [Endpoint -> Seq(Frame)])
<1>1. Peer(e) \in Endpoint BY PeerFacts
<1>2. wire[Peer(e)] \in Seq(Frame) BY <1>1 DEF TypeOK
<1>3. Head(wire[Peer(e)]) \in Frame /\ Tail(wire[Peer(e)]) \in Seq(Frame)
  BY <1>2, HeadTailProperties
<1> QED BY <1>1, <1>3 DEF TypeOK, Incoming, Receive

\* A payload's position and size.
LEMMA PayloadFacts ==
    ASSUME NEW p \in Payload
    PROVE  p.lo \in Nat /\ p.n \in Nat /\ p.n <= MaxArrayLen + 1
  BY SizeAssumption, LongestFacts DEF Payload

\* The counts of an endpoint are natural numbers.
LEMMA CountFacts ==
    ASSUME TypeOK, NEW e \in Endpoint
    PROVE  /\ inp[e] \in Nat /\ inp[e] <= Longest /\ Longest \in Nat /\ Longest < CountMod
           /\ chunk[e].lo \in Nat /\ chunk[e].n \in Nat
           /\ data[e].lo \in Nat /\ data[e].n \in Nat
           /\ Len(out[e]) \in Nat /\ DOMAIN out[e] = 1..Len(out[e])
           /\ rCount[e] \in Nat /\ wCount[e] \in Nat
           /\ Base(e) \in Nat /\ End(e) \in Nat
           /\ StreamLen[e] \in Nat /\ StreamLen[e] <= Longest
<1>1. /\ inp[e] \in Nat /\ inp[e] <= Longest /\ Longest \in Nat /\ Longest < CountMod
      /\ rCount[e] \in Nat /\ wCount[e] \in Nat /\ StreamLen[e] \in Nat /\ StreamLen[e] <= Longest
  BY LongestFacts, CountAssumption, SizeAssumption DEF TypeOK
<1>2. chunk[e] \in Payload /\ data[e] \in Payload BY DEF TypeOK
<1>3. /\ chunk[e].lo \in Nat /\ chunk[e].n \in Nat
      /\ data[e].lo \in Nat /\ data[e].n \in Nat
  BY <1>2, PayloadFacts
<1>4. Len(out[e]) \in Nat /\ DOMAIN out[e] = 1..Len(out[e])
  <2>1. out[e] \in Seq(1..Longest) BY DEF TypeOK
  <2> QED BY <2>1, LenProperties
<1>5. Base(e) \in Nat /\ End(e) \in Nat BY <1>1, <1>3, <1>4 DEF Base, End
<1> QED BY <1>1, <1>3, <1>4, <1>5

\* runSSH hands over no more than it has read.
LEMMA EndFacts ==
    ASSUME TypeOK, Sending, NEW e \in Endpoint
    PROVE  End(e) <= inp[e] /\ End(e) <= Longest
<1>1. End(e) <= inp[e] BY CountFacts DEF Sending, End
<1> QED BY <1>1, CountFacts

\* Writes to an SSH connection write bytes of the peer's stream, as long as
\* the payload in hand follows on what was written.
LEMMA TypeWrite ==
    ASSUME TypeOK, Receiving, Sending, NEW e \in Endpoint, SshWrite(e) \/ SshWriteFails(e)
    PROVE  TypeOK'
<1>1. /\ data[e] \in Payload /\ data[e].lo = Len(out[e]) /\ Base(e) <= End(Peer(e))
      /\ Peer(e) \in Endpoint
  BY PeerFacts DEF TypeOK, SshWrite, SshWriteFails, Receiving
<1>2. data[e].lo + data[e].n <= Longest
  <2>1. End(Peer(e)) <= Longest BY <1>1, EndFacts
  <2>2. data[e].lo + data[e].n = Base(e) BY <1>1 DEF Base
  <2> QED BY <1>1, <2>1, <2>2, CountFacts
<1>3. ASSUME NEW k \in 0..data[e].n, out' = [out EXCEPT ![e] = @ \o Bytes(data[e], k)]
      PROVE  out' \in [Endpoint -> Seq(1..Longest)]
  <2>1. out[e] \in Seq(1..Longest) BY DEF TypeOK
  <2>2. out[e] \o Bytes(data[e], k) \in Seq(1..Longest) BY <1>1, <1>2, <2>1, WriteFacts
  <2> QED BY <1>3, <2>2 DEF TypeOK
<1>4. out' \in [Endpoint -> Seq(1..Longest)]
  <2>1. CASE SshWrite(e)
    <3>1. data[e].n \in 0..data[e].n BY <1>1 DEF Payload
    <3> QED BY <2>1, <3>1, <1>3 DEF SshWrite
  <2>2. CASE SshWriteFails(e)
    <3>1. ASSUME NEW k \in 0..(data[e].n - 1) PROVE k \in 0..data[e].n
      BY <1>1 DEF Payload
    <3> QED BY <2>2, <3>1, <1>3 DEF TypeOK, SshWriteFails
  <2> QED BY <2>1, <2>2
<1>5. Nothing \in Payload BY LongestFacts, SizeAssumption DEF Nothing, Payload
<1>6. pc' \in [Endpoint -> [Goroutine -> {"read", "write", "lock", "send", "gone"} \cup Err]]
  <2>1. Goto(e, "ws", "lock") \/ Goto(e, "ws", "io") BY DEF SshWrite, SshWriteFails
  <2> QED BY <2>1, GotoType DEF Goroutine, Err
<1> QED BY <1>4, <1>5, <1>6 DEF TypeOK, SshWrite, SshWriteFails, runVars, doneVars

\* The other steps of runWS.
LEMMA TypeWS ==
    ASSUME TypeOK, NEW e \in Endpoint,
           \/ RecvRejected(e) \/ RecvConnectSuccess(e) \/ RecvData(e) \/ RecvAck(e)
           \/ WsReadFails(e)
    PROVE  TypeOK'
<1> USE GotoType, ReceiveType DEF TypeOK, streamVars, runVars, doneVars, Err, Goroutine, WsReady
<1>1. CASE RecvRejected(e) BY <1>1 DEF RecvRejected, Sid
<1>2. CASE RecvConnectSuccess(e)
  <2>1. Incoming(e).sid \in Sid BY <1>2, FrameFacts DEF RecvConnectSuccess, Rejected, Sid
  <2> QED BY <1>2, <2>1 DEF RecvConnectSuccess
<1>3. CASE RecvData(e)
  <2>1. [lo |-> Incoming(e).lo, n |-> Incoming(e).n] \in Payload
    BY <1>3, FrameFacts DEF RecvData, Payload
  <2>2. Incoming(e).n \in Nat /\ rCount[e] \in Nat
    <3>1. Incoming(e) \in Frame /\ Incoming(e).tag = "DATA" BY <1>3 DEF RecvData
    <3> QED BY <3>1, FrameFacts, CountFacts, SizeAssumption
  <2>3. (rCount[e] + Incoming(e).n) % CountMod \in 0..(CountMod - 1)
    <3>1. rCount[e] + Incoming(e).n \in Int BY <2>2
    <3> QED BY <3>1, Wrapped
  <2> QED BY <1>3, <2>1, <2>3 DEF RecvData
<1>4. CASE RecvAck(e)
  <2>1. Incoming(e).ack \in 0..(CountMod - 1) BY <1>4, FrameFacts DEF RecvAck
  <2> QED BY <1>4, <2>1 DEF RecvAck
<1>5. CASE WsReadFails(e) BY <1>5 DEF WsReadFails
<1> QED BY <1>1, <1>2, <1>3, <1>4, <1>5

\* The SSH connection, Run and the environment.
LEMMA TypeRest ==
    ASSUME TypeOK, NEW e \in Endpoint,
           \/ SshRead(e) \/ SshReadEOF(e) \/ SshReadFails(e) \/ Run(e)
           \/ ForeignSend(e) \/ ForeignRecv(e) \/ LinkBreaks \/ DeadlineClose \/ DeadlineSend
    PROVE  TypeOK'
<1> USE GotoType, LongestFacts DEF TypeOK, streamVars, runVars, doneVars, Err, Goroutine
<1>1. CASE SshRead(e)
  <2>1. inp' \in [Endpoint -> 0..Longest] BY <1>1, SizeAssumption DEF SshRead
  <2>2. chunk' \in [Endpoint -> Payload] BY <1>1, SizeAssumption DEF SshRead, Payload
  <2> QED BY <1>1, <2>1, <2>2 DEF SshRead
<1>2. CASE SshReadEOF(e) BY <1>2 DEF SshReadEOF
<1>3. CASE SshReadFails(e) BY <1>3 DEF SshReadFails
<1>4. CASE RunRecvErr(e) BY <1>4 DEF RunRecvErr
<1>5. CASE RunClose(e) BY <1>5 DEF RunClose
<1>6. CASE RunSend(e) \/ CallerReturns(e) BY <1>6 DEF RunSend, CallerReturns
<1>7. CASE ForeignSend(e)
  <2>1. PICK f \in ForeignFrame(e) :
            /\ wire' = [wire EXCEPT ![e] = Append(@, f)]
            /\ IF f.tag = "DATA"
                 THEN inp[e] + f.n <= StreamLen[e] /\ inp' = [inp EXCEPT ![e] = inp[e] + f.n]
                 ELSE UNCHANGED inp
    BY <1>7 DEF ForeignSend
  <2>2. f \in Frame BY DEF ForeignFrame, Frame, Sid
  <2>3. inp' \in [Endpoint -> 0..Longest]
    <3>1. CASE f.tag = "DATA"
      <4>1. f.n \in Nat BY <3>1, <2>2, FrameFacts, SizeAssumption
      <4>2. inp[e] + f.n \in 0..Longest BY <2>1, <3>1, <4>1, SizeAssumption
      <4> QED BY <2>1, <3>1, <4>2
    <3>2. CASE f.tag # "DATA" BY <2>1, <3>2
    <3> QED BY <3>1, <3>2
  <2>4. wire' \in [Endpoint -> Seq(Frame)] BY <2>1, <2>2, AppendProperties
  <2> QED BY <1>7, <2>3, <2>4 DEF ForeignSend
<1>8. CASE ForeignRecv(e) BY <1>8, ReceiveType DEF ForeignRecv
<1>9. CASE LinkBreaks BY <1>9 DEF LinkBreaks
<1>10. CASE DeadlineClose \/ DeadlineSend BY <1>10 DEF DeadlineClose, DeadlineSend, Endpoint
<1> QED BY <1>1, <1>2, <1>3, <1>4, <1>5, <1>6, <1>7, <1>8, <1>9, <1>10 DEF Run

\* No step takes a variable out of its type.
LEMMA TypeNext == TypeOK /\ Sending /\ Receiving /\ [Next]_vars => TypeOK'
<1> SUFFICES ASSUME TypeOK, Sending, Receiving, [Next]_vars PROVE TypeOK'
  OBVIOUS
<1>1. CASE UNCHANGED vars BY <1>1 DEF vars, streamVars, runVars, doneVars, TypeOK
<1>2. CASE Next
  BY <1>2, TypeWriter, TypeWrite, TypeWS, TypeRest DEF Next, RunSSH, RunWS, Goroutine, Endpoint
<1> QED BY <1>1, <1>2
-----------------------------------------------------------------------------
(***************************************************************************)
(* wsWriter.                                                               *)
(***************************************************************************)

\* mu and the goroutine with an open message change together.
LEMMA OneWriterNext == TypeOK /\ OneWriter /\ [Next]_vars => OneWriter'
<1> SUFFICES ASSUME TypeOK, OneWriter, [Next]_vars PROVE OneWriter'
  OBVIOUS
<1>1. ASSUME UNCHANGED <<mu, pc>> PROVE OneWriter' BY <1>1 DEF OneWriter
<1>2. ASSUME NEW e \in Endpoint, NEW g \in Goroutine, NEW l,
             UNCHANGED mu, Goto(e, g, l), pc[e][g] # "send", l # "send"
      PROVE  OneWriter'
  BY <1>2 DEF OneWriter, TypeOK, Goto
<1>3. ASSUME NEW e \in Endpoint, NEW g \in Goroutine, NEW l, Cancel(e, g), Goto(e, g, l),
             pc[e][g] = "send", l # "send"
      PROVE  OneWriter'
  BY <1>3 DEF OneWriter, TypeOK, Goto, Cancel, Goroutine
<1>4. ASSUME NEW e \in Endpoint, NEW g \in Goroutine,
             Lock(e, g) \/ LockFails(e, g) \/ Send(e, g) \/ SendLost(e, g)
      PROVE  OneWriter'
  <2>1. CASE Lock(e, g) BY <2>1 DEF Lock, OneWriter, TypeOK, Goto, Goroutine
  <2>2. CASE LockFails(e, g) BY <2>2, <1>2 DEF LockFails
  <2>3. CASE Send(e, g) BY <2>3, <1>3 DEF Send
  <2>4. CASE SendLost(e, g) BY <2>4, <1>3 DEF SendLost
  <2> QED BY <1>4, <2>1, <2>2, <2>3, <2>4
<1>5. ASSUME NEW e \in Endpoint,
             RunWS(e) \/ SshRead(e) \/ SshReadFails(e) \/ SshReadEOF(e)
      PROVE  OneWriter'
  <2> "ssh" \in Goroutine /\ "ws" \in Goroutine BY DEF Goroutine
  <2>1. CASE SshRead(e) BY <2>1, <1>2 DEF SshRead
  <2>2. CASE SshReadFails(e) BY <2>2, <1>2 DEF SshReadFails
  <2>3. CASE SshReadEOF(e) BY <2>3, <1>2 DEF SshReadEOF
  <2>4. CASE RecvRejected(e) BY <2>4, <1>2 DEF RecvRejected, WsReady
  <2>5. CASE RecvConnectSuccess(e) BY <2>5, <1>1 DEF RecvConnectSuccess
  <2>6. CASE RecvData(e) BY <2>6, <1>2 DEF RecvData, WsReady
  <2>7. CASE RecvAck(e) BY <2>7, <1>1, <1>2 DEF RecvAck, WsReady
  <2>8. CASE WsReadFails(e) BY <2>8, <1>2 DEF WsReadFails
  <2>9. CASE SshWrite(e) BY <2>9, <1>2 DEF SshWrite
  <2>10. CASE SshWriteFails(e) BY <2>10, <1>2 DEF SshWriteFails
  <2> QED
    BY <1>4, <1>5, <2>1, <2>2, <2>3, <2>4, <2>5, <2>6, <2>7, <2>8, <2>9, <2>10 DEF RunWS
<1>6. ASSUME NEW e \in Endpoint, Run(e) \/ ForeignSend(e) \/ ForeignRecv(e)
      PROVE  OneWriter'
  <2>1. CASE RunRecvErr(e)
    <3>1. PICK g \in Goroutine : pc[e][g] \in Err /\ Goto(e, g, "gone")
      BY <2>1 DEF RunRecvErr
    <3> QED BY <2>1, <3>1, <1>2 DEF RunRecvErr, Err
  <2>2. CASE RunClose(e) BY <2>2, <1>1 DEF RunClose
  <2>3. CASE RunSend(e) \/ CallerReturns(e) BY <2>3, <1>1 DEF RunSend, CallerReturns
  <2>4. CASE ForeignSend(e) BY <2>4, <1>1 DEF ForeignSend
  <2>5. CASE ForeignRecv(e) BY <2>5, <1>1 DEF ForeignRecv
  <2> QED BY <1>6, <2>1, <2>2, <2>3, <2>4, <2>5 DEF Run
<1>7. CASE UNCHANGED vars \/ LinkBreaks \/ DeadlineClose \/ DeadlineSend
  BY <1>7, <1>1 DEF vars, LinkBreaks, DeadlineClose, DeadlineSend
<1> QED BY <1>4, <1>5, <1>6, <1>7 DEF Next, RunSSH, Goroutine

-----------------------------------------------------------------------------
(***************************************************************************)
(* Steps that move no byte and no frame.                                   *)
(***************************************************************************)

\* The conjuncts of Inv that speak of bytes and frames.
Core ==
    /\ ForeignIdle /\ Sending /\ Receiving /\ Ordered /\ Gapless
    /\ StreamIntegrity /\ AckSound /\ AckOrder /\ Handshake

\* A step that leaves bytes and frames where they are: goroutines and Run
\* move on, connections go down.
Quiet ==
    /\ UNCHANGED <<sid, rCount, wCount, inp, chunk, data, out, wire>>
    /\ link' = "up" => link = "up"
    /\ \A e \in Endpoint :
        /\ IsForeign(e)' = IsForeign(e)
        /\ IsForeign(e) => pc'[e] = pc[e]
        /\ pc'[e]["ssh"] = "read" => pc[e]["ssh"] = "read"
        /\ ConnectPending(e)' => ConnectPending(e)
        /\ pc'[e]["ws"] = "write" <=> pc[e]["ws"] = "write"
        /\ Alive(e)' => Alive(e)

\* Quiet steps keep the invariant.
LEMMA QuietCore == Core /\ Quiet => Core'
<1> SUFFICES ASSUME Core, Quiet PROVE Core'
  OBVIOUS
<1> USE DEF Core, Quiet
<1>1. ForeignIdle' BY DEF ForeignIdle
<1>2. Sending' BY DEF Sending
<1>3. Receiving' BY DEF Receiving, Base, End
<1>4. Ordered' BY DEF Ordered, End
<1>5. Gapless' BY PeerFacts DEF Gapless, Joins, Base, End
<1>6. StreamIntegrity' BY DEF StreamIntegrity
<1>7. AckSound' /\ AckOrder' BY DEF AckSound, AckOrder
<1>8. Handshake' BY DEF Handshake, GoodFrames, ConnectOnce, BothOurs, Endpoint
<1> QED BY <1>1, <1>2, <1>3, <1>4, <1>5, <1>6, <1>7, <1>8

\* A goroutine that moves without doing anything to bytes or frames.
LEMMA QuietGoto ==
    ASSUME TypeOK, ForeignIdle, NEW e \in Endpoint, NEW g \in Goroutine, NEW l,
           Goto(e, g, l), pc[e][g] # "gone",
           UNCHANGED <<sid, rCount, wCount, inp, chunk, data, out, wire>>,
           link' = "up" => link = "up",
           \A a \in Endpoint : IsForeign(a)' = IsForeign(a),
           l \notin {"read", "write"}, pc[e][g] # "write",
           l \in {"lock", "send"} => pc[e][g] \in {"lock", "send"}
    PROVE  Quiet
<1> USE DEF TypeOK, Goto
<1>1. ASSUME NEW a \in Endpoint, IsForeign(a) PROVE pc'[a] = pc[a]
  BY <1>1 DEF ForeignIdle, IsForeign
<1>2. ASSUME NEW a \in Endpoint
      PROVE  /\ pc'[a]["ssh"] = "read" => pc[a]["ssh"] = "read"
             /\ pc'[a]["ws"] = "write" <=> pc[a]["ws"] = "write"
  BY DEF Goroutine
<1>3. ASSUME NEW a \in Endpoint
      PROVE  /\ ConnectPending(a)' => ConnectPending(a)
             /\ Alive(a)' => Alive(a)
  BY DEF Goroutine, ConnectPending, Alive
<1> QED BY <1>1, <1>2, <1>3 DEF Quiet

\* The quiet steps of the session.
LEMMA QuietSteps ==
    ASSUME TypeOK, ForeignIdle,
           \/ UNCHANGED vars \/ LinkBreaks \/ DeadlineClose \/ DeadlineSend
           \/ \E e \in Endpoint :
                \/ SshReadEOF(e) \/ SshReadFails(e) \/ WsReadFails(e) \/ Run(e)
                \/ \E g \in Goroutine : Lock(e, g) \/ LockFails(e, g)
    PROVE  Quiet
<1> USE DEF streamVars, runVars, IsForeign
<1>1. ASSUME UNCHANGED <<sid, rCount, wCount, pc, inp, chunk, data, out, wire, run>>,
             link' = "up" => link = "up"
      PROVE  Quiet
  BY <1>1 DEF Quiet, ConnectPending, Alive
<1>2. CASE UNCHANGED vars \/ LinkBreaks \/ DeadlineClose \/ DeadlineSend
  BY <1>2, <1>1 DEF vars, LinkBreaks, DeadlineClose, DeadlineSend
<1>3. ASSUME NEW e \in Endpoint, SshReadEOF(e) \/ SshReadFails(e) \/ WsReadFails(e)
      PROVE  Quiet
  <2> "ssh" \in Goroutine /\ "ws" \in Goroutine BY DEF Goroutine
  <2>1. CASE SshReadEOF(e) BY <2>1, QuietGoto DEF SshReadEOF
  <2>2. CASE SshReadFails(e) BY <2>2, QuietGoto DEF SshReadFails
  <2>3. CASE WsReadFails(e) BY <2>3, QuietGoto DEF WsReadFails
  <2> QED BY <1>3, <2>1, <2>2, <2>3
<1>4. ASSUME NEW e \in Endpoint, NEW g \in Goroutine, Lock(e, g) \/ LockFails(e, g)
      PROVE  Quiet
  BY <1>4, QuietGoto DEF Lock, LockFails
<1>5. ASSUME NEW e \in Endpoint, RunRecvErr(e) PROVE Quiet
  <2>1. PICK g \in Goroutine : pc[e][g] \in Err /\ Goto(e, g, "gone")
    BY <1>5 DEF RunRecvErr
  <2> QED BY <1>5, <2>1, QuietGoto DEF RunRecvErr, Err, TypeOK
<1>6. ASSUME NEW e \in Endpoint, RunClose(e) \/ RunSend(e) \/ CallerReturns(e) PROVE Quiet
  BY <1>6 DEF RunClose, RunSend, CallerReturns, Quiet, ConnectPending, Alive, TypeOK
<1> QED BY <1>2, <1>3, <1>4, <1>5, <1>6 DEF Run
-----------------------------------------------------------------------------
(***************************************************************************)
(* A frame is taken from the wire.                                         *)
(***************************************************************************)

\* What Receive does to the two queues.
LEMMA ReceiveShape ==
    ASSUME TypeOK, NEW e \in Endpoint, wire[Peer(e)] # << >>, Receive(e)
    PROVE  /\ wire'[e] = wire[e]
           /\ Len(wire[Peer(e)]) \in Nat \ {0}
           /\ Len(wire'[Peer(e)]) = Len(wire[Peer(e)]) - 1
           /\ DOMAIN wire[Peer(e)] = 1..Len(wire[Peer(e)])
           /\ DOMAIN wire'[Peer(e)] = 1..(Len(wire[Peer(e)]) - 1)
           /\ \A i \in DOMAIN wire'[Peer(e)] : wire'[Peer(e)][i] = wire[Peer(e)][i + 1]
           /\ Incoming(e) = wire[Peer(e)][1]
<1>1. Peer(e) \in Endpoint /\ Peer(e) # e BY PeerFacts
<1>2. wire[Peer(e)] \in Seq(Frame) BY <1>1 DEF TypeOK
<1>3. wire'[e] = wire[e] /\ wire'[Peer(e)] = Tail(wire[Peer(e)])
  BY <1>1 DEF TypeOK, Receive
<1> DEFINE s == wire[Peer(e)]
<1>4. /\ Len(s) \in Nat \ {0} /\ DOMAIN s = 1..Len(s) /\ Len(Tail(s)) = Len(s) - 1
      /\ DOMAIN Tail(s) = 1..(Len(s) - 1) /\ \A i \in 1..(Len(s) - 1) : Tail(s)[i] = s[i + 1]
      /\ Head(s) = s[1]
  BY <1>2, HeadTailProperties, LenProperties, EmptySeq
<1> QED BY <1>3, <1>4 DEF Incoming

\* Taking a frame leaves the other payloads in order.
LEMMA ReceiveOrdered ==
    ASSUME TypeOK, Ordered, NEW e \in Endpoint, wire[Peer(e)] # << >>, Receive(e),
           UNCHANGED <<inp, chunk>>
    PROVE  Ordered'
<1> DEFINE P(a) == \A i \in DOMAIN wire[a] : IsData(wire[a][i]) =>
                     /\ wire[a][i].lo + wire[a][i].n <= End(a)
                     /\ \A j \in DOMAIN wire[a] : IsData(wire[a][j]) /\ i < j
                            => wire[a][i].lo + wire[a][i].n <= wire[a][j].lo
<1>1. \A a \in Endpoint : End(a)' = End(a) BY DEF End
<1>2. P(e)' BY <1>1, ReceiveShape DEF Ordered, IsData
<1>3. P(Peer(e))'
  <2> SUFFICES ASSUME NEW i \in DOMAIN wire'[Peer(e)], IsData(wire'[Peer(e)][i])
               PROVE  /\ wire'[Peer(e)][i].lo + wire'[Peer(e)][i].n <= End(Peer(e))'
                      /\ \A j \in DOMAIN wire'[Peer(e)] : IsData(wire'[Peer(e)][j]) /\ i < j
                            => wire'[Peer(e)][i].lo + wire'[Peer(e)][i].n <= wire'[Peer(e)][j].lo
    BY DEF IsData
  <2>1. Peer(e) \in Endpoint BY PeerFacts
  <2>2. i + 1 \in DOMAIN wire[Peer(e)] /\ wire'[Peer(e)][i] = wire[Peer(e)][i + 1]
    BY ReceiveShape
  <2>3. ASSUME NEW j \in DOMAIN wire'[Peer(e)], i < j
        PROVE  j + 1 \in DOMAIN wire[Peer(e)] /\ wire'[Peer(e)][j] = wire[Peer(e)][j + 1] /\ i + 1 < j + 1
    BY <2>3, ReceiveShape
  <2> QED BY <1>1, <2>1, <2>2, <2>3 DEF Ordered, IsData
<1> QED BY <1>2, <1>3, PeerFacts DEF Ordered

\* What remains after a frame that is not DATA was taken, or after runWS has
\* ended, still has no gap.
LEMMA ReceiveGapless ==
    ASSUME TypeOK, Gapless, NEW e \in Endpoint, wire[Peer(e)] # << >>, Receive(e),
           UNCHANGED <<inp, chunk, data, out, link>>,
           \A a \in Endpoint : Alive(a)' => Alive(a),
           Alive(e)' => ~IsData(Incoming(e))
    PROVE  Gapless'
<1> DEFINE P(a) == Alive(Peer(a)) =>
                     /\ \A i \in DOMAIN wire[a] : IsData(wire[a][i])
                            => Joins(wire[a], Base(Peer(a)), wire[a][i].lo, i)
                     /\ link = "up" => Joins(wire[a], Base(Peer(a)), End(a), Len(wire[a]) + 1)
<1>1. \A a \in Endpoint : End(a)' = End(a) /\ Base(a)' = Base(a) BY DEF End, Base
<1>2. Peer(e) \in Endpoint /\ Peer(Peer(e)) = e BY PeerFacts
<1>3. P(e)' BY <1>1, <1>2, ReceiveShape DEF Gapless
<1>4. P(Peer(e))'
  <2> SUFFICES ASSUME Alive(e)'
               PROVE  /\ \A i \in DOMAIN wire'[Peer(e)] : IsData(wire'[Peer(e)][i])
                            => Joins(wire'[Peer(e)], Base(e), wire'[Peer(e)][i].lo, i)
                      /\ link = "up"
                            => Joins(wire'[Peer(e)], Base(e), End(Peer(e)), Len(wire'[Peer(e)]) + 1)
    BY <1>1, <1>2
  <2>1. ASSUME NEW m, NEW b, NEW k \in Int, Joins(wire[Peer(e)], m, b, k + 1)
        PROVE  Joins(wire'[Peer(e)], m, b, k)
    <3>1. CASE b = m BY <3>1 DEF Joins
    <3>2. ASSUME NEW j \in DOMAIN wire[Peer(e)], j < k + 1, IsData(wire[Peer(e)][j]),
                 b = wire[Peer(e)][j].lo + wire[Peer(e)][j].n
          PROVE  Joins(wire'[Peer(e)], m, b, k)
      <4>1. j # 1 BY <3>2, ReceiveShape DEF IsData
      <4>2. /\ j - 1 \in DOMAIN wire'[Peer(e)] /\ j - 1 < k
            /\ wire'[Peer(e)][j - 1] = wire[Peer(e)][j]
        BY <3>2, <4>1, ReceiveShape
      <4> QED BY <3>2, <4>2 DEF Joins
    <3> QED BY <2>1, <3>1, <3>2 DEF Joins
  <2>2. ASSUME NEW i \in DOMAIN wire'[Peer(e)], IsData(wire'[Peer(e)][i])
        PROVE  Joins(wire'[Peer(e)], Base(e), wire'[Peer(e)][i].lo, i)
    <3>1. /\ i \in Int /\ i + 1 \in DOMAIN wire[Peer(e)]
          /\ wire'[Peer(e)][i] = wire[Peer(e)][i + 1]
      BY ReceiveShape
    <3>2. Joins(wire[Peer(e)], Base(e), wire[Peer(e)][i + 1].lo, i + 1)
      BY <1>2, <2>2, <3>1 DEF Gapless
    <3> QED BY <2>1, <3>1, <3>2
  <2>3. ASSUME link = "up"
        PROVE  Joins(wire'[Peer(e)], Base(e), End(Peer(e)), Len(wire'[Peer(e)]) + 1)
    <3>1. Joins(wire[Peer(e)], Base(e), End(Peer(e)), Len(wire[Peer(e)]) + 1)
      BY <1>2, <2>3 DEF Gapless
    <3>2. Len(wire[Peer(e)]) \in Int /\ Len(wire'[Peer(e)]) + 1 = Len(wire[Peer(e)])
      BY ReceiveShape
    <3> QED BY <2>1, <3>1, <3>2
  <2> QED BY <2>2, <2>3
<1> QED BY <1>3, <1>4, PeerFacts DEF Gapless
\* readAck takes over what the oldest ACK says, or nothing.
LEMMA ReceiveAcks ==
    ASSUME TypeOK, AckSound, AckOrder, NEW e \in Endpoint, wire[Peer(e)] # << >>, Receive(e),
           UNCHANGED <<out, run>>,
           \/ UNCHANGED wCount
           \/ Incoming(e).tag = "ACK" /\ wCount' = [wCount EXCEPT ![e] = Incoming(e).ack]
    PROVE  AckSound' /\ AckOrder'
<1> DEFINE S(a) == \A i \in DOMAIN wire[a] :
                        wire[a][i].tag = "ACK" => wire[a][i].ack <= Len(out[a])
           O(a) == \A i \in DOMAIN wire[a] : wire[a][i].tag = "ACK" =>
                        /\ wCount[Peer(a)] <= wire[a][i].ack
                        /\ \A j \in DOMAIN wire[a] : wire[a][j].tag = "ACK" /\ i < j
                                => wire[a][i].ack <= wire[a][j].ack
<1>1. Peer(e) \in Endpoint /\ Peer(Peer(e)) = e /\ Peer(e) # e BY PeerFacts
<1>2. wCount'[Peer(e)] = wCount[Peer(e)] BY <1>1 DEF TypeOK
<1>3. ASSUME ~IsForeign(e) PROVE S(e)' /\ O(e)' /\ wCount'[Peer(e)] <= Len(out'[e])
  BY <1>2, <1>3, ReceiveShape DEF AckSound, AckOrder
<1>4. ASSUME ~IsForeign(Peer(e))
      PROVE  S(Peer(e))' /\ O(Peer(e))' /\ wCount'[e] <= Len(out'[Peer(e)])
  <2>1. \A i \in DOMAIN wire'[Peer(e)] :
            i + 1 \in DOMAIN wire[Peer(e)] /\ wire'[Peer(e)][i] = wire[Peer(e)][i + 1]
    BY ReceiveShape
  <2>2. 1 \in DOMAIN wire[Peer(e)] /\ wire[Peer(e)][1] = Incoming(e) BY ReceiveShape
  <2>3. S(Peer(e))' BY <1>1, <1>4, <2>1 DEF AckSound
  <2>4. \A i \in DOMAIN wire'[Peer(e)] : wire'[Peer(e)][i].tag = "ACK" =>
            \A j \in DOMAIN wire'[Peer(e)] : wire'[Peer(e)][j].tag = "ACK" /\ i < j
                => wire'[Peer(e)][i].ack <= wire'[Peer(e)][j].ack
    <3>1. \A i, j \in DOMAIN wire'[Peer(e)] : i < j => i + 1 < j + 1 BY ReceiveShape
    <3> QED BY <1>1, <1>4, <2>1, <3>1 DEF AckOrder
  <2>5. CASE UNCHANGED wCount
    BY <1>1, <1>4, <2>1, <2>3, <2>4, <2>5 DEF AckSound, AckOrder
  <2>6. CASE Incoming(e).tag = "ACK" /\ wCount' = [wCount EXCEPT ![e] = Incoming(e).ack]
    <3>1. wCount'[e] = Incoming(e).ack BY <2>6 DEF TypeOK
    <3>2. wCount'[e] <= Len(out'[Peer(e)]) BY <1>1, <1>4, <2>2, <2>6, <3>1 DEF AckSound
    <3>3. \A i \in DOMAIN wire'[Peer(e)] : 1 < i + 1 BY ReceiveShape
    <3>4. \A i \in DOMAIN wire'[Peer(e)] : wire'[Peer(e)][i].tag = "ACK"
            => wCount'[e] <= wire'[Peer(e)][i].ack
      BY <1>1, <1>4, <2>1, <2>2, <2>6, <3>1, <3>3 DEF AckOrder
    <3> QED BY <1>1, <2>3, <2>4, <3>2, <3>4
  <2> QED BY <2>5, <2>6
<1> QED BY <1>1, <1>3, <1>4, PeerFacts DEF AckSound, AckOrder, IsForeign

\* Our endpoints accept what our endpoints send.
LEMMA NotRejected ==
    ASSUME TypeOK, Handshake, BothOurs, NEW e \in Endpoint, wire[Peer(e)] # << >>
    PROVE  ~Rejected(e, Incoming(e))
<1>1. Peer(e) \in Endpoint BY PeerFacts
<1>2. wire[Peer(e)] \in Seq(Frame) BY <1>1 DEF TypeOK
<1>3. 1 \in DOMAIN wire[Peer(e)] /\ Incoming(e) = wire[Peer(e)][1]
  BY <1>2, EmptySeq, HeadTailProperties, LenProperties DEF Incoming
<1> QED BY <1>1, <1>3 DEF Handshake, GoodFrames, Rejected, IsData, Peer, Endpoint

\* readAck never sees our endpoint's ACKs go back.
LEMMA AckForward ==
    ASSUME TypeOK, Sending, Receiving, AckSound, AckOrder, NEW e \in Endpoint, ~IsForeign(Peer(e)),
           wire[Peer(e)] # << >>, Incoming(e).tag = "ACK"
    PROVE  ~(Diff(Incoming(e).ack, wCount[e]) < 0)
<1>1. Peer(e) \in Endpoint /\ Peer(Peer(e)) = e BY PeerFacts
<1>2. wire[Peer(e)] \in Seq(Frame) BY <1>1 DEF TypeOK
<1>3. 1 \in DOMAIN wire[Peer(e)] /\ Incoming(e) = wire[Peer(e)][1] /\ Incoming(e) \in Frame
  BY <1>2, EmptySeq, HeadTailProperties, LenProperties DEF Incoming
<1>4. Incoming(e).ack \in Nat BY <1>3, FrameFacts, CountAssumption
<1>5. wCount[e] <= Incoming(e).ack BY <1>1, <1>3 DEF AckOrder
<1>6. Incoming(e).ack <= Len(out[Peer(e)]) BY <1>1, <1>3 DEF AckSound
<1>7. Len(out[Peer(e)]) <= Longest
  <2>1. Base(Peer(e)) <= End(e) BY <1>1 DEF Receiving
  <2>2. End(e) <= Longest BY EndFacts
  <2> QED BY <1>1, <2>1, <2>2, CountFacts DEF Base
<1>8. /\ wCount[e] \in Nat /\ Len(out[Peer(e)]) \in Nat /\ Longest \in Nat BY <1>1, CountFacts
<1>9. Incoming(e).ack \in 0..Longest /\ wCount[e] \in 0..Incoming(e).ack
  BY <1>4, <1>5, <1>6, <1>7, <1>8
<1> QED BY <1>9, DiffForward

\* Taking a frame leaves the others good; a CONNECT_SUCCESS is the only one.
LEMMA ReceiveHandshake ==
    ASSUME TypeOK, Handshake, NEW e \in Endpoint, wire[Peer(e)] # << >>, Receive(e),
           UNCHANGED <<chunk, run>>,
           \A a \in Endpoint : ConnectPending(a)' => ConnectPending(a),
           \/ UNCHANGED sid
           \/ /\ e = "client" /\ Incoming(e).tag = "CONNECT_SUCCESS"
              /\ \E x : sid' = [sid EXCEPT ![e] = x]
    PROVE  Handshake'
<1> SUFFICES ASSUME BothOurs PROVE GoodFrames' /\ ConnectOnce'
  BY DEF Handshake, BothOurs, IsForeign
<1>1. GoodFrames /\ ConnectOnce BY DEF Handshake
<1>2. Peer(e) \in Endpoint /\ Peer(e) # e BY PeerFacts
<1>3. \A i \in DOMAIN wire'[Peer(e)] :
        /\ i + 1 \in DOMAIN wire[Peer(e)] /\ wire'[Peer(e)][i] = wire[Peer(e)][i + 1] /\ i + 1 # 1
        /\ \A j \in DOMAIN wire'[Peer(e)] : i + 1 = j + 1 => i = j
  BY ReceiveShape
<1>4. 1 \in DOMAIN wire[Peer(e)] /\ wire[Peer(e)][1] = Incoming(e) /\ wire'[e] = wire[e]
  BY ReceiveShape
<1>5. \A a \in Endpoint : \A i \in DOMAIN wire'[a] : \E k \in DOMAIN wire[a] : wire'[a][i] = wire[a][k]
  BY <1>3, <1>4, PeerFacts
<1>6. CASE UNCHANGED sid
  <2>1. GoodFrames' BY <1>1, <1>2, <1>3, <1>4, <1>6, PeerFacts DEF GoodFrames, IsData
  <2>2. ConnectOnce' BY <1>1, <1>5, <1>6 DEF ConnectOnce, Endpoint
  <2> QED BY <2>1, <2>2
<1>7. CASE e = "client" /\ Incoming(e).tag = "CONNECT_SUCCESS" /\ \E x : sid' = [sid EXCEPT ![e] = x]
  <2>1. Peer(e) = "server" BY <1>7 DEF Peer
  <2>2. \A i \in DOMAIN wire'["server"] : wire'["server"][i].tag # "CONNECT_SUCCESS"
    BY <1>1, <1>2, <1>3, <1>4, <1>7, <2>1 DEF GoodFrames
  <2>3. ~ConnectPending("server") BY <1>1, <1>4, <1>7, <2>1 DEF ConnectOnce
  <2>4. sid'["server"] = "sid" BY <1>1, <1>7 DEF ConnectOnce, TypeOK
  <2>5. ConnectOnce' BY <1>1, <2>3, <2>4 DEF ConnectOnce, Endpoint
  <2>6. GoodFrames' BY <1>1, <1>5, <2>2, PeerFacts DEF GoodFrames, IsData, Endpoint
  <2> QED BY <2>5, <2>6
<1> QED BY <1>6, <1>7
\* runWS finds fault with a frame and ends.
LEMMA RecvRejectedCore ==
    ASSUME TypeOK, Core, NEW e \in Endpoint, RecvRejected(e)
    PROVE  Core'
<1> USE DEF Core, RecvRejected, WsReady, streamVars, runVars
<1>1. ~Alive(e)' /\ pc'[e]["ssh"] = pc[e]["ssh"] /\ \A a \in Endpoint \ {e} : pc'[a] = pc[a]
  BY DEF TypeOK, Goto, Alive, Goroutine
<1>2. \A a \in Endpoint : /\ Alive(a)' => Alive(a)
                          /\ ConnectPending(a)' => ConnectPending(a)
                          /\ pc'[a]["ssh"] = pc[a]["ssh"]
                          /\ pc'[a]["ws"] = "write" => pc[a]["ws"] = "write"
  BY <1>1 DEF Alive, ConnectPending
<1>3. ForeignIdle' BY <1>1 DEF ForeignIdle, IsForeign, Goroutine
<1>4. Sending' BY <1>2 DEF Sending
<1>5. Receiving' BY <1>1 DEF Receiving, Base, End, Alive
<1>6. Ordered' BY ReceiveOrdered
<1>7. Gapless' BY <1>1, <1>2, ReceiveGapless
<1>8. StreamIntegrity' BY DEF StreamIntegrity
<1>9. AckSound' /\ AckOrder' BY ReceiveAcks
<1>10. Handshake' BY <1>2, ReceiveHandshake
<1> QED BY <1>3, <1>4, <1>5, <1>6, <1>7, <1>8, <1>9, <1>10

\* The client's first CONNECT_SUCCESS.
LEMMA RecvConnectCore ==
    ASSUME TypeOK, Core, NEW e \in Endpoint, RecvConnectSuccess(e)
    PROVE  Core'
<1> USE DEF Core, RecvConnectSuccess, WsReady, streamVars, runVars
<1>1. \A a \in Endpoint : (Alive(a)' <=> Alive(a)) /\ (ConnectPending(a)' <=> ConnectPending(a))
  BY DEF Alive, ConnectPending
<1>2. ForeignIdle' BY DEF ForeignIdle, IsForeign
<1>3. Sending' BY DEF Sending
<1>4. Receiving' BY <1>1 DEF Receiving, Base, End
<1>5. Ordered' BY ReceiveOrdered
<1>6. Gapless' BY <1>1, ReceiveGapless DEF IsData
<1>7. StreamIntegrity' BY DEF StreamIntegrity
<1>8. AckSound' /\ AckOrder' BY ReceiveAcks
<1>9. e = "client" BY DEF Rejected
<1>10. Handshake' BY <1>1, <1>9, ReceiveHandshake
<1> QED BY <1>2, <1>3, <1>4, <1>5, <1>6, <1>7, <1>8, <1>10

\* An ACK that readAck takes over, or finds going back.
LEMMA RecvAckCore ==
    ASSUME TypeOK, Core, NEW e \in Endpoint, RecvAck(e)
    PROVE  Core'
<1> USE DEF Core, RecvAck, WsReady, streamVars, runVars
<1>1. /\ pc'[e]["ssh"] = pc[e]["ssh"] /\ pc'[e]["ws"] \in {"read", "proto"}
      /\ \A a \in Endpoint \ {e} : pc'[a] = pc[a]
  BY DEF TypeOK, Goto, Goroutine
<1>2. \A a \in Endpoint : /\ Alive(a)' => Alive(a)
                          /\ ConnectPending(a)' => ConnectPending(a)
                          /\ pc'[a]["ssh"] = pc[a]["ssh"]
                          /\ pc'[a]["ws"] = "write" <=> pc[a]["ws"] = "write"
  BY <1>1 DEF Alive, ConnectPending
<1>3. ~IsForeign(e) BY DEF ForeignIdle, Goroutine
<1>4. ForeignIdle'
  <2>1. \A a \in Endpoint \ {e} : wCount'[a] = wCount[a] BY DEF TypeOK
  <2> QED BY <1>1, <1>3, <2>1 DEF ForeignIdle, IsForeign
<1>5. Sending' BY <1>2 DEF Sending
<1>6. Receiving' BY <1>2 DEF Receiving, Base, End
<1>7. Ordered' BY ReceiveOrdered
<1>8. Gapless' BY <1>2, ReceiveGapless DEF IsData
<1>9. StreamIntegrity' BY DEF StreamIntegrity
<1>10. AckSound' /\ AckOrder' BY ReceiveAcks
<1>11. Handshake' BY <1>2, ReceiveHandshake
<1> QED BY <1>4, <1>5, <1>6, <1>7, <1>8, <1>9, <1>10, <1>11

\* A foreign endpoint reads a frame.
LEMMA ForeignRecvCore ==
    ASSUME TypeOK, Core, NEW e \in Endpoint, ForeignRecv(e)
    PROVE  Core'
<1> USE DEF Core, ForeignRecv, streamVars, runVars
<1>1. \A a \in Endpoint : (Alive(a)' <=> Alive(a)) /\ (ConnectPending(a)' <=> ConnectPending(a))
  BY DEF Alive, ConnectPending
<1>2. ForeignIdle' BY DEF ForeignIdle, IsForeign
<1>3. Sending' BY DEF Sending
<1>4. Receiving' BY <1>1 DEF Receiving, Base, End
<1>5. Ordered' BY ReceiveOrdered
<1>6. ~Alive(e) BY DEF ForeignIdle, Alive, Goroutine
<1>7. Gapless' BY <1>1, <1>6, ReceiveGapless
<1>8. StreamIntegrity' BY DEF StreamIntegrity
<1>9. AckSound' /\ AckOrder' BY ReceiveAcks
<1>10. Handshake' BY <1>1, ReceiveHandshake
<1> QED BY <1>2, <1>3, <1>4, <1>5, <1>7, <1>8, <1>9, <1>10
\* The payload that arrives is the next one: readData counts it, and it
\* follows on what was written.
LEMMA RecvDataCore ==
    ASSUME TypeOK, Core, NEW e \in Endpoint, RecvData(e)
    PROVE  Core'
<1> DEFINE p == Peer(e)
           f == wire[Peer(e)][1]
<1>1. p \in Endpoint /\ Peer(p) = e /\ p # e BY PeerFacts
<1>2. wire[p] # << >> /\ Receive(e) /\ Incoming(e) \in Frame
  BY ReceiveType DEF RecvData, WsReady
<1>3. 1 \in DOMAIN wire[p] /\ Incoming(e) = f BY <1>2, ReceiveShape
<1>4. /\ IsData(f) /\ f.lo \in Nat /\ f.n \in Nat /\ f.n \in 1..MaxArrayLen
  BY <1>2, <1>3, FrameFacts, LongestFacts, SizeAssumption DEF RecvData, Rejected, IsData
<1>5. Alive(e) /\ pc[e]["ws"] = "read" BY DEF RecvData, WsReady, Alive
<1>6. data[e].n = 0 /\ rCount[e] = Base(e) /\ Base(e) = Len(out[e])
  BY <1>5, CountFacts DEF Core, Receiving, Base
<1>7. f.lo = Base(e)
  <2>1. Joins(wire[p], Base(e), f.lo, 1) BY <1>1, <1>3, <1>4, <1>5 DEF Core, Gapless
  <2>2. \A j \in DOMAIN wire[p] : ~(j < 1) BY <1>2, ReceiveShape
  <2> QED BY <2>1, <2>2 DEF Joins
<1>8. f.lo + f.n <= End(p) BY <1>1, <1>3, <1>4 DEF Core, Ordered
<1>9. (rCount[e] + f.n) % CountMod = f.lo + f.n
  <2>1. f.lo + f.n < CountMod /\ f.lo + f.n \in Nat
    <3>1. End(p) <= Longest BY <1>1, EndFacts DEF Core
    <3>2. End(p) \in Nat /\ Longest \in Nat /\ Longest < CountMod BY <1>1, CountFacts
    <3> QED BY <1>4, <1>8, <3>1, <3>2, CountAssumption
  <2> QED BY <1>6, <1>7, <2>1, NoWrap
<1>10. /\ rCount'[e] = f.lo + f.n /\ data'[e] = [lo |-> f.lo, n |-> f.n] /\ pc'[e]["ws"] = "write"
       /\ pc'[e]["ssh"] = pc[e]["ssh"]
       /\ \A a \in Endpoint \ {e} : rCount'[a] = rCount[a] /\ data'[a] = data[a] /\ pc'[a] = pc[a]
       /\ UNCHANGED <<sid, wCount, inp, chunk, out, link, run>>
  BY <1>3, <1>9 DEF RecvData, TypeOK, Goto, Goroutine, runVars
<1>11. /\ \A a \in Endpoint : End(a)' = End(a) /\ (Alive(a)' <=> Alive(a))
       /\ Base(e)' = f.lo + f.n /\ Base(p)' = Base(p)
  BY <1>1, <1>4, <1>5, <1>6, <1>7, <1>10 DEF End, Base, Alive
<1>12. ForeignIdle'
  <2>1. ~IsForeign(e) BY <1>5 DEF Core, ForeignIdle, Goroutine
  <2> QED BY <1>10, <2>1 DEF Core, ForeignIdle, IsForeign
<1>13. Sending' BY <1>10 DEF Core, Sending
<1>14. Receiving'
  <2>1. /\ data'[e].lo = Len(out'[e]) /\ rCount'[e] = Base(e)' /\ Base(e)' <= End(p)'
    BY <1>1, <1>6, <1>7, <1>8, <1>10, <1>11
  <2>2. ASSUME NEW a \in Endpoint, a # e
        PROVE  /\ pc'[a]["ws"] # "write" => data'[a].n = 0
               /\ pc'[a]["ws"] = "write" => data'[a].lo = Len(out'[a])
               /\ Alive(a)' => rCount'[a] = Base(a)'
               /\ Base(a)' <= End(Peer(a))'
    <3>1. Base(a)' = Base(a) /\ Peer(a) \in Endpoint BY <1>10, <2>2, PeerFacts DEF Base
    <3> QED BY <1>10, <1>11, <2>2, <3>1 DEF Core, Receiving
  <2> QED BY <1>1, <1>10, <2>1, <2>2 DEF Receiving
<1>15. Ordered' BY <1>2, <1>10, ReceiveOrdered DEF Core
<1>16. Gapless'
  <2>1. ASSUME Alive(p)'
        PROVE  /\ \A i \in DOMAIN wire'[e] : IsData(wire'[e][i])
                    => Joins(wire'[e], Base(p)', wire'[e][i].lo, i)
               /\ link' = "up" => Joins(wire'[e], Base(p)', End(e)', Len(wire'[e]) + 1)
    <3>1. wire'[e] = wire[e] BY <1>2, ReceiveShape
    <3> QED BY <1>10, <1>11, <2>1, <3>1, <1>1 DEF Core, Gapless
  <2>2. ASSUME NEW b, NEW k \in Int, Joins(wire[p], Base(e), b, k + 1), b # Base(e)
        PROVE  Joins(wire'[p], f.lo + f.n, b, k)
    <3>1. PICK j \in DOMAIN wire[p] :
                j < k + 1 /\ IsData(wire[p][j]) /\ b = wire[p][j].lo + wire[p][j].n
      BY <2>2 DEF Joins
    <3>2. CASE j = 1 BY <3>1, <3>2 DEF Joins
    <3>3. CASE j # 1
      <4>1. j - 1 \in DOMAIN wire'[p] /\ j - 1 < k /\ wire'[p][j - 1] = wire[p][j]
        BY <1>2, <3>1, <3>3, ReceiveShape
      <4> QED BY <3>1, <4>1 DEF Joins
    <3> QED BY <3>2, <3>3
  <2>3. ASSUME NEW i \in DOMAIN wire'[p], IsData(wire'[p][i])
        PROVE  Joins(wire'[p], f.lo + f.n, wire'[p][i].lo, i)
    <3>1. /\ i \in Int /\ i + 1 \in DOMAIN wire[p] /\ wire'[p][i] = wire[p][i + 1] /\ 1 < i + 1
      BY <1>2, ReceiveShape
    <3>2. Joins(wire[p], Base(e), wire[p][i + 1].lo, i + 1)
      BY <1>1, <1>5, <2>3, <3>1 DEF Core, Gapless
    <3>3. f.lo + f.n <= wire[p][i + 1].lo
      BY <1>1, <1>3, <1>4, <2>3, <3>1 DEF Core, Ordered
    <3>4. wire[p][i + 1].lo # Base(e)
      BY <1>4, <1>7, <3>3
    <3> QED BY <2>2, <3>1, <3>2, <3>4
  <2>4. ASSUME link' = "up" PROVE Joins(wire'[p], f.lo + f.n, End(p), Len(wire'[p]) + 1)
    <3>1. Joins(wire[p], Base(e), End(p), Len(wire[p]) + 1)
      BY <1>1, <1>5, <1>10, <2>4 DEF Core, Gapless
    <3>2. Len(wire[p]) \in Int /\ Len(wire'[p]) + 1 = Len(wire[p]) BY <1>2, ReceiveShape
    <3>3. End(p) # Base(e) BY <1>1, <1>4, <1>7, <1>8, CountFacts
    <3> QED BY <2>2, <3>1, <3>2, <3>3
  <2> QED BY <1>1, <1>11, <2>1, <2>3, <2>4, PeerFacts DEF Gapless
<1>17. StreamIntegrity' BY <1>10 DEF Core, StreamIntegrity
<1>18. AckSound' /\ AckOrder' BY <1>2, <1>10, ReceiveAcks DEF Core
<1>19. Handshake'
  <2>1. \A a \in Endpoint : ConnectPending(a)' => ConnectPending(a) BY <1>10 DEF ConnectPending
  <2> QED BY <1>2, <1>10, <2>1, ReceiveHandshake DEF Core
<1> QED BY <1>12, <1>13, <1>14, <1>15, <1>16, <1>17, <1>18, <1>19 DEF Core
-----------------------------------------------------------------------------
(***************************************************************************)
(* A frame is put on the wire.                                             *)
(***************************************************************************)

\* e puts f on the wire.
Sent(e, f) == wire' = [wire EXCEPT ![e] = Append(@, f)]

\* The queue grows by f at its end, the other one stays.
LEMMA SentShape ==
    ASSUME TypeOK, NEW e \in Endpoint, NEW f \in Frame, Sent(e, f)
    PROVE  /\ wire'[Peer(e)] = wire[Peer(e)]
           /\ Len(wire[e]) \in Nat
           /\ Len(wire'[e]) = Len(wire[e]) + 1
           /\ DOMAIN wire[e] = 1..Len(wire[e])
           /\ DOMAIN wire'[e] = 1..(Len(wire[e]) + 1)
           /\ \A i \in DOMAIN wire[e] : wire'[e][i] = wire[e][i]
           /\ wire'[e][Len(wire[e]) + 1] = f
<1>1. Peer(e) \in Endpoint /\ Peer(e) # e BY PeerFacts
<1>2. wire[e] \in Seq(Frame) BY DEF TypeOK
<1>3. wire'[Peer(e)] = wire[Peer(e)] /\ wire'[e] = Append(wire[e], f)
  BY <1>1 DEF TypeOK, Sent
<1>4. /\ Len(wire[e]) \in Nat /\ DOMAIN wire[e] = 1..Len(wire[e])
      /\ Append(wire[e], f) \in Seq(Frame) /\ Len(Append(wire[e], f)) = Len(wire[e]) + 1
      /\ \A i \in 1..Len(wire[e]) : Append(wire[e], f)[i] = wire[e][i]
      /\ Append(wire[e], f)[Len(wire[e]) + 1] = f
  BY <1>2, AppendProperties, LenProperties
<1> QED BY <1>3, <1>4, LenProperties

\* A frame on the wire after sending was there before, or is the new one.
LEMMA SentCases ==
    ASSUME TypeOK, NEW e \in Endpoint, NEW f \in Frame, Sent(e, f)
    PROVE  \A i \in DOMAIN wire'[e] :
                \/ i \in DOMAIN wire[e] /\ wire'[e][i] = wire[e][i] /\ i < Len(wire[e]) + 1
                \/ i = Len(wire[e]) + 1 /\ wire'[e][i] = f
  BY SentShape

\* A payload that is sent starts where the stream stands and moves it on.
Extends(e, f) ==
    \/ ~IsData(f) /\ End(e)' = End(e)
    \/ IsData(f) /\ f.lo = End(e) /\ End(e)' = f.lo + f.n

\* It lies after all that is on the wire.
LEMMA SentOrdered ==
    ASSUME TypeOK, Ordered, NEW e \in Endpoint, NEW f \in Frame, Sent(e, f), Extends(e, f),
           End(Peer(e))' = End(Peer(e))
    PROVE  Ordered'
<1>1. ASSUME NEW i \in DOMAIN wire'[Peer(e)], IsData(wire'[Peer(e)][i])
      PROVE  /\ wire'[Peer(e)][i].lo + wire'[Peer(e)][i].n <= End(Peer(e))'
             /\ \A j \in DOMAIN wire'[Peer(e)] : IsData(wire'[Peer(e)][j]) /\ i < j
                    => wire'[Peer(e)][i].lo + wire'[Peer(e)][i].n <= wire'[Peer(e)][j].lo
  BY <1>1, SentShape, PeerFacts DEF Ordered
<1>2. ASSUME IsData(f) PROVE f.lo \in Nat /\ f.n \in Nat
  BY <1>2, FrameFacts, LongestFacts, SizeAssumption DEF IsData
<1>3. ASSUME NEW i \in DOMAIN wire[e], IsData(wire[e][i])
      PROVE  wire[e][i].lo + wire[e][i].n <= End(e) /\ wire[e][i].lo + wire[e][i].n \in Nat
  <2>1. wire[e][i] \in Frame BY ElementOfSeq, SentShape DEF TypeOK
  <2> QED BY <1>3, <2>1, FrameFacts, LongestFacts, SizeAssumption DEF Ordered, IsData
<1>4. End(e) \in Nat /\ (IsData(f) => f.lo = End(e)) /\ End(e)' \in Nat /\ End(e) <= End(e)'
      /\ (IsData(f) => f.lo + f.n <= End(e)')
  BY <1>2, CountFacts DEF Extends
<1>5. ASSUME NEW i \in DOMAIN wire'[e], IsData(wire'[e][i])
      PROVE  /\ wire'[e][i].lo + wire'[e][i].n <= End(e)'
             /\ \A j \in DOMAIN wire'[e] : IsData(wire'[e][j]) /\ i < j
                    => wire'[e][i].lo + wire'[e][i].n <= wire'[e][j].lo
  <2>1. CASE i = Len(wire[e]) + 1 /\ wire'[e][i] = f
    <3>1. \A j \in DOMAIN wire'[e] : ~(i < j) BY <2>1, SentShape
    <3> QED BY <1>4, <1>5, <2>1, <3>1
  <2>2. CASE i \in DOMAIN wire[e] /\ wire'[e][i] = wire[e][i]
    <3>1. wire'[e][i].lo + wire'[e][i].n <= End(e)' BY <1>3, <1>4, <1>5, <2>2
    <3>2. ASSUME NEW j \in DOMAIN wire'[e], IsData(wire'[e][j]), i < j
          PROVE  wire'[e][i].lo + wire'[e][i].n <= wire'[e][j].lo
      <4>1. CASE j = Len(wire[e]) + 1 /\ wire'[e][j] = f
        BY <1>3, <1>4, <1>5, <2>2, <3>2, <4>1
      <4>2. CASE j \in DOMAIN wire[e] /\ wire'[e][j] = wire[e][j]
        BY <1>5, <2>2, <3>2, <4>2 DEF Ordered
      <4> QED BY <4>1, <4>2, SentCases
    <3> QED BY <3>1, <3>2
  <2> QED BY <2>1, <2>2, SentCases
<1> QED BY <1>1, <1>5, PeerFacts DEF Ordered
\* A payload that is sent follows on what is on the wire.
LEMMA SentGapless ==
    ASSUME TypeOK, Gapless, NEW e \in Endpoint, NEW f \in Frame, Sent(e, f), Extends(e, f),
           link = "up", End(Peer(e))' = End(Peer(e)),
           \A a \in Endpoint : Base(a)' = Base(a) /\ (Alive(a)' => Alive(a))
    PROVE  Gapless'
<1>1. Peer(e) \in Endpoint /\ Peer(Peer(e)) = e /\ Peer(e) # e BY PeerFacts
<1>2. ASSUME Alive(e)'
      PROVE  /\ \A i \in DOMAIN wire'[Peer(e)] : IsData(wire'[Peer(e)][i])
                    => Joins(wire'[Peer(e)], Base(e)', wire'[Peer(e)][i].lo, i)
             /\ Joins(wire'[Peer(e)], Base(e)', End(Peer(e))', Len(wire'[Peer(e)]) + 1)
  BY <1>1, <1>2, SentShape DEF Gapless
<1>3. ASSUME NEW m, NEW b, NEW k \in Int, NEW l \in Int, k <= l, Joins(wire[e], m, b, k)
      PROVE  Joins(wire'[e], m, b, l)
  <2>1. CASE b = m BY <2>1 DEF Joins
  <2>2. ASSUME NEW j \in DOMAIN wire[e], j < k, IsData(wire[e][j]), b = wire[e][j].lo + wire[e][j].n
        PROVE  Joins(wire'[e], m, b, l)
    <3>1. j \in DOMAIN wire'[e] /\ wire'[e][j] = wire[e][j] /\ j < l BY <1>3, <2>2, SentShape
    <3> QED BY <2>2, <3>1 DEF Joins
  <2> QED BY <1>3, <2>1, <2>2 DEF Joins
<1>4. ASSUME Alive(Peer(e))'
      PROVE  /\ \A i \in DOMAIN wire'[e] : IsData(wire'[e][i])
                    => Joins(wire'[e], Base(Peer(e))', wire'[e][i].lo, i)
             /\ Joins(wire'[e], Base(Peer(e))', End(e)', Len(wire'[e]) + 1)
  <2> DEFINE m == Base(Peer(e))
  <2>1. Alive(Peer(e)) /\ Base(Peer(e))' = m BY <1>1, <1>4
  <2>2. Joins(wire[e], m, End(e), Len(wire[e]) + 1) BY <2>1 DEF Gapless
  <2>3. Len(wire[e]) + 1 \in Int /\ Len(wire'[e]) + 1 = (Len(wire[e]) + 1) + 1
    BY SentShape
  <2>4. ASSUME NEW i \in DOMAIN wire'[e], IsData(wire'[e][i])
        PROVE  Joins(wire'[e], m, wire'[e][i].lo, i)
    <3>1. CASE i = Len(wire[e]) + 1 /\ wire'[e][i] = f
      <4>1. f.lo = End(e) BY <2>4, <3>1 DEF Extends
      <4> QED BY <1>3, <2>2, <2>3, <3>1, <4>1
    <3>2. CASE i \in DOMAIN wire[e] /\ wire'[e][i] = wire[e][i]
      <4>1. Joins(wire[e], m, wire[e][i].lo, i) BY <2>1, <2>4, <3>2 DEF Gapless
      <4>2. i \in Int /\ i <= i BY SentShape
      <4> QED BY <1>3, <3>2, <4>1, <4>2
    <3> QED BY <3>1, <3>2, SentCases
  <2>5. Joins(wire'[e], m, End(e)', Len(wire'[e]) + 1)
    <3>1. CASE ~IsData(f) /\ End(e)' = End(e)
      <4>1. Len(wire'[e]) + 1 \in Int /\ Len(wire[e]) + 1 <= Len(wire'[e]) + 1 BY <2>3
      <4> QED BY <1>3, <2>2, <2>3, <3>1, <4>1
    <3>2. CASE IsData(f) /\ End(e)' = f.lo + f.n
      <4>1. /\ Len(wire[e]) + 1 \in DOMAIN wire'[e] /\ wire'[e][Len(wire[e]) + 1] = f
            /\ Len(wire[e]) + 1 < Len(wire'[e]) + 1
        BY SentShape
      <4> QED BY <3>2, <4>1 DEF Joins
    <3> QED BY <3>1, <3>2 DEF Extends
  <2> QED BY <2>1, <2>4, <2>5
<1> QED BY <1>1, <1>2, <1>4, PeerFacts DEF Gapless

\* An ACK that covers all that was written is the highest so far.
LEMMA SentAcks ==
    ASSUME TypeOK, AckSound, AckOrder, NEW e \in Endpoint, NEW f \in Frame, Sent(e, f),
           UNCHANGED <<out, wCount, run>>,
           ~IsForeign(e) /\ f.tag = "ACK" => f.ack = Len(out[e])
    PROVE  AckSound' /\ AckOrder'
<1>1. Peer(e) \in Endpoint /\ Peer(Peer(e)) = e /\ Peer(e) # e BY PeerFacts
<1>2. ASSUME ~IsForeign(Peer(e))
      PROVE  /\ \A i \in DOMAIN wire'[Peer(e)] : wire'[Peer(e)][i].tag = "ACK" =>
                    /\ wire'[Peer(e)][i].ack <= Len(out'[Peer(e)])
                    /\ wCount'[e] <= wire'[Peer(e)][i].ack
                    /\ \A j \in DOMAIN wire'[Peer(e)] : wire'[Peer(e)][j].tag = "ACK" /\ i < j
                            => wire'[Peer(e)][i].ack <= wire'[Peer(e)][j].ack
             /\ wCount'[e] <= Len(out'[Peer(e)])
  BY <1>1, <1>2, SentShape DEF AckSound, AckOrder
<1>3. ASSUME ~IsForeign(e)
      PROVE  /\ \A i \in DOMAIN wire'[e] : wire'[e][i].tag = "ACK" =>
                    /\ wire'[e][i].ack <= Len(out'[e])
                    /\ wCount'[Peer(e)] <= wire'[e][i].ack
                    /\ \A j \in DOMAIN wire'[e] : wire'[e][j].tag = "ACK" /\ i < j
                            => wire'[e][i].ack <= wire'[e][j].ack
             /\ wCount'[Peer(e)] <= Len(out'[e])
  <2>1. wCount[Peer(e)] <= Len(out[e]) BY <1>3 DEF AckSound
  <2>2. Len(out[e]) \in Nat BY CountFacts
  <2> SUFFICES ASSUME NEW i \in DOMAIN wire'[e], wire'[e][i].tag = "ACK"
               PROVE  /\ wire'[e][i].ack <= Len(out[e])
                      /\ wCount[Peer(e)] <= wire'[e][i].ack
                      /\ \A j \in DOMAIN wire'[e] : wire'[e][j].tag = "ACK" /\ i < j
                            => wire'[e][i].ack <= wire'[e][j].ack
    BY <2>1
  <2>3. CASE i = Len(wire[e]) + 1 /\ wire'[e][i] = f
    <3>1. \A j \in DOMAIN wire'[e] : ~(i < j) BY <2>3, SentShape
    <3> QED BY <1>3, <2>1, <2>2, <2>3, <3>1
  <2>4. CASE i \in DOMAIN wire[e] /\ wire'[e][i] = wire[e][i]
    <3>1. ASSUME NEW j \in DOMAIN wire'[e], wire'[e][j].tag = "ACK", i < j
          PROVE  wire'[e][i].ack <= wire'[e][j].ack
      <4>1. CASE j = Len(wire[e]) + 1 /\ wire'[e][j] = f
        BY <1>3, <2>4, <3>1, <4>1 DEF AckSound
      <4>2. CASE j \in DOMAIN wire[e] /\ wire'[e][j] = wire[e][j]
        BY <1>3, <2>4, <3>1, <4>2 DEF AckOrder
      <4> QED BY <4>1, <4>2, SentCases
    <3> QED BY <1>3, <2>4, <3>1 DEF AckSound, AckOrder
  <2> QED BY <2>3, <2>4, SentCases
<1> QED BY <1>1, <1>2, <1>3, PeerFacts DEF AckSound, AckOrder, IsForeign

\* A foreign endpoint sends what it likes, DATA in the order of its stream.
LEMMA ForeignSendCore ==
    ASSUME TypeOK, Core, NEW e \in Endpoint, ForeignSend(e)
    PROVE  Core'
<1> USE DEF runVars
<1>1. PICK f \in ForeignFrame(e) :
        /\ Sent(e, f)
        /\ IF f.tag = "DATA"
             THEN inp[e] + f.n <= StreamLen[e] /\ inp' = [inp EXCEPT ![e] = inp[e] + f.n]
             ELSE UNCHANGED inp
  BY DEF ForeignSend, Sent
<1>2. f \in Frame /\ (IsData(f) => f.lo = inp[e] /\ f.n \in Nat)
  <2>1. inp[e] \in 0..Longest BY DEF TypeOK
  <2>2. f \in Frame BY <2>1 DEF ForeignFrame, Frame, Sid
  <2> QED BY <2>2, SizeAssumption DEF ForeignFrame, IsData
<1>3. IsForeign(e) /\ link = "up" /\ chunk[e].n = 0
  BY DEF ForeignSend, Core, ForeignIdle
<1>4. UNCHANGED <<sid, rCount, wCount, pc, chunk, data, out, link, run>> BY DEF ForeignSend
<1>5. /\ IsData(f) => inp'[e] = inp[e] + f.n /\ inp'[e] <= StreamLen[e]
      /\ ~IsData(f) => inp'[e] = inp[e]
      /\ \A a \in Endpoint \ {e} : inp'[a] = inp[a]
  BY <1>1 DEF TypeOK, IsData
<1>6. End(e) = inp[e] /\ End(e)' = inp'[e] /\ Extends(e, f)
  BY <1>2, <1>3, <1>4, <1>5 DEF End, Extends
<1>7. End(e) <= End(e)' /\ \A a \in Endpoint \ {e} : End(a)' = End(a)
  BY <1>2, <1>4, <1>5, <1>6, CountFacts DEF End
<1>8. \A a \in Endpoint : /\ Base(a)' = Base(a) /\ (Alive(a)' <=> Alive(a))
                          /\ End(a) <= End(a)' /\ End(a) \in Nat /\ Base(a) \in Nat
  BY <1>4, <1>7, CountFacts DEF Base, Alive
<1>9. \A a \in Endpoint : End(a)' \in Nat
  BY <1>2, <1>5, <1>6, <1>7, CountFacts
<1>10. ForeignIdle' BY <1>4 DEF Core, ForeignIdle, IsForeign
<1>11. Sending' BY <1>3, <1>4, <1>5 DEF Core, Sending
<1>12. Receiving'
  <2>1. \A a \in Endpoint : Base(a)' <= End(Peer(a))' BY <1>8, <1>9, PeerFacts DEF Core, Receiving
  <2> QED BY <1>4, <1>8, <2>1 DEF Core, Receiving
<1>13. Ordered' BY <1>1, <1>2, <1>6, <1>7, PeerFacts, SentOrdered DEF Core
<1>14. Gapless' BY <1>1, <1>2, <1>3, <1>6, <1>7, <1>8, PeerFacts, SentGapless DEF Core
<1>15. StreamIntegrity' BY <1>4 DEF Core, StreamIntegrity
<1>16. AckSound' /\ AckOrder' BY <1>1, <1>2, <1>3, <1>4, SentAcks DEF Core
<1>17. Handshake' BY <1>3, <1>4 DEF Handshake, BothOurs, IsForeign
<1> QED BY <1>10, <1>11, <1>12, <1>13, <1>14, <1>15, <1>16, <1>17 DEF Core
\* The message that runWS of e sends is an ACK of all it has written; that
\* of runSSH is CONNECT_SUCCESS or the next payload.
LEMMA MessageFacts ==
    ASSUME TypeOK, Core, NEW e \in Endpoint, NEW g \in Goroutine, pc[e][g] = "send"
    PROVE  /\ ~IsForeign(e)
           /\ g = "ws" => Message(e, g) = [tag |-> "ACK", ack |-> Len(out[e])]
           /\ g = "ssh" /\ chunk[e].n = 0
                => Message(e, g) = [tag |-> "CONNECT_SUCCESS", sid |-> sid[e]]
           /\ g = "ssh" /\ chunk[e].n > 0
                => Message(e, g) = [tag |-> "DATA", lo |-> End(e), n |-> inp[e] - End(e)]
<1>1. ~IsForeign(e) BY DEF Core, ForeignIdle
<1>2. CASE g = "ws"
  <2>1. rCount[e] = Len(out[e]) BY <1>2, CountFacts DEF Core, Receiving, Base, Alive
  <2> QED BY <1>1, <1>2, <2>1 DEF Message, sendAck
<1>3. CASE g = "ssh" /\ chunk[e].n = 0 BY <1>1, <1>3 DEF Message, sendConnect
<1>4. CASE g = "ssh" /\ chunk[e].n > 0
  <2>1. End(e) = chunk[e].lo /\ inp[e] - End(e) = chunk[e].n
    BY <1>4, CountFacts DEF Core, Sending, End
  <2>2. Message(e, g) = copySSH(e) BY <1>4, CountFacts DEF Message
  <2> QED BY <1>1, <1>4, <2>1, <2>2 DEF copySSH
<1> QED BY <1>1, <1>2, <1>3, <1>4, CountFacts DEF Goroutine

\* What cancel does to the buffer of runSSH.
LEMMA CancelFacts ==
    ASSUME TypeOK, Core, NEW e \in Endpoint, NEW g \in Goroutine, Cancel(e, g), UNCHANGED inp
    PROVE  /\ \A a \in Endpoint \ {e} : chunk'[a] = chunk[a] /\ End(a)' = End(a)
           /\ g = "ws" => chunk'[e] = chunk[e] /\ End(e)' = End(e)
           /\ g = "ssh" => chunk'[e].n = 0 /\ End(e)' = inp[e]
           /\ \A a \in Endpoint : End(a) <= End(a)' /\ End(a)' <= inp[a] /\ End(a)' \in Nat
<1>1. /\ \A a \in Endpoint \ {e} : chunk'[a] = chunk[a]
      /\ g = "ws" => chunk'[e] = chunk[e]
      /\ g = "ssh" => chunk'[e].n = 0
  BY DEF TypeOK, Cancel, Nothing
<1>2. /\ \A a \in Endpoint \ {e} : End(a)' = End(a)
      /\ g = "ws" => End(e)' = End(e)
      /\ g = "ssh" => End(e)' = inp[e]
  BY <1>1 DEF End
<1>3. \A a \in Endpoint : End(a) <= inp[a] /\ End(a) \in Nat /\ inp[a] \in Nat
  BY EndFacts, CountFacts DEF Core
<1> QED BY <1>1, <1>2, <1>3 DEF Goroutine

\* A message that is closed, sent or not, leaves the two streams as they are.
LEMMA CancelStreams ==
    ASSUME TypeOK, Core, NEW e \in Endpoint, NEW g \in Goroutine, Cancel(e, g),
           pc[e][g] = "send", NEW l \in {"read", "io"}, Goto(e, g, l),
           UNCHANGED <<rCount, wCount, inp, data, out, run>>
    PROVE  /\ ForeignIdle' /\ Sending' /\ Receiving' /\ StreamIntegrity'
           /\ \A a \in Endpoint : /\ Base(a)' = Base(a) /\ (Alive(a)' => Alive(a))
                                  /\ ConnectPending(a)' => ConnectPending(a)
<1>1. /\ pc'[e][g] = l /\ (\A h \in Goroutine \ {g} : pc'[e][h] = pc[e][h])
      /\ \A a \in Endpoint \ {e} : pc'[a] = pc[a]
  BY DEF TypeOK, Goto
<1>2. ~IsForeign(e) BY DEF Core, ForeignIdle
<1>3. ForeignIdle' BY <1>1, <1>2, CancelFacts DEF Core, ForeignIdle, IsForeign
<1>4. Sending'
  <2>1. \A a \in Endpoint : pc'[a]["ssh"] = "read" => chunk'[a].n = 0
    BY <1>1, CancelFacts DEF Core, Sending, Goroutine
  <2>2. \A a \in Endpoint : chunk'[a].n > 0 => chunk'[a] = chunk[a]
    BY CancelFacts DEF Goroutine
  <2> QED BY <2>1, <2>2 DEF Core, Sending
<1>5. \A a \in Endpoint : /\ Base(a)' = Base(a) /\ (Alive(a)' => Alive(a))
                          /\ ConnectPending(a)' => ConnectPending(a)
                          /\ pc'[a]["ws"] = "write" <=> pc[a]["ws"] = "write"
  <2>1. \A a \in Endpoint : Base(a)' = Base(a) BY DEF Base
  <2>2. \A a \in Endpoint : (Alive(a)' => Alive(a)) /\ (pc'[a]["ws"] = "write" <=> pc[a]["ws"] = "write")
    BY <1>1 DEF Alive, Goroutine
  <2>3. \A a \in Endpoint : ConnectPending(a)' => ConnectPending(a)
    BY <1>1, CancelFacts DEF ConnectPending, Goroutine
  <2> QED BY <2>1, <2>2, <2>3
<1>6. Receiving'
  <2>1. \A a \in Endpoint : Base(a)' <= End(Peer(a))'
    BY <1>5, CancelFacts, CountFacts, PeerFacts DEF Core, Receiving
  <2> QED BY <1>5, <2>1 DEF Core, Receiving
<1>7. StreamIntegrity' BY DEF Core, StreamIntegrity
<1> QED BY <1>3, <1>4, <1>5, <1>6, <1>7

\* wsWriter has sent a message.
LEMMA SendCore ==
    ASSUME TypeOK, Core, NEW e \in Endpoint, NEW g \in Goroutine, Send(e, g)
    PROVE  Core'
<1> DEFINE m == Message(e, g)
<1>1. /\ pc[e][g] = "send" /\ link = "up" /\ Sent(e, m) /\ Cancel(e, g) /\ Goto(e, g, "read")
      /\ UNCHANGED <<sid, rCount, wCount, inp, data, out, link, run>>
  BY DEF Send, Sent, runVars
<1>2. m \in Frame BY MessageType
<1>3. Extends(e, m)
  <2>1. CASE g = "ws" BY <1>1, <2>1, MessageFacts, CancelFacts DEF Extends, IsData
  <2>2. CASE g = "ssh" /\ chunk[e].n = 0
    <3>1. End(e) = inp[e] BY <2>2 DEF End
    <3> QED BY <1>1, <2>2, <3>1, MessageFacts, CancelFacts DEF Extends, IsData
  <2>3. CASE g = "ssh" /\ chunk[e].n > 0
    <3>1. End(e)' = inp[e] /\ m = [tag |-> "DATA", lo |-> End(e), n |-> inp[e] - End(e)]
      BY <1>1, <2>3, MessageFacts, CancelFacts
    <3> QED BY <3>1, CountFacts DEF Extends, IsData
  <2> QED BY <2>1, <2>2, <2>3, CountFacts DEF Goroutine
<1>4. /\ ForeignIdle' /\ Sending' /\ Receiving' /\ StreamIntegrity'
      /\ \A a \in Endpoint : /\ Base(a)' = Base(a) /\ (Alive(a)' => Alive(a))
                             /\ ConnectPending(a)' => ConnectPending(a)
  BY <1>1, CancelStreams
<1>5. End(Peer(e))' = End(Peer(e)) BY <1>1, CancelFacts, PeerFacts
<1>6. Ordered' BY <1>1, <1>2, <1>3, <1>5, SentOrdered DEF Core
<1>7. Gapless' BY <1>1, <1>2, <1>3, <1>4, <1>5, SentGapless DEF Core
<1>8. m.tag = "ACK" => m.ack = Len(out[e])
  BY <1>1, MessageFacts, CountFacts DEF Goroutine
<1>9. AckSound' /\ AckOrder' BY <1>1, <1>2, <1>8, SentAcks DEF Core
<1>10. Handshake'
  <2> SUFFICES ASSUME BothOurs PROVE GoodFrames' /\ ConnectOnce'
    BY <1>1 DEF Handshake, BothOurs, IsForeign
  <2>1. GoodFrames /\ ConnectOnce BY DEF Core, Handshake
  <2>2. CASE m.tag = "CONNECT_SUCCESS"
    <3>1. g = "ssh" /\ chunk[e].n = 0 /\ m.sid = sid[e]
      BY <1>1, <2>2, MessageFacts, CountFacts DEF Goroutine
    <3>2. ConnectPending(e) BY <1>1, <3>1 DEF ConnectPending
    <3>3. e = "server" /\ m.sid = "sid" /\ sid["client"] = "nil"
      BY <2>1, <3>1, <3>2 DEF ConnectOnce, Endpoint
    <3>4. GoodFrames'
      BY <1>1, <1>2, <2>1, <2>2, <3>2, <3>3, SentCases, SentShape, PeerFacts
         DEF GoodFrames, ConnectOnce, IsData
    <3>5. ~ConnectPending("server")'
      BY <1>1, <3>1, <3>3 DEF ConnectPending, Goto, TypeOK, Goroutine
    <3>6. \A a \in Endpoint : chunk'[a].n <= MaxArrayLen
      BY <1>1, <2>1, <3>1, CancelFacts, SizeAssumption DEF ConnectOnce
    <3> QED BY <1>1, <1>4, <2>1, <3>4, <3>5, <3>6 DEF ConnectOnce, Endpoint
  <2>3. CASE m.tag # "CONNECT_SUCCESS"
    <3>1. m.tag \in {"DATA", "ACK"} /\ (IsData(m) => m.n \in 1..MaxArrayLen)
      <4>1. CASE g = "ws" BY <1>1, <4>1, MessageFacts DEF IsData
      <4>2. CASE g = "ssh"
        <5>1. chunk[e].n > 0 BY <1>1, <2>3, <4>2, MessageFacts, CountFacts
        <5>2. inp[e] - End(e) = chunk[e].n /\ chunk[e].n \in Nat
          BY <5>1, CountFacts DEF Core, Sending, End
        <5>3. chunk[e].n \in 1..MaxArrayLen
          BY <2>1, <5>1, <5>2, SizeAssumption DEF ConnectOnce
        <5> QED BY <1>1, <4>2, <5>1, <5>2, <5>3, MessageFacts DEF IsData
      <4> QED BY <4>1, <4>2 DEF Goroutine
    <3>2. GoodFrames'
      BY <1>1, <1>2, <2>1, <2>3, <3>1, SentCases, SentShape, PeerFacts DEF GoodFrames, IsData
    <3>3. \A a \in Endpoint : chunk'[a].n <= MaxArrayLen
      BY <1>1, <2>1, CancelFacts, SizeAssumption DEF ConnectOnce, Goroutine
    <3>4. \A i \in DOMAIN wire'["server"] : wire'["server"][i].tag = "CONNECT_SUCCESS"
            => \E k \in DOMAIN wire["server"] : wire["server"][k].tag = "CONNECT_SUCCESS"
      BY <1>1, <1>2, <2>3, SentCases, SentShape DEF Endpoint, Peer
    <3> QED BY <1>1, <1>4, <2>1, <3>2, <3>3, <3>4 DEF ConnectOnce, Endpoint
  <2> QED BY <2>2, <2>3
<1> QED BY <1>4, <1>6, <1>7, <1>9, <1>10 DEF Core
\* The message was lost with the connection.
LEMMA SendLostCore ==
    ASSUME TypeOK, Core, NEW e \in Endpoint, NEW g \in Goroutine, SendLost(e, g)
    PROVE  Core'
<1>1. PICK l \in {"read", "io"} : Goto(e, g, l) BY DEF SendLost
<1>2. /\ pc[e][g] = "send" /\ link = "down" /\ Cancel(e, g)
      /\ UNCHANGED <<sid, rCount, wCount, inp, data, out, wire, link, run>>
  BY DEF SendLost, runVars
<1>3. /\ ForeignIdle' /\ Sending' /\ Receiving' /\ StreamIntegrity'
      /\ \A a \in Endpoint : /\ Base(a)' = Base(a) /\ (Alive(a)' => Alive(a))
                             /\ ConnectPending(a)' => ConnectPending(a)
  BY <1>1, <1>2, CancelStreams
<1>4. Ordered'
  <2>1. \A a \in Endpoint : \A i \in DOMAIN wire[a] : IsData(wire[a][i])
            => wire[a][i].lo + wire[a][i].n <= End(a)'
    <3> SUFFICES ASSUME NEW a \in Endpoint, NEW i \in DOMAIN wire[a], IsData(wire[a][i])
                 PROVE  wire[a][i].lo + wire[a][i].n <= End(a)'
      OBVIOUS
    <3>1. wire[a][i] \in Frame
      <4>1. wire[a] \in Seq(Frame) BY DEF TypeOK
      <4> QED BY <4>1, LenProperties, ElementOfSeq
    <3>2. wire[a][i].lo \in Nat /\ wire[a][i].n \in Nat
      BY <3>1, FrameFacts, LongestFacts, SizeAssumption DEF IsData
    <3>3. wire[a][i].lo + wire[a][i].n <= End(a) BY DEF Core, Ordered
    <3>4. End(a) <= End(a)' /\ End(a) \in Nat /\ End(a)' \in Nat BY <1>2, CancelFacts, CountFacts
    <3> QED BY <3>2, <3>3, <3>4
  <2> QED BY <1>2, <2>1 DEF Core, Ordered
<1>5. Gapless' BY <1>2, <1>3, PeerFacts DEF Core, Gapless
<1>6. AckSound' /\ AckOrder' BY <1>2 DEF Core, AckSound, AckOrder, IsForeign
<1>7. Handshake'
  <2> SUFFICES ASSUME BothOurs PROVE GoodFrames' /\ ConnectOnce'
    BY <1>2 DEF Handshake, BothOurs, IsForeign
  <2>1. GoodFrames /\ ConnectOnce BY DEF Core, Handshake
  <2>2. \A a \in Endpoint : chunk'[a].n <= MaxArrayLen
    BY <1>2, <2>1, CancelFacts, SizeAssumption DEF ConnectOnce, Goroutine
  <2> QED BY <1>2, <1>3, <2>1, <2>2 DEF GoodFrames, ConnectOnce, Endpoint
<1> QED BY <1>3, <1>4, <1>5, <1>6, <1>7 DEF Core

\* runSSH has read a payload: the reader hands out all it took from the
\* connection.
LEMMA SshReadCore ==
    ASSUME TypeOK, Core, NEW e \in Endpoint, SshRead(e)
    PROVE  Core'
<1>1. PICK k \in 1..MaxArrayLen :
        /\ inp[e] + k <= StreamLen[e]
        /\ inp' = [inp EXCEPT ![e] = inp[e] + k]
        /\ chunk' = [chunk EXCEPT ![e] = [lo |-> inp[e], n |-> k]]
  <2>1. (IF MaxArrayLen >= BufioSize THEN MaxArrayLen ELSE BufioSize) = MaxArrayLen
    BY SizeAssumption
  <2>2. PICK k \in 1..MaxArrayLen :
            /\ inp[e] + k <= StreamLen[e]
            /\ inp' = [inp EXCEPT ![e] = inp[e] + k]
            /\ chunk' = [chunk EXCEPT ![e] =
                            [lo |-> inp[e], n |-> IF k <= MaxArrayLen THEN k ELSE MaxArrayLen]]
    BY <2>1 DEF SshRead
  <2>3. k <= MaxArrayLen BY SizeAssumption
  <2> QED BY <2>2, <2>3
<1>2. /\ pc[e]["ssh"] = "read" /\ Goto(e, "ssh", "lock")
      /\ UNCHANGED <<sid, rCount, wCount, data, out, wire, link, run>>
  BY DEF SshRead, runVars
<1>3. /\ pc'[e]["ssh"] = "lock" /\ pc'[e]["ws"] = pc[e]["ws"]
      /\ \A a \in Endpoint \ {e} : pc'[a] = pc[a]
  BY <1>2 DEF TypeOK, Goto, Goroutine
<1>4. /\ inp'[e] = inp[e] + k /\ chunk'[e].lo = inp[e] /\ chunk'[e].n = k /\ k > 0 /\ inp[e] \in Nat
      /\ \A a \in Endpoint \ {e} : inp'[a] = inp[a] /\ chunk'[a] = chunk[a]
  BY <1>1, CountFacts DEF TypeOK
<1>5. chunk[e].n = 0 /\ ~IsForeign(e)
  BY <1>2 DEF Core, Sending, ForeignIdle, Goroutine
<1>6. \A a \in Endpoint : /\ End(a)' = End(a) /\ Base(a)' = Base(a)
                          /\ (Alive(a)' <=> Alive(a))
                          /\ pc'[a]["ws"] = pc[a]["ws"]
                          /\ ConnectPending(a)' => ConnectPending(a)
  <2>1. \A a \in Endpoint : End(a)' = End(a) BY <1>4, <1>5 DEF End
  <2>2. \A a \in Endpoint : Base(a)' = Base(a) /\ (Alive(a)' <=> Alive(a)) /\ pc'[a]["ws"] = pc[a]["ws"]
    BY <1>2, <1>3 DEF Base, Alive
  <2>3. \A a \in Endpoint : ConnectPending(a)' => ConnectPending(a)
    BY <1>3, <1>4 DEF ConnectPending
  <2> QED BY <2>1, <2>2, <2>3
<1>7. ForeignIdle' BY <1>2, <1>3, <1>4, <1>5 DEF Core, ForeignIdle, IsForeign
<1>8. Sending' BY <1>1, <1>3, <1>4 DEF Core, Sending
<1>9. Receiving' BY <1>2, <1>6, PeerFacts DEF Core, Receiving
<1>10. Ordered' BY <1>2, <1>6 DEF Core, Ordered
<1>11. Gapless' BY <1>2, <1>6, PeerFacts DEF Core, Gapless
<1>12. StreamIntegrity' /\ AckSound' /\ AckOrder'
  BY <1>2 DEF Core, StreamIntegrity, AckSound, AckOrder, IsForeign
<1>13. Handshake'
  <2> SUFFICES ASSUME BothOurs PROVE GoodFrames' /\ ConnectOnce'
    BY <1>2 DEF Handshake, BothOurs, IsForeign
  <2>1. GoodFrames /\ ConnectOnce BY DEF Core, Handshake
  <2>2. \A a \in Endpoint : chunk'[a].n <= MaxArrayLen
    BY <1>4, <2>1 DEF ConnectOnce
  <2> QED BY <1>2, <1>6, <2>1, <2>2 DEF GoodFrames, ConnectOnce, Endpoint
<1> QED BY <1>7, <1>8, <1>9, <1>10, <1>11, <1>12, <1>13 DEF Core

\* <= is transitive.
LEMMA LeqTrans == \A x, y, z \in Nat : x <= y /\ y <= z => x <= z
  OBVIOUS

\* runWS has written the payload, or k bytes of it before the write failed.
LEMMA WriteCore ==
    ASSUME TypeOK, Core, NEW e \in Endpoint, NEW k \in Nat, NEW l \in {"lock", "io"},
           pc[e]["ws"] = "write", k <= data[e].n, l = "lock" => k = data[e].n,
           out' = [out EXCEPT ![e] = @ \o Bytes(data[e], k)],
           data' = [data EXCEPT ![e] = Nothing], Goto(e, "ws", l),
           UNCHANGED <<sid, rCount, wCount, inp, chunk, wire, link, run>>
    PROVE  Core'
<1>1. /\ pc'[e]["ws"] = l /\ pc'[e]["ssh"] = pc[e]["ssh"]
      /\ \A a \in Endpoint \ {e} : pc'[a] = pc[a] /\ out'[a] = out[a] /\ data'[a] = data[a]
      /\ data'[e].n = 0
  BY DEF TypeOK, Goto, Goroutine, Nothing
<1>2. out'[e] = out[e] \o Bytes(data[e], k) BY DEF TypeOK
<1>3. data[e].lo = Len(out[e]) /\ ~IsForeign(e) /\ Alive(e)
  BY DEF Core, Receiving, ForeignIdle, Alive, Goroutine
<1>4. data[e].lo + data[e].n <= Longest
  <2>1. Peer(e) \in Endpoint BY PeerFacts
  <2>2. End(Peer(e)) <= Longest /\ Base(e) <= End(Peer(e)) BY <2>1, EndFacts DEF Core, Receiving
  <2> QED BY <1>3, <2>1, <2>2, CountFacts DEF Base
<1>5. /\ Len(out'[e]) = Len(out[e]) + k
      /\ \A i \in 1..Len(out[e]) : out'[e][i] = out[e][i]
      /\ \A i \in (Len(out[e]) + 1)..(Len(out[e]) + k) : out'[e][i] = i
      /\ DOMAIN out'[e] = 1..(Len(out[e]) + k)
  <2>1. out[e] \in Seq(1..Longest) /\ data[e] \in Payload BY DEF TypeOK
  <2>2. k \in 0..data[e].n BY CountFacts
  <2> DEFINE s == out[e] \o Bytes(data[e], k)
  <2>3. /\ s \in Seq(1..Longest) /\ Len(s) = Len(out[e]) + k
        /\ \A i \in 1..Len(out[e]) : s[i] = out[e][i]
        /\ \A i \in (Len(out[e]) + 1)..(Len(out[e]) + k) : s[i] = i
    BY <1>3, <1>4, <2>1, <2>2, WriteFacts
  <2>4. DOMAIN s = 1..Len(s) BY <2>3, LenProperties
  <2> QED BY <1>2, <2>3, <2>4
<1>6. /\ Base(e)' <= Base(e) /\ Base(e)' \in Nat /\ (l = "lock" => Base(e)' = Base(e))
      /\ \A a \in Endpoint \ {e} : Base(a)' = Base(a)
  BY <1>1, <1>5, CountFacts DEF Base
<1>7. \A a \in Endpoint : End(a)' = End(a) /\ (Alive(a)' => Alive(a))
                          /\ (ConnectPending(a)' <=> ConnectPending(a))
  BY <1>1, <1>3 DEF End, Alive, ConnectPending
<1>8. Alive(e)' => l = "lock" BY <1>1 DEF Alive
<1>9. ForeignIdle' BY <1>1, <1>3 DEF Core, ForeignIdle, IsForeign
<1>10. Sending' BY <1>1 DEF Core, Sending
<1>11. Receiving'
  <2>1. \A a \in Endpoint : Base(a)' <= End(Peer(a))'
    <3> SUFFICES ASSUME NEW a \in Endpoint PROVE Base(a)' <= End(Peer(a))'
      OBVIOUS
    <3>1. Base(a)' <= Base(a) /\ Base(a)' \in Nat /\ Base(a) \in Nat BY <1>6, CountFacts
    <3>2. Base(a) <= End(Peer(a)) BY DEF Core, Receiving
    <3>3. End(Peer(a))' = End(Peer(a)) /\ End(Peer(a)) \in Nat BY <1>7, CountFacts, PeerFacts
    <3> QED BY <3>1, <3>2, <3>3
  <2>2. \A a \in Endpoint : Alive(a)' => rCount'[a] = Base(a)'
    BY <1>6, <1>7, <1>8 DEF Core, Receiving
  <2> QED BY <1>1, <2>1, <2>2 DEF Core, Receiving
<1>12. Ordered' BY <1>7 DEF Core, Ordered
<1>13. Gapless'
  <2>1. \A a \in Endpoint : Alive(a)' => Base(a)' = Base(a) BY <1>6, <1>8
  <2> QED BY <1>7, <2>1, PeerFacts DEF Core, Gapless
<1>14. StreamIntegrity'
  <2>1. \A i \in DOMAIN out'[e] : out'[e][i] = i
    <3> SUFFICES ASSUME NEW i \in DOMAIN out'[e] PROVE out'[e][i] = i
      OBVIOUS
    <3>1. CASE i \in 1..Len(out[e]) BY <1>5, <3>1, CountFacts DEF Core, StreamIntegrity
    <3>2. CASE i \notin 1..Len(out[e]) BY <1>5, <3>2, CountFacts
    <3> QED BY <3>1, <3>2
  <2> QED BY <1>1, <2>1 DEF Core, StreamIntegrity
<1>15. AckSound'
  <2>1. \A a \in Endpoint : Len(out[a]) <= Len(out'[a]) /\ Len(out[a]) \in Nat /\ Len(out'[a]) \in Nat
    <3> SUFFICES ASSUME NEW a \in Endpoint
                 PROVE  Len(out[a]) <= Len(out'[a]) /\ Len(out[a]) \in Nat /\ Len(out'[a]) \in Nat
      OBVIOUS
    <3>1. Len(out[a]) \in Nat BY CountFacts
    <3>2. CASE a = e BY <1>5, <3>1, <3>2
    <3>3. CASE a # e BY <1>1, <3>1, <3>3
    <3> QED BY <3>2, <3>3
  <2>2. ASSUME NEW a \in Endpoint, ~IsForeign(a)
        PROVE  /\ \A i \in DOMAIN wire[a] : wire[a][i].tag = "ACK" => wire[a][i].ack <= Len(out'[a])
               /\ wCount[Peer(a)] <= Len(out'[a])
    <3>0. Len(out[a]) <= Len(out'[a]) /\ Len(out[a]) \in Nat /\ Len(out'[a]) \in Nat BY <2>1
    <3>1. wCount[Peer(a)] <= Len(out'[a])
      <4>1. wCount[Peer(a)] \in Nat BY CountFacts, PeerFacts
      <4>2. wCount[Peer(a)] <= Len(out[a]) BY <2>2 DEF Core, AckSound
      <4> QED BY <3>0, <4>1, <4>2, LeqTrans, Zenon
    <3>2. ASSUME NEW i \in DOMAIN wire[a], wire[a][i].tag = "ACK"
          PROVE  wire[a][i].ack <= Len(out'[a])
      <4>1. wire[a] \in Seq(Frame) BY DEF TypeOK
      <4>2. wire[a][i] \in Frame BY <4>1, LenProperties, ElementOfSeq
      <4>3. wire[a][i].ack \in Nat BY <3>2, <4>2, FrameFacts, CountAssumption
      <4>4. wire[a][i].ack <= Len(out[a]) BY <2>2, <3>2 DEF Core, AckSound
      <4> QED BY <3>0, <4>3, <4>4, LeqTrans, Zenon
    <3> QED BY <3>1, <3>2
  <2> QED BY <2>2 DEF AckSound, IsForeign
<1>16. AckOrder' BY DEF Core, AckOrder, IsForeign
<1>17. Handshake' BY <1>7 DEF Core, Handshake, GoodFrames, ConnectOnce, BothOurs, IsForeign, Endpoint
<1> QED BY <1>9, <1>10, <1>11, <1>12, <1>13, <1>14, <1>15, <1>16, <1>17 DEF Core
\* The two ways a write to the SSH connection ends.
LEMMA SshWriteCore ==
    ASSUME TypeOK, Core, NEW e \in Endpoint, SshWrite(e) \/ SshWriteFails(e)
    PROVE  Core'
<1>1. data[e].n \in Nat /\ out[e] \in Seq(1..Longest) /\ data[e] \in Payload
  BY CountFacts DEF TypeOK
<1>2. /\ pc[e]["ws"] = "write" /\ data' = [data EXCEPT ![e] = Nothing]
      /\ UNCHANGED <<sid, rCount, wCount, inp, chunk, wire, link, run>>
  BY DEF SshWrite, SshWriteFails, runVars
<1>3. CASE SshWrite(e)
  <2>1. data[e].n <= data[e].n BY <1>1
  <2>2. out' = [out EXCEPT ![e] = @ \o Bytes(data[e], data[e].n)] /\ Goto(e, "ws", "lock")
    BY <1>3 DEF SshWrite
  <2> QED BY <1>1, <1>2, <2>1, <2>2, WriteCore
<1>4. CASE SshWriteFails(e)
  <2>1. ASSUME NEW k \in Nat, k <= data[e].n, out' = [out EXCEPT ![e] = @ \o Bytes(data[e], k)]
        PROVE  Core'
    BY <1>2, <1>4, <2>1, WriteCore DEF SshWriteFails
  <2>2. ASSUME NEW k \in 0..(data[e].n - 1), out' = [out EXCEPT ![e] = @ \o Bytes(data[e], k)]
        PROVE  Core'
    <3>1. k \in Nat /\ k <= data[e].n BY <1>1
    <3> QED BY <2>1, <2>2, <3>1
  <2>3. ASSUME UNCHANGED out PROVE Core'
    <3>1. Bytes(data[e], 0) = << >> BY <1>1 DEF Bytes, Payload
    <3>2. out[e] \o << >> = out[e] BY <1>1, ConcatEmptySeq
    <3>3. out' = [out EXCEPT ![e] = @ \o Bytes(data[e], 0)] BY <2>3, <3>1, <3>2 DEF TypeOK
    <3>4. 0 \in Nat /\ 0 <= data[e].n BY <1>1
    <3> QED BY <2>1, <3>3, <3>4
  <2> QED BY <1>4, <2>2, <2>3 DEF SshWriteFails
<1> QED BY <1>3, <1>4

-----------------------------------------------------------------------------
(***************************************************************************)
(* The invariant.                                                          *)
(***************************************************************************)

\* Every step keeps the bytes and frames in order.
LEMMA CoreNext == TypeOK /\ Core /\ [Next]_vars => Core'
<1> SUFFICES ASSUME TypeOK, Core, [Next]_vars PROVE Core'
  OBVIOUS
<1>1. ForeignIdle BY DEF Core
<1>2. ASSUME Quiet PROVE Core' BY <1>2, QuietCore
<1>3. CASE UNCHANGED vars \/ LinkBreaks \/ DeadlineClose \/ DeadlineSend BY <1>1, <1>2, <1>3, QuietSteps
<1>4. ASSUME NEW e \in Endpoint, RunSSH(e) \/ SshReadEOF(e) PROVE Core'
  <2> "ssh" \in Goroutine BY DEF Goroutine
  <2>1. CASE \/ SshReadEOF(e) \/ SshReadFails(e) \/ Lock(e, "ssh") \/ LockFails(e, "ssh")
    BY <1>1, <1>2, <2>1, QuietSteps
  <2>2. CASE SshRead(e) BY <2>2, SshReadCore
  <2>3. CASE Send(e, "ssh") BY <2>3, SendCore
  <2>4. CASE SendLost(e, "ssh") BY <2>4, SendLostCore
  <2> QED BY <1>4, <2>1, <2>2, <2>3, <2>4 DEF RunSSH
<1>5. ASSUME NEW e \in Endpoint, RunWS(e) PROVE Core'
  <2> "ws" \in Goroutine BY DEF Goroutine
  <2>1. CASE WsReadFails(e) \/ Lock(e, "ws") \/ LockFails(e, "ws")
    BY <1>1, <1>2, <2>1, QuietSteps
  <2>2. CASE RecvRejected(e) BY <2>2, RecvRejectedCore
  <2>3. CASE RecvConnectSuccess(e) BY <2>3, RecvConnectCore
  <2>4. CASE RecvData(e) BY <2>4, RecvDataCore
  <2>5. CASE RecvAck(e) BY <2>5, RecvAckCore
  <2>6. CASE SshWrite(e) \/ SshWriteFails(e) BY <2>6, SshWriteCore
  <2>7. CASE Send(e, "ws") BY <2>7, SendCore
  <2>8. CASE SendLost(e, "ws") BY <2>8, SendLostCore
  <2> QED BY <1>5, <2>1, <2>2, <2>3, <2>4, <2>5, <2>6, <2>7, <2>8 DEF RunWS
<1>6. ASSUME NEW e \in Endpoint, Run(e) \/ ForeignSend(e) \/ ForeignRecv(e) PROVE Core'
  <2>1. CASE Run(e) BY <1>1, <1>2, <2>1, QuietSteps
  <2> QED BY <1>6, <2>1, ForeignSendCore, ForeignRecvCore
<1> QED BY <1>3, <1>4, <1>5, <1>6 DEF Next

\* Only readAck and a rejected command report a protocol error, and neither
\* does between our endpoints.
LEMMA NoProtocolErrorNext ==
    TypeOK /\ Core /\ NoProtocolError /\ [Next]_vars => NoProtocolError'
<1> SUFFICES ASSUME TypeOK, Core, NoProtocolError, [Next]_vars PROVE NoProtocolError'
  OBVIOUS
<1>1. ASSUME UNCHANGED <<run, runErr>>, NEW e \in Endpoint, NEW g \in Goroutine, NEW l, l # "proto",
             Goto(e, g, l) \/ UNCHANGED pc
      PROVE  NoProtocolError'
  <2>1. ASSUME NEW a \in Endpoint, NEW h \in Goroutine, pc[a][h] # "proto" PROVE pc'[a][h] # "proto"
    <3>1. CASE UNCHANGED pc BY <2>1, <3>1
    <3>2. CASE Goto(e, g, l)
      <4>1. CASE a = e /\ h = g BY <1>1, <3>2, <4>1 DEF Goto, TypeOK
      <4>2. CASE a # e \/ h # g BY <2>1, <3>2, <4>2 DEF Goto, TypeOK
      <4> QED BY <4>1, <4>2
    <3> QED BY <1>1, <3>1, <3>2
  <2> QED BY <1>1, <2>1 DEF NoProtocolError, IsForeign
<1>2. ASSUME NEW e \in Endpoint, RunSSH(e) \/ SshReadEOF(e)
      PROVE  NoProtocolError'
  <2> "ssh" \in Goroutine BY DEF Goroutine
  <2>1. PICK l \in {"read", "lock", "send", "EOF", "io"} : Goto(e, "ssh", l)
    BY <1>2 DEF RunSSH, SshReadEOF, SshRead, SshReadFails, Lock, LockFails, Send, SendLost
  <2>2. UNCHANGED <<run, runErr>>
    BY <1>2 DEF RunSSH, SshReadEOF, SshRead, SshReadFails, Lock, LockFails, Send, SendLost, runVars
  <2> QED BY <1>1, <2>1, <2>2
<1>3. ASSUME NEW e \in Endpoint, RunWS(e) PROVE NoProtocolError'
  <2> "ws" \in Goroutine BY DEF Goroutine
  <2>1. UNCHANGED <<run, runErr>>
    BY <1>3 DEF RunWS, RecvRejected, RecvConnectSuccess, RecvData, RecvAck, WsReadFails,
        SshWrite, SshWriteFails, Lock, LockFails, Send, SendLost, runVars
  <2>2. CASE BothOurs /\ RecvRejected(e)
    BY <2>2, NotRejected DEF Core, RecvRejected, WsReady
  <2>3. CASE BothOurs /\ RecvAck(e)
    <3>1. ~IsForeign(Peer(e)) BY <2>3, PeerFacts DEF BothOurs
    <3>2. UNCHANGED pc BY <2>3, <3>1, AckForward DEF Core, RecvAck, WsReady
    <3> QED BY <1>1, <2>1, <3>2
  <2>4. CASE ~BothOurs BY <2>1, <2>4 DEF NoProtocolError, BothOurs, IsForeign
  <2>5. CASE /\ ~RecvRejected(e) /\ ~RecvAck(e)
    <3>1. UNCHANGED pc \/ \E l \in {"read", "write", "lock", "send", "io"} : Goto(e, "ws", l)
      BY <1>3, <2>5 DEF RunWS, RecvConnectSuccess, RecvData, WsReadFails,
            SshWrite, SshWriteFails, Lock, LockFails, Send, SendLost
    <3>2. "io" # "proto" OBVIOUS
    <3> QED BY <1>1, <2>1, <3>1, <3>2
  <2> QED BY <2>2, <2>3, <2>4, <2>5
<1>4. ASSUME NEW e \in Endpoint, RunRecvErr(e) PROVE NoProtocolError'
  <2>1. PICK g \in Goroutine : /\ runErr' = [runErr EXCEPT ![e] = pc[e][g]]
                               /\ Goto(e, g, "gone")
    BY <1>4 DEF RunRecvErr
  <2>2. \A a \in Endpoint : IsForeign(a)' = IsForeign(a)
    BY <1>4 DEF RunRecvErr, IsForeign, TypeOK
  <2>3. ASSUME BothOurs
        PROVE  \A a \in Endpoint : runErr'[a] # "proto" /\ \A h \in Goroutine : pc'[a][h] # "proto"
    <3>1. \A a \in Endpoint : runErr[a] # "proto" /\ \A h \in Goroutine : pc[a][h] # "proto"
      BY <2>3 DEF NoProtocolError, BothOurs
    <3>2. \A a \in Endpoint : runErr'[a] # "proto" BY <2>1, <3>1 DEF TypeOK
    <3>3. \A a \in Endpoint : \A h \in Goroutine : pc'[a][h] # "proto" BY <2>1, <3>1 DEF Goto, TypeOK
    <3> QED BY <3>2, <3>3
  <2> QED BY <2>2, <2>3 DEF NoProtocolError, BothOurs
<1>5. ASSUME UNCHANGED <<pc, runErr>>, \A a \in Endpoint : IsForeign(a)' = IsForeign(a)
      PROVE  NoProtocolError'
  BY <1>5 DEF NoProtocolError
<1>6. ASSUME NEW e \in Endpoint, RunClose(e) \/ RunSend(e) \/ CallerReturns(e) PROVE NoProtocolError'
  BY <1>5, <1>6 DEF RunClose, RunSend, CallerReturns, IsForeign, TypeOK
<1>7. ASSUME NEW e \in Endpoint, ForeignSend(e) \/ ForeignRecv(e) PROVE NoProtocolError'
  BY <1>5, <1>7 DEF ForeignSend, ForeignRecv, IsForeign, runVars
<1>8. CASE UNCHANGED vars \/ LinkBreaks \/ DeadlineClose \/ DeadlineSend
  BY <1>5, <1>8 DEF vars, LinkBreaks, DeadlineClose, DeadlineSend, IsForeign, runVars
<1> QED BY <1>2, <1>3, <1>4, <1>6, <1>7, <1>8 DEF Next, Run

\* A session starts with nothing under way.
LEMMA InvInit == Init => Inv
<1> SUFFICES ASSUME Init PROVE Inv
  OBVIOUS
<1>1. TypeOK BY TypeInit
<1>2. OneWriter BY DEF Init, OneWriter, Endpoint, Goroutine
<1>3. \A e \in Endpoint : /\ chunk[e].n = 0 /\ data[e].n = 0 /\ inp[e] = 0 /\ rCount[e] = 0
                          /\ wCount[e] = 0 /\ out[e] = << >> /\ wire[e] = << >>
                          /\ Len(out[e]) = 0 /\ Len(wire[e]) = 0
                          /\ DOMAIN out[e] = {} /\ DOMAIN wire[e] = {}
  BY DEF Init, Nothing
<1>4. \A e \in Endpoint : Base(e) = 0 /\ End(e) = 0 BY <1>3 DEF Base, End
<1>5. ForeignIdle BY <1>3 DEF Init, ForeignIdle, IsForeign
<1>6. Sending /\ Receiving
  <2>1. Sending BY <1>3, SizeAssumption DEF Sending
  <2>2. \A e \in Endpoint : pc[e]["ws"] # "write" BY DEF Init, Goroutine
  <2> QED BY <1>3, <1>4, <2>1, <2>2, PeerFacts DEF Receiving
<1>7. Ordered /\ StreamIntegrity /\ AckOrder BY <1>3 DEF Ordered, StreamIntegrity, AckOrder
<1>8. Gapless BY <1>3, <1>4, PeerFacts DEF Gapless, Joins
<1>9. AckSound BY <1>3, PeerFacts DEF AckSound
<1>10. Handshake
  <2>1. GoodFrames BY <1>3 DEF GoodFrames
  <2>2. pc["client"]["ssh"] \in {"read", "gone"} BY DEF Init, Endpoint, Goroutine
  <2>3. sid["server"] = "sid" /\ sid["client"] = "nil" BY DEF Init, Endpoint
  <2> QED BY <1>3, <2>1, <2>2, <2>3, SizeAssumption DEF Handshake, ConnectOnce, ConnectPending, Endpoint
<1>11. NoProtocolError BY DEF Init, NoProtocolError, Endpoint, Goroutine
<1> QED BY <1>1, <1>2, <1>5, <1>6, <1>7, <1>8, <1>9, <1>10, <1>11 DEF Inv

\* Every step keeps the invariant.
LEMMA InvNext == Inv /\ [Next]_vars => Inv'
<1> SUFFICES ASSUME Inv, [Next]_vars PROVE Inv'
  OBVIOUS
<1>1. TypeOK' BY TypeNext DEF Inv
<1>2. OneWriter' BY OneWriterNext DEF Inv
<1>3. Core' BY CoreNext DEF Inv, Core
<1>4. NoProtocolError' BY NoProtocolErrorNext DEF Inv, Core
<1> QED BY <1>1, <1>2, <1>3, <1>4 DEF Inv, Core

\* The inductive invariant holds of every session.
THEOREM Invariance == Spec => []Inv
  BY InvInit, InvNext, PTL DEF Spec

\* Every variable keeps its type: no counter leaves uint64, although rCount
\* is added to before the bytes are written, and nothing longer than the
\* peer's stream is written to an SSH connection.
THEOREM TypeCorrect == Spec => []TypeOK
<1>1. Inv => TypeOK BY DEF Inv
<1> QED BY <1>1, Invariance, PTL

\* wsWriter: an endpoint never has two messages open, and every path through
\* cancel gives mu back.
THEOREM WriterExclusion == Spec => []OneWriter
<1>1. Inv => OneWriter BY DEF Inv
<1> QED BY <1>1, Invariance, PTL

\* What readData writes is a prefix of what the other end's runSSH read.
THEOREM StreamCorrect == Spec => []StreamIntegrity
<1>1. Inv => StreamIntegrity BY DEF Inv
<1> QED BY <1>1, Invariance, PTL

\* sendAck never acknowledges a byte that was not written, and readAck never
\* takes in such an ACK from an endpoint that runs this code.
THEOREM AcksAreSound == Spec => []AckSound
<1>1. Inv => AckSound BY DEF Inv
<1> QED BY <1>1, Invariance, PTL

\* recvCmd and readAck never reject what an endpoint that runs this code
\* sends.
THEOREM OursAgree == Spec => []NoProtocolError
<1>1. Inv => NoProtocolError BY DEF Inv
<1> QED BY <1>1, Invariance, PTL

-----------------------------------------------------------------------------
(***************************************************************************)
(* The SID.                                                                *)
(***************************************************************************)

\* recvCmd replaces no SID that is known.
LEMMA SidStep ==
    ASSUME TypeOK, [Next]_vars, NEW e \in Endpoint, sid[e] # "nil"
    PROVE  sid'[e] = sid[e]
<1>1. ASSUME NEW a \in Endpoint, RecvRejected(a) PROVE sid'[e] = sid[e]
  BY <1>1 DEF RecvRejected, TypeOK
<1>2. ASSUME NEW a \in Endpoint, RecvConnectSuccess(a) PROVE sid'[e] = sid[e]
  BY <1>2 DEF RecvConnectSuccess, Rejected, TypeOK
<1>3. ASSUME NEW a \in Endpoint, RunWS(a), ~RecvRejected(a), ~RecvConnectSuccess(a)
      PROVE  UNCHANGED sid
  BY <1>3 DEF RunWS, RecvData, RecvAck, WsReadFails, SshWrite, SshWriteFails,
              Lock, LockFails, Send, SendLost
<1>4. ASSUME NEW a \in Endpoint, RunSSH(a) \/ SshReadEOF(a) \/ Run(a) PROVE UNCHANGED sid
  BY <1>4 DEF RunSSH, SshReadEOF, SshRead, SshReadFails, Lock, LockFails, Send, SendLost,
              Run, RunRecvErr, RunClose, RunSend, CallerReturns
<1>5. ASSUME NEW a \in Endpoint, ForeignSend(a) \/ ForeignRecv(a) PROVE UNCHANGED sid
  BY <1>5 DEF ForeignSend, ForeignRecv
<1>6. CASE UNCHANGED vars \/ LinkBreaks \/ DeadlineClose \/ DeadlineSend
  BY <1>6 DEF vars, LinkBreaks, DeadlineClose, DeadlineSend
<1> QED BY <1>1, <1>2, <1>3, <1>4, <1>5, <1>6 DEF Next

\* A SID, once known, is never replaced, whatever the peer sends.
THEOREM SidOnce == Spec => SidSetOnce
<1>1. TypeOK /\ [Next]_vars
        => [\A e \in Endpoint : sid[e] # "nil" => sid'[e] = sid[e]]_vars
  BY SidStep
<1> QED BY <1>1, TypeCorrect, PTL DEF Spec, SidSetOnce

-----------------------------------------------------------------------------
(***************************************************************************)
(* The two directions implement BytePipe.                                  *)
(***************************************************************************)

\* Run of an endpoint never turns into another implementation.
LEMMA ForeignFixed ==
    ASSUME TypeOK, [Next]_vars
    PROVE  \A e \in Endpoint : IsForeign(e)' = IsForeign(e)
<1> USE DEF IsForeign, runVars
<1>1. ASSUME NEW a \in Endpoint, RunWS(a) PROVE UNCHANGED run
  BY <1>1 DEF RunWS, RecvRejected, RecvConnectSuccess, RecvData, RecvAck, WsReadFails,
              SshWrite, SshWriteFails, Lock, LockFails, Send, SendLost
<1>2. ASSUME NEW a \in Endpoint, RunSSH(a) \/ SshReadEOF(a) PROVE UNCHANGED run
  BY <1>2 DEF RunSSH, SshReadEOF, SshRead, SshReadFails, Lock, LockFails, Send, SendLost
<1>3. ASSUME NEW a \in Endpoint, Run(a)
      PROVE  \A e \in Endpoint : (run'[e] = "foreign") = (run[e] = "foreign")
  BY <1>3 DEF Run, RunRecvErr, RunClose, RunSend, CallerReturns, TypeOK
<1>4. ASSUME NEW a \in Endpoint, ForeignSend(a) \/ ForeignRecv(a) PROVE UNCHANGED run
  BY <1>4 DEF ForeignSend, ForeignRecv
<1>5. CASE UNCHANGED vars \/ LinkBreaks \/ DeadlineClose \/ DeadlineSend
  BY <1>5 DEF vars, LinkBreaks, DeadlineClose, DeadlineSend
<1> QED BY <1>1, <1>2, <1>3, <1>4, <1>5 DEF Next

\* What is written to an SSH connection is a prefix of the peer's stream, so
\* its length says it all.
Prefixes ==
    \A e \in Endpoint : /\ out[Peer(e)] = [i \in 1..Len(out[Peer(e)]) |-> i]
                        /\ Len(out[Peer(e)]) \in Nat /\ Len(out[Peer(e)]) <= inp[e]

\* That is what the invariant says.
LEMMA OutIsPrefix == Inv => Prefixes
<1> SUFFICES ASSUME Inv, NEW e \in Endpoint
             PROVE  /\ out[Peer(e)] = [i \in 1..Len(out[Peer(e)]) |-> i]
                    /\ Len(out[Peer(e)]) \in Nat /\ Len(out[Peer(e)]) <= inp[e]
  BY DEF Prefixes
<1>1. Peer(e) \in Endpoint /\ Peer(Peer(e)) = e BY PeerFacts
<1>2. TypeOK /\ Sending BY DEF Inv
<1>3. /\ out[Peer(e)] \in Seq(1..Longest) /\ DOMAIN out[Peer(e)] = 1..Len(out[Peer(e)])
      /\ Len(out[Peer(e)]) \in Nat
  BY <1>1, <1>2, CountFacts DEF TypeOK
<1>4. out[Peer(e)] = [i \in 1..Len(out[Peer(e)]) |-> i]
  BY <1>1, <1>3 DEF Inv, StreamIntegrity
<1>5. Len(out[Peer(e)]) <= inp[e]
  <2>1. Base(Peer(e)) <= End(e) BY <1>1 DEF Inv, Receiving
  <2>2. End(e) <= inp[e] BY <1>2, EndFacts
  <2>3. /\ data[Peer(e)].n \in Nat /\ End(e) \in Nat /\ inp[e] \in Nat BY <1>1, <1>2, CountFacts
  <2> QED BY <1>3, <2>1, <2>2, <2>3 DEF Base
<1> QED BY <1>3, <1>4, <1>5
\* The same of the state after a step.
LEMMA OutIsPrefixNext == Inv' => Prefixes'
  BY OutIsPrefix, PTL

\* A step moves at most one of: what runSSH of e has read, what runWS of its
\* peer has written, what e has been told; each of them only forward.
LEMMA Moves ==
    ASSUME Inv, [Next]_vars, NEW e \in Endpoint
    PROVE  \/ /\ inp[e] <= inp'[e] /\ inp'[e] <= StreamLen[e]
              /\ out'[Peer(e)] = out[Peer(e)] /\ wCount'[e] = wCount[e]
           \/ /\ Len(out[Peer(e)]) <= Len(out'[Peer(e)])
              /\ inp'[e] = inp[e] /\ wCount'[e] = wCount[e]
           \/ /\ ~IsForeign(Peer(e)) => wCount[e] <= wCount'[e]
              /\ inp'[e] = inp[e] /\ out'[Peer(e)] = out[Peer(e)]
<1> DEFINE Goal == \/ /\ inp[e] <= inp'[e] /\ inp'[e] <= StreamLen[e]
                      /\ out'[Peer(e)] = out[Peer(e)] /\ wCount'[e] = wCount[e]
                   \/ /\ Len(out[Peer(e)]) <= Len(out'[Peer(e)])
                      /\ inp'[e] = inp[e] /\ wCount'[e] = wCount[e]
                   \/ /\ ~IsForeign(Peer(e)) => wCount[e] <= wCount'[e]
                      /\ inp'[e] = inp[e] /\ out'[Peer(e)] = out[Peer(e)]
<1> USE DEF streamVars, runVars
<1>1. TypeOK /\ Peer(e) \in Endpoint /\ Peer(Peer(e)) = e /\ Inv' BY PeerFacts, InvNext DEF Inv
<1>2. /\ inp[e] \in Nat /\ wCount[e] \in Nat /\ Len(out[Peer(e)]) \in Nat
      /\ inp[e] <= StreamLen[e] /\ StreamLen[e] \in Nat
  BY <1>1, CountFacts DEF Inv, Sending
<1>3. ASSUME UNCHANGED <<inp, out, wCount>> PROVE Goal BY <1>2, <1>3
<1>4. ASSUME NEW a \in Endpoint, SshRead(a) \/ ForeignSend(a) PROVE Goal
  <2>1. UNCHANGED <<out, wCount>> BY <1>4 DEF SshRead, ForeignSend
  <2>2. inp[e] <= inp'[e]
    <3>0. ASSUME NEW k \in Nat, inp' = [inp EXCEPT ![a] = inp[a] + k]
          PROVE  inp[e] <= inp'[e]
      <4>1. inp'[e] = (IF e = a THEN inp[a] + k ELSE inp[e])
        <5>1. DOMAIN inp = Endpoint BY <1>1 DEF TypeOK
        <5> QED BY <3>0, <5>1
      <4>2. CASE e = a
        <5>1. inp'[e] = inp[e] + k BY <4>1, <4>2
        <5> QED BY <1>2, <5>1
      <4>3. CASE e # a
        <5>1. inp'[e] = inp[e] BY <4>1, <4>3
        <5> QED BY <1>2, <5>1
      <4> QED BY <4>2, <4>3
    <3>1. CASE SshRead(a)
      <4>1. PICK k \in 1..(IF MaxArrayLen >= BufioSize THEN MaxArrayLen ELSE BufioSize) :
                inp' = [inp EXCEPT ![a] = inp[a] + k]
        BY <3>1 DEF SshRead
      <4>2. k \in Nat BY SizeAssumption
      <4> QED BY <3>0, <4>1, <4>2
    <3>2. CASE ForeignSend(a)
      <4>1. PICK f \in ForeignFrame(a) :
                IF f.tag = "DATA" THEN inp' = [inp EXCEPT ![a] = inp[a] + f.n] ELSE UNCHANGED inp
        BY <3>2 DEF ForeignSend
      <4>2. CASE f.tag = "DATA"
        <5>1. f.n \in Nat BY <4>2, SizeAssumption DEF ForeignFrame
        <5>2. inp' = [inp EXCEPT ![a] = inp[a] + f.n] BY <4>1, <4>2
        <5> QED BY <3>0, <5>1, <5>2
      <4>3. CASE f.tag # "DATA" BY <1>2, <4>1, <4>3
      <4> QED BY <4>2, <4>3
    <3> QED BY <1>4, <3>1, <3>2
  <2>3. inp'[e] <= StreamLen[e] BY <1>1 DEF Inv, Sending
  <2> QED BY <2>1, <2>2, <2>3
<1>5. ASSUME NEW a \in Endpoint, SshWrite(a) \/ SshWriteFails(a) PROVE Goal
  <2>1. UNCHANGED <<inp, wCount>> BY <1>5 DEF SshWrite, SshWriteFails
  <2>2. CASE UNCHANGED out BY <1>3, <2>1, <2>2
  <2>3. ASSUME NEW k \in Nat, out' = [out EXCEPT ![a] = @ \o Bytes(data[a], k)]
        PROVE  Len(out[Peer(e)]) <= Len(out'[Peer(e)])
    <3>1. CASE a # Peer(e) BY <1>1, <1>2, <2>3, <3>1 DEF TypeOK
    <3>2. CASE a = Peer(e)
      <4>1. /\ out'[a] = out[a] \o Bytes(data[a], k) /\ out[a] \in Seq(1..Longest)
            /\ data[a] \in Payload
        BY <1>1, <2>3 DEF TypeOK
      <4>2. data[a].lo \in Nat BY <4>1, PayloadFacts
      <4>3. Bytes(data[a], k) \in Seq(Nat) /\ Len(Bytes(data[a], k)) = k
        BY <4>2 DEF Bytes
      <4>4. out[a] \in Seq(Nat) BY <4>1, SeqMonotonic, LongestFacts
      <4>5. Len(out[a] \o Bytes(data[a], k)) = Len(out[a]) + Len(Bytes(data[a], k))
        BY <4>3, <4>4, ConcatProperties, Zenon
      <4> QED BY <1>2, <3>2, <4>1, <4>3, <4>5
    <3> QED BY <3>1, <3>2
  <2>4. CASE SshWrite(a)
    <3>1. data[a].n \in Nat BY <1>1, CountFacts
    <3> QED BY <2>1, <2>3, <2>4, <3>1 DEF SshWrite
  <2>5. CASE SshWriteFails(a) /\ ~UNCHANGED out
    <3>1. data[a].n \in Nat BY <1>1, CountFacts
    <3>2. PICK k \in 0..(data[a].n - 1) : out' = [out EXCEPT ![a] = @ \o Bytes(data[a], k)]
      BY <2>5 DEF SshWriteFails
    <3>3. k \in Nat BY <3>1
    <3> QED BY <2>1, <2>3, <3>2, <3>3
  <2> QED BY <1>5, <2>2, <2>4, <2>5
<1>6. ASSUME NEW a \in Endpoint, RecvAck(a) PROVE Goal
  <2>1. UNCHANGED <<inp, out>> BY <1>6 DEF RecvAck
  <2>2. CASE UNCHANGED wCount BY <1>3, <2>1, <2>2
  <2>3. CASE wCount' = [wCount EXCEPT ![a] = Incoming(a).ack]
    <3>1. CASE a # e BY <1>1, <1>2, <2>1, <2>3, <3>1 DEF TypeOK
    <3>2. ASSUME a = e, ~IsForeign(Peer(e)) PROVE wCount[e] <= wCount'[e]
      <4>1. wire[Peer(e)] \in Seq(Frame) /\ wire[Peer(e)] # << >> /\ Incoming(e).tag = "ACK"
        BY <1>1, <1>6, <3>2 DEF TypeOK, RecvAck, WsReady
      <4>2. 1 \in DOMAIN wire[Peer(e)] /\ Incoming(e) = wire[Peer(e)][1]
        BY <4>1, EmptySeq, HeadTailProperties, LenProperties DEF Incoming
      <4>3. wCount[e] <= Incoming(e).ack BY <1>1, <3>2, <4>1, <4>2 DEF Inv, AckOrder
      <4> QED BY <1>1, <2>3, <3>2, <4>3 DEF TypeOK
    <3> QED BY <2>1, <3>1, <3>2
  <2> QED BY <1>6, <2>2, <2>3 DEF RecvAck
<1>7. ASSUME NEW a \in Endpoint,
             \/ RunSSH(a) /\ ~SshRead(a)
             \/ RunWS(a) /\ ~SshWrite(a) /\ ~SshWriteFails(a) /\ ~RecvAck(a)
      PROVE  UNCHANGED <<inp, out, wCount>>
  BY <1>7 DEF RunSSH, SshReadFails, Lock, LockFails, Send, SendLost,
              RunWS, RecvRejected, RecvConnectSuccess, RecvData, WsReadFails
<1>8. ASSUME NEW a \in Endpoint, SshReadEOF(a) \/ Run(a) \/ ForeignRecv(a)
      PROVE  UNCHANGED <<inp, out, wCount>>
  BY <1>8 DEF SshReadEOF, Run, RunRecvErr, RunClose, RunSend, CallerReturns, ForeignRecv
<1>9. CASE UNCHANGED vars \/ LinkBreaks \/ DeadlineClose \/ DeadlineSend
  BY <1>3, <1>9 DEF vars, LinkBreaks, DeadlineClose, DeadlineSend
<1> QED BY <1>3, <1>4, <1>5, <1>6, <1>7, <1>8, <1>9 DEF Next

\* So a step is one of BytePipe's for the direction from e to its peer, or
\* changes nothing in it.
LEMMA PipeStep ==
    ASSUME Inv, [Next]_vars, NEW e \in Endpoint
    PROVE  \/ /\ inp'[e] \in (inp[e] + 1)..StreamLen[e]
              /\ out'[Peer(e)] = out[Peer(e)] /\ Acked(e)' = Acked(e)
           \/ /\ \E k \in (Len(out[Peer(e)]) + 1)..inp[e] : out'[Peer(e)] = [i \in 1..k |-> i]
              /\ inp'[e] = inp[e] /\ Acked(e)' = Acked(e)
           \/ /\ Acked(e)' \in (Acked(e) + 1)..Len(out[Peer(e)])
              /\ inp'[e] = inp[e] /\ out'[Peer(e)] = out[Peer(e)]
           \/ inp'[e] = inp[e] /\ out'[Peer(e)] = out[Peer(e)] /\ Acked(e)' = Acked(e)
<1>1. /\ TypeOK /\ TypeOK' /\ Peer(e) \in Endpoint /\ Peer(Peer(e)) = e /\ Inv'
  BY PeerFacts, InvNext DEF Inv
<1>2. IsForeign(Peer(e))' = IsForeign(Peer(e)) BY <1>1, ForeignFixed
<1>3. /\ inp[e] \in Nat /\ inp'[e] \in Nat /\ wCount[e] \in Nat /\ wCount'[e] \in Nat /\ StreamLen[e] \in Nat
  BY <1>1, CountAssumption, SizeAssumption, LongestFacts DEF TypeOK
<1>4. /\ out[Peer(e)] = [i \in 1..Len(out[Peer(e)]) |-> i] /\ Len(out[Peer(e)]) \in Nat
      /\ out'[Peer(e)] = [i \in 1..Len(out'[Peer(e)]) |-> i] /\ Len(out'[Peer(e)]) \in Nat
      /\ Len(out'[Peer(e)]) <= inp'[e]
  BY <1>1, OutIsPrefix, OutIsPrefixNext DEF Prefixes
<1>5. ASSUME ~IsForeign(Peer(e)) PROVE wCount'[e] <= Len(out'[Peer(e)])
  BY <1>1, <1>2, <1>5 DEF Inv, AckSound
<1>6. /\ Acked(e) \in Nat /\ Acked(e)' \in Nat /\ (wCount'[e] = wCount[e] => Acked(e)' = Acked(e))
      /\ IsForeign(Peer(e)) => Acked(e)' = Acked(e)
      /\ ~IsForeign(Peer(e)) => Acked(e) = wCount[e] /\ Acked(e)' = wCount'[e]
  BY <1>2, <1>3 DEF Acked
<1>7. CASE /\ inp[e] <= inp'[e] /\ inp'[e] <= StreamLen[e]
           /\ out'[Peer(e)] = out[Peer(e)] /\ wCount'[e] = wCount[e]
  BY <1>3, <1>6, <1>7
<1>8. CASE /\ Len(out[Peer(e)]) <= Len(out'[Peer(e)])
           /\ inp'[e] = inp[e] /\ wCount'[e] = wCount[e]
  <2>1. CASE Len(out'[Peer(e)]) = Len(out[Peer(e)]) BY <1>4, <1>6, <1>8, <2>1
  <2>2. CASE Len(out'[Peer(e)]) # Len(out[Peer(e)])
    <3>1. Len(out'[Peer(e)]) \in (Len(out[Peer(e)]) + 1)..inp[e] BY <1>3, <1>4, <1>8, <2>2
    <3> QED BY <1>4, <1>6, <1>8, <3>1
  <2> QED BY <2>1, <2>2
<1>9. CASE /\ ~IsForeign(Peer(e)) => wCount[e] <= wCount'[e]
           /\ inp'[e] = inp[e] /\ out'[Peer(e)] = out[Peer(e)]
  <2>1. CASE Acked(e)' = Acked(e) BY <1>9, <2>1
  <2>2. CASE Acked(e)' # Acked(e)
    <3>1. Acked(e)' \in (Acked(e) + 1)..Len(out[Peer(e)])
      BY <1>3, <1>4, <1>5, <1>6, <1>9, <2>2
    <3> QED BY <1>9, <3>1
  <2> QED BY <2>1, <2>2
<1> QED BY <1>7, <1>8, <1>9, Moves

\* A session starts as two empty pipes.
LEMMA PipesInit == Init => Up!PInit /\ Down!PInit
  BY DEF Init, Up!PInit, Down!PInit, Acked, Endpoint

\* And every step is a step, or none, of each of the two pipes.
LEMMA PipesNext == Inv /\ [Next]_vars => [Up!PNext]_(Up!pvars) /\ [Down!PNext]_(Down!pvars)
<1> SUFFICES ASSUME Inv, [Next]_vars
             PROVE  [Up!PNext]_(Up!pvars) /\ [Down!PNext]_(Down!pvars)
  OBVIOUS
<1>1. /\ "client" \in Endpoint /\ Peer("client") = "server"
      /\ "server" \in Endpoint /\ Peer("server") = "client"
  BY DEF Endpoint, Peer
<1>2. [Up!PNext]_(Up!pvars)
  BY <1>1, PipeStep DEF Up!PNext, Up!Take, Up!Deliver, Up!Acknowledge, Up!pvars
<1>3. [Down!PNext]_(Down!pvars)
  BY <1>1, PipeStep DEF Down!PNext, Down!Take, Down!Deliver, Down!Acknowledge, Down!pvars
<1> QED BY <1>2, <1>3

\* From ssh(1) to the SSH server a session implements BytePipe.
THEOREM UpRefinement == Spec => ImplementsUp
  BY PipesInit, PipesNext, Invariance, PTL DEF Spec, ImplementsUp, Up!PSpec

\* And from the SSH server to ssh(1).
THEOREM DownRefinement == Spec => ImplementsDown
  BY PipesInit, PipesNext, Invariance, PTL DEF Spec, ImplementsDown, Down!PSpec
=============================================================================
