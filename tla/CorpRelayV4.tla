---------------------------- MODULE CorpRelayV4 ----------------------------
(***************************************************************************)
(* One corp-relay-v4@google.com session: the Session of the SSH Relay (role*)
(* Server) and the Session of the helper (role Client), joined by a        *)
(* WebSocket.  Each has two goroutines while Run is active:                *)
(*                                                                         *)
(*   runSSH  reads the SSH connection and sends DATA; the server's sends   *)
(*           CONNECT_SUCCESS first;                                        *)
(*   runWS   reads the WebSocket, writes the payload of DATA to the SSH    *)
(*           connection and sends an ACK, and takes in ACKs.               *)
(*                                                                         *)
(* Both send through wsWriter, which holds Session.mu from NextWriter to   *)
(* the Close of the message, so also while a full connection blocks it.    *)
(*                                                                         *)
(* Close sends on done, which blocks until somebody receives: at the helper*)
(* one goroutine of the agent, at the relay the session manager's watcher, *)
(* or SetDeadline's goroutine while it waits for its time.                 *)
(*                                                                         *)
(* A byte is its position, from 1, in the stream its SSH connection        *)
(* supplies; a payload is [lo, n], the n bytes after the first lo.  A      *)
(* foreign endpoint does not run this code: it may send any frame.         *)
(***************************************************************************)
EXTENDS Integers, Sequences, FiniteSets

CONSTANTS
    StreamLen,    \* bytes the SSH connection of each endpoint will supply
    MaxArrayLen,  \* command.MaxArrayLen: the buffer of runSSH, largest payload
    BufioSize,    \* the buffer of bufio.NewReader
    CountMod,     \* rCount and wCount are uint64: CountMod stands for 2^64
    ChanCap,      \* frames the connection holds before a flush blocks
    Foreign,      \* the sets of endpoints that may not run this code
    ForeignCap,   \* frames such an endpoint has under way at most
    Faults        \* what may happen: an endpoint's SSH connection fails, "link", "deadline"

Endpoint  == {"client", "server"}
Goroutine == {"ssh", "ws"}          \* runSSH and runWS

Longest == LET a == StreamLen["client"] b == StreamLen["server"] IN IF a > b THEN a ELSE b

ASSUME SizeAssumption ==
    /\ StreamLen \in [Endpoint -> Nat]
    /\ MaxArrayLen \in Nat \ {0}
    /\ BufioSize \in 1..MaxArrayLen    \* 4096 <= 16384
    /\ ChanCap \in Nat \ {0}
    /\ ForeignCap \in Nat
\* No stream is longer than 2^63 - 1 bytes, so int(ack - wCount) has its sign.
ASSUME CountAssumption == CountMod \in Nat /\ CountMod % 2 = 0 /\ 2 * Longest < CountMod
ASSUME EnvAssumption == Foreign \subseteq SUBSET Endpoint /\ Faults \subseteq Endpoint \cup {"link", "deadline"}

Peer(e) == IF e = "client" THEN "server" ELSE "client"

VARIABLES
    sid,     \* Session.sid
    rCount,  \* Session.rCount: payload bytes received in DATA
    wCount,  \* Session.wCount: bytes the peer has acknowledged
    mu,      \* Session.mu: who holds it
    pc,      \* where the two goroutines are
    inp,     \* bytes runSSH has read from the SSH connection
    chunk,   \* what runSSH is about to send; n = 0 is CONNECT_SUCCESS
    data,    \* the payload that runWS is writing to the SSH connection
    out,     \* what has been written to the SSH connection
    ssh,     \* the SSH connection: open or closed by Close
    wire,    \* frames an endpoint has sent that its peer has not read
    link,    \* the TCP connection under the WebSocket
    run,     \* where Run and its caller are
    runErr,  \* the error Run received on errc
    watcher, \* the relay's goroutine that receives once from done
    deadline \* the relay's SetDeadline goroutine

streamVars == <<inp, chunk, data, out>>
runVars    == <<run, runErr>>
doneVars   == <<watcher, deadline>>
vars == <<sid, rCount, wCount, mu, pc, streamVars, ssh, wire, link, runVars, doneVars>>

Err     == {"EOF", "io", "proto"}       \* a goroutine in Err is in errc <- err
Sid     == {"nil", "sid", "other"}      \* uuid.Nil, the server's, another one
Payload == [lo : 0..Longest, n : 0..(MaxArrayLen + 1)]
Frame   ==
    [tag : {"DATA"}, lo : 0..Longest, n : 0..(MaxArrayLen + 1)]
        \cup [tag : {"ACK"}, ack : 0..(CountMod - 1)]
        \cup [tag : {"CONNECT_SUCCESS"}, sid : Sid \cup {"unparsable"}]
        \cup [tag : {"RECONNECT_SUCCESS", "BAD"}]

\* Every variable has its type; in particular a byte written to an SSH
\* connection has a position in one of the streams, and counters stay within
\* uint64.
TypeOK ==
    /\ sid \in [Endpoint -> Sid]
    /\ rCount \in [Endpoint -> 0..(CountMod - 1)]
    /\ wCount \in [Endpoint -> 0..(CountMod - 1)]
    /\ mu \in [Endpoint -> Goroutine \cup {"free"}]
    /\ pc \in [Endpoint -> [Goroutine -> {"read", "write", "lock", "send", "gone"} \cup Err]]
    /\ inp \in [Endpoint -> 0..Longest]
    /\ chunk \in [Endpoint -> Payload]
    /\ data \in [Endpoint -> Payload]
    /\ out \in [Endpoint -> Seq(1..Longest)]
    /\ ssh \in [Endpoint -> {"open", "closed"}]
    /\ wire \in [Endpoint -> Seq(Frame)]
    /\ link \in {"up", "down"}
    /\ run \in [Endpoint -> {"foreign", "running", "close", "send", "returned", "done"}]
    /\ runErr \in [Endpoint -> Err \cup {"none"}]
    /\ watcher \in {"waits", "gone"}
    /\ deadline \in {"waits", "sends", "gone"}

Nothing == [lo |-> 0, n |-> 0]

\* The endpoint is another implementation of the protocol.
IsForeign(e) == run[e] = "foreign"

\* New, then Run up to <-errc.
Init ==
    /\ sid = [e \in Endpoint |-> IF e = "server" THEN "sid" ELSE "nil"]
    /\ rCount = [e \in Endpoint |-> 0]
    /\ wCount = [e \in Endpoint |-> 0]
    /\ mu = [e \in Endpoint |-> "free"]
    /\ \E F \in Foreign :
        /\ pc = [e \in Endpoint |-> [g \in Goroutine |->
                    IF e \in F THEN "gone"
                    ELSE IF e = "server" /\ g = "ssh" THEN "lock" ELSE "read"]]
        /\ run = [e \in Endpoint |-> IF e \in F THEN "foreign" ELSE "running"]
    /\ inp = [e \in Endpoint |-> 0]
    /\ chunk = [e \in Endpoint |-> Nothing]
    /\ data = [e \in Endpoint |-> Nothing]
    /\ out = [e \in Endpoint |-> << >>]
    /\ ssh = [e \in Endpoint |-> "open"]
    /\ wire = [e \in Endpoint |-> << >>]
    /\ link = "up"
    /\ runErr = [e \in Endpoint |-> "none"]
    /\ watcher = "waits"
    /\ deadline = "waits"

Goto(e, g, l) == pc' = [pc EXCEPT ![e][g] = l]

(***************************************************************************)
(* Faulty variants of operations below: the mistakes the properties at the *)
(* end of the module must be able to tell from the code.                   *)
(***************************************************************************)

\* wsWriter calls NextWriter without taking mu.
Lock_NoMutex(e, g) ==
    /\ pc[e][g] = "lock"
    /\ mu' = [mu EXCEPT ![e] = g]
    /\ Goto(e, g, "send")
    /\ UNCHANGED <<sid, rCount, wCount, streamVars, ssh, wire, link, runVars, doneVars>>

\* cancel closes the message but does not unlock.
Send_KeepsLock(e, g) ==
    /\ pc[e][g] = "send"
    /\ link = "up"
    /\ Len(wire[e]) < ChanCap
    /\ wire' = [wire EXCEPT ![e] = Append(@,
            IF g = "ws" THEN [tag |-> "ACK", ack |-> rCount[e]]
            ELSE IF chunk[e].n = 0 THEN [tag |-> "CONNECT_SUCCESS", sid |-> sid[e]]
            ELSE [tag |-> "DATA", lo |-> chunk[e].lo, n |-> chunk[e].n])]
    /\ Goto(e, g, "read")
    /\ UNCHANGED <<sid, rCount, wCount, mu, streamVars, ssh, link, runVars, doneVars>>

\* cancel returns without unlocking when the flush fails.
SendLost_KeepsLock(e, g) ==
    /\ pc[e][g] = "send"
    /\ link = "down"
    /\ \E l \in {"read", "io"} : Goto(e, g, l)
    /\ UNCHANGED <<sid, rCount, wCount, mu, streamVars, ssh, wire, link, runVars, doneVars>>

\* runSSH reads into a buffer smaller than bufio's.
SshRead_SmallBuffer(e) ==
    /\ pc[e]["ssh"] = "read"
    /\ ssh[e] = "open"
    /\ \E k \in 1..BufioSize :
        /\ inp[e] + k <= StreamLen[e]
        /\ inp' = [inp EXCEPT ![e] = inp[e] + k]
        /\ chunk' = [chunk EXCEPT ![e] = [lo |-> inp[e], n |-> 1]]
    /\ Goto(e, "ssh", "lock")
    /\ UNCHANGED <<sid, rCount, wCount, mu, data, out, ssh, wire, link, runVars, doneVars>>

\* A CONNECT_SUCCESS is accepted whenever the role is Client.
Rejected_AnyConnect(e, f) ==
    \/ f.tag \in {"BAD", "RECONNECT_SUCCESS"}
    \/ f.tag = "DATA" /\ f.n \notin 1..MaxArrayLen
    \/ f.tag = "CONNECT_SUCCESS" /\ (e # "client" \/ f.sid = "unparsable")

\* The payload is copied from one byte too early.
Bytes_OffByOne(p, k) == [i \in 1..k |-> p.lo + i - 1]

\* readData drops the error of ssh.Write: recvCmd goes on to sendAck.
SshWriteFails_Ignored(e) ==
    /\ pc[e]["ws"] = "write"
    /\ \/ e \in Faults /\ \E k \in 0..(data[e].n - 1) :
            out' = [out EXCEPT ![e] = @ \o [i \in 1..k |-> data[e].lo + i]]
       \/ ssh[e] = "closed" /\ UNCHANGED out
    /\ data' = [data EXCEPT ![e] = Nothing]
    /\ Goto(e, "ws", "lock")
    /\ UNCHANGED <<sid, rCount, wCount, mu, inp, chunk, ssh, wire, link, runVars, doneVars>>

\* readAck subtracts the wrong way round.
Diff_Swapped(a, b) ==
    LET d == (b - a) % CountMod
    IN  IF d >= CountMod \div 2 THEN d - CountMod ELSE d

(***************************************************************************)
(* wsWriter: the writer, under the lock.                                   *)
(***************************************************************************)

sendConnect(e) == [tag |-> "CONNECT_SUCCESS", sid |-> sid[e]]
copySSH(e)     == [tag |-> "DATA", lo |-> chunk[e].lo, n |-> chunk[e].n]
sendAck(e)     == [tag |-> "ACK", ack |-> rCount[e]]    \* of everything received so far

\* The message goroutine g of endpoint e has to send.
Message(e, g) ==
    CASE g = "ws" -> sendAck(e)
      [] g = "ssh" /\ chunk[e].n = 0 -> sendConnect(e)
      [] OTHER -> copySSH(e)

Lock(e, g) ==
    /\ pc[e][g] = "lock"
    /\ mu[e] = "free"
    /\ mu' = [mu EXCEPT ![e] = g]
    /\ Goto(e, g, "send")
    /\ UNCHANGED <<sid, rCount, wCount, streamVars, ssh, wire, link, runVars, doneVars>>

\* NextWriter remembers that an earlier write failed; mu is released.
LockFails(e, g) ==
    /\ pc[e][g] = "lock"
    /\ mu[e] = "free"
    /\ link = "down"
    /\ Goto(e, g, "io")
    /\ UNCHANGED <<sid, rCount, wCount, mu, streamVars, ssh, wire, link, runVars, doneVars>>

\* cancel releases mu; the buffer has been used.
Cancel(e, g) ==
    /\ mu' = [mu EXCEPT ![e] = "free"]
    /\ chunk' = IF g = "ssh" THEN [chunk EXCEPT ![e] = Nothing] ELSE chunk

\* The message is written and flushed, then cancel is called.
Send(e, g) ==
    /\ pc[e][g] = "send"
    /\ link = "up"
    /\ Len(wire[e]) < ChanCap
    /\ wire' = [wire EXCEPT ![e] = Append(@, Message(e, g))]
    /\ Cancel(e, g)
    /\ Goto(e, g, "read")
    /\ UNCHANGED <<sid, rCount, wCount, inp, data, out, ssh, link, runVars, doneVars>>

\* The connection is down.  A write that fails is reported, but cancel drops
\* the error of the flush in w.Close(): then the goroutine goes on as if the
\* message had been sent.
SendLost(e, g) ==
    /\ pc[e][g] = "send"
    /\ link = "down"
    /\ Cancel(e, g)
    /\ \E l \in {"read", "io"} : Goto(e, g, l)
    /\ UNCHANGED <<sid, rCount, wCount, inp, data, out, ssh, wire, link, runVars, doneVars>>

(***************************************************************************)
(* runSSH.                                                                 *)
(***************************************************************************)

\* A bufio.Reader is made for every Read and thrown away after it.  A Read
\* into a buffer at least as large as bufio's goes straight to the
\* connection; into a smaller one it fills bufio's buffer and hands out a
\* part, and what is left over is lost with the reader.
SshRead(e) ==
    /\ pc[e]["ssh"] = "read"
    /\ ssh[e] = "open"
    /\ \E k \in 1..(IF MaxArrayLen >= BufioSize THEN MaxArrayLen ELSE BufioSize) :
        /\ inp[e] + k <= StreamLen[e]
        /\ inp' = [inp EXCEPT ![e] = inp[e] + k]
        /\ chunk' = [chunk EXCEPT ![e] =
                        [lo |-> inp[e], n |-> IF k <= MaxArrayLen THEN k ELSE MaxArrayLen]]
    /\ Goto(e, "ssh", "lock")
    /\ UNCHANGED <<sid, rCount, wCount, mu, data, out, ssh, wire, link, runVars, doneVars>>

\* The SSH side has hung up.
SshReadEOF(e) ==
    /\ e \in Faults
    /\ pc[e]["ssh"] = "read"
    /\ ssh[e] = "open"
    /\ Goto(e, "ssh", "EOF")
    /\ UNCHANGED <<sid, rCount, wCount, mu, streamVars, ssh, wire, link, runVars, doneVars>>

\* Close has closed the connection.
SshReadFails(e) ==
    /\ pc[e]["ssh"] = "read"
    /\ ssh[e] = "closed"
    /\ Goto(e, "ssh", "io")
    /\ UNCHANGED <<sid, rCount, wCount, mu, streamVars, ssh, wire, link, runVars, doneVars>>

(***************************************************************************)
(* runWS: NextReader, parseBinary, command.Unmarshal and recvCmd.          *)
(***************************************************************************)
WsReady(e) ==
    /\ pc[e]["ws"] = "read"
    /\ wire[Peer(e)] # << >>

Incoming(e) == Head(wire[Peer(e)])

Receive(e) == wire' = [wire EXCEPT ![Peer(e)] = Tail(@)]

\* command.Unmarshal rejects unknown tags, bad lengths and bad payload sizes;
\* runWS rejects text messages; recvCmd rejects RECONNECT_SUCCESS and a
\* CONNECT_SUCCESS that is not a client's first or does not parse.
Rejected(e, f) ==
    \/ f.tag \in {"BAD", "RECONNECT_SUCCESS"}
    \/ f.tag = "DATA" /\ f.n \notin 1..MaxArrayLen
    \/ f.tag = "CONNECT_SUCCESS" /\ (e # "client" \/ sid[e] # "nil" \/ f.sid = "unparsable")

\* uuid.Parse may leave what it had parsed before it failed in sid.
RecvRejected(e) ==
    /\ WsReady(e)
    /\ Rejected(e, Incoming(e))
    /\ Receive(e)
    /\ Goto(e, "ws", "proto")
    /\ \/ UNCHANGED sid
       \/ /\ Incoming(e).tag = "CONNECT_SUCCESS" /\ e = "client" /\ sid[e] = "nil"
          /\ sid' = [sid EXCEPT ![e] = "other"]
    /\ UNCHANGED <<rCount, wCount, mu, streamVars, ssh, link, runVars, doneVars>>

RecvConnectSuccess(e) ==
    /\ WsReady(e)
    /\ Incoming(e).tag = "CONNECT_SUCCESS"
    /\ ~Rejected(e, Incoming(e))
    /\ Receive(e)
    /\ sid' = [sid EXCEPT ![e] = Incoming(e).sid]
    /\ UNCHANGED <<rCount, wCount, mu, pc, streamVars, ssh, link, runVars, doneVars>>

\* readData counts the payload before it writes it.
RecvData(e) ==
    /\ WsReady(e)
    /\ Incoming(e).tag = "DATA"
    /\ ~Rejected(e, Incoming(e))
    /\ Receive(e)
    /\ rCount' = [rCount EXCEPT ![e] = (rCount[e] + Incoming(e).n) % CountMod]
    /\ data' = [data EXCEPT ![e] = [lo |-> Incoming(e).lo, n |-> Incoming(e).n]]
    /\ Goto(e, "ws", "write")
    /\ UNCHANGED <<sid, wCount, mu, inp, chunk, out, ssh, link, runVars, doneVars>>

\* The bytes of a payload, as far as the first k.
Bytes(p, k) == [i \in 1..k |-> p.lo + i]

SshWrite(e) ==
    /\ pc[e]["ws"] = "write"
    /\ ssh[e] = "open"
    /\ out' = [out EXCEPT ![e] = @ \o Bytes(data[e], data[e].n)]
    /\ data' = [data EXCEPT ![e] = Nothing]
    /\ Goto(e, "ws", "lock")
    /\ UNCHANGED <<sid, rCount, wCount, mu, inp, chunk, ssh, wire, link, runVars, doneVars>>

\* The write fails after k bytes; the error keeps sendAck from being called.
SshWriteFails(e) ==
    /\ pc[e]["ws"] = "write"
    /\ \/ e \in Faults /\ \E k \in 0..(data[e].n - 1) :
            out' = [out EXCEPT ![e] = @ \o Bytes(data[e], k)]
       \/ ssh[e] = "closed" /\ UNCHANGED out
    /\ data' = [data EXCEPT ![e] = Nothing]
    /\ Goto(e, "ws", "io")
    /\ UNCHANGED <<sid, rCount, wCount, mu, inp, chunk, ssh, wire, link, runVars, doneVars>>

\* int(a - b) for uint64 a and b.
Diff(a, b) ==
    LET d == (a - b) % CountMod
    IN  IF d >= CountMod \div 2 THEN d - CountMod ELSE d

\* readAck: an ACK may repeat the last one, must not go back.
RecvAck(e) ==
    /\ WsReady(e)
    /\ Incoming(e).tag = "ACK"
    /\ Receive(e)
    /\ IF Diff(Incoming(e).ack, wCount[e]) < 0
         THEN UNCHANGED wCount /\ Goto(e, "ws", "proto")
         ELSE wCount' = [wCount EXCEPT ![e] = Incoming(e).ack] /\ UNCHANGED pc
    /\ UNCHANGED <<sid, rCount, mu, streamVars, ssh, link, runVars, doneVars>>

\* NextReader fails; what the peer sent before the end may have been lost.
WsReadFails(e) ==
    /\ pc[e]["ws"] = "read"
    /\ link = "down"
    /\ Goto(e, "ws", "io")
    /\ UNCHANGED <<sid, rCount, wCount, mu, streamVars, ssh, wire, link, runVars, doneVars>>

(***************************************************************************)
(* Run, after <-errc, and its caller.                                      *)
(***************************************************************************)
RunRecvErr(e) ==
    /\ run[e] = "running"
    /\ \E g \in Goroutine :
        /\ pc[e][g] \in Err
        /\ runErr' = [runErr EXCEPT ![e] = pc[e][g]]
        /\ Goto(e, g, "gone")
    /\ run' = [run EXCEPT ![e] = "close"]
    /\ UNCHANGED <<sid, rCount, wCount, mu, streamVars, ssh, wire, link, doneVars>>

\* The deferred Close, as far as ssh.Close().
RunClose(e) ==
    /\ run[e] = "close"
    /\ ssh' = [ssh EXCEPT ![e] = "closed"]
    /\ run' = [run EXCEPT ![e] = "send"]
    /\ UNCHANGED <<sid, rCount, wCount, mu, pc, streamVars, wire, link, runErr, doneVars>>

\* s.done <- struct{}{} in Close needs a receiver.  The agent's goroutine
\* receives the helper's, the only one there; the relay's goes to the watcher
\* or to the deadline, as long as they wait.
RunSend(e) ==
    /\ run[e] = "send"
    /\ \/ e = "client" /\ UNCHANGED doneVars
       \/ e = "server" /\ watcher = "waits" /\ watcher' = "gone" /\ UNCHANGED deadline
       \/ e = "server" /\ deadline = "waits" /\ deadline' = "gone" /\ UNCHANGED watcher
    /\ run' = [run EXCEPT ![e] = "returned"]
    /\ UNCHANGED <<sid, rCount, wCount, mu, pc, streamVars, ssh, wire, link, runErr>>

\* connectHandleV4 closes the WebSocket; the helper's process ends.
CallerReturns(e) ==
    /\ run[e] = "returned"
    /\ link' = "down"
    /\ run' = [run EXCEPT ![e] = "done"]
    /\ UNCHANGED <<sid, rCount, wCount, mu, pc, streamVars, ssh, wire, runErr, doneVars>>

(***************************************************************************)
(* The environment.                                                        *)
(***************************************************************************)
LinkBreaks ==
    /\ "link" \in Faults
    /\ link = "up"
    /\ link' = "down"
    /\ UNCHANGED <<sid, rCount, wCount, mu, pc, streamVars, ssh, wire, runVars, doneVars>>

\* session.SetDeadline closes the relay's SSH connection under Run's feet; its
\* time comes before or after Run's own Close.
DeadlineClose ==
    /\ "deadline" \in Faults
    /\ ~IsForeign("server")
    /\ deadline = "waits"
    /\ deadline' = "sends"
    /\ ssh' = [ssh EXCEPT !["server"] = "closed"]
    /\ UNCHANGED <<sid, rCount, wCount, mu, pc, streamVars, wire, link, runVars, watcher>>

\* That Close sends on done, too, and only the watcher can receive it.
DeadlineSend ==
    /\ deadline = "sends"
    /\ watcher = "waits"
    /\ deadline' = "gone"
    /\ watcher' = "gone"
    /\ UNCHANGED <<sid, rCount, wCount, mu, pc, streamVars, ssh, wire, link, runVars>>

\* Frames another implementation may send, given what it has sent before.
ForeignFrame(e) ==
    [tag : {"DATA"}, lo : {inp[e]}, n : 0..(MaxArrayLen + 1)]
        \cup [tag : {"ACK"}, ack : 0..(CountMod - 1)]
        \cup [tag : {"CONNECT_SUCCESS"}, sid : {"sid", "other", "unparsable"}]
        \cup [tag : {"RECONNECT_SUCCESS", "BAD"}]

ForeignSend(e) ==
    /\ IsForeign(e)
    /\ link = "up"
    /\ Len(wire[e]) < ForeignCap
    /\ \E f \in ForeignFrame(e) :
        /\ wire' = [wire EXCEPT ![e] = Append(@, f)]
        /\ IF f.tag = "DATA"
             THEN inp[e] + f.n <= StreamLen[e] /\ inp' = [inp EXCEPT ![e] = inp[e] + f.n]
             ELSE UNCHANGED inp
    /\ UNCHANGED <<sid, rCount, wCount, mu, pc, chunk, data, out, ssh, link, runVars, doneVars>>

ForeignRecv(e) ==
    /\ IsForeign(e)
    /\ wire[Peer(e)] # << >>
    /\ Receive(e)
    /\ UNCHANGED <<sid, rCount, wCount, mu, pc, streamVars, ssh, link, runVars, doneVars>>

-----------------------------------------------------------------------------
RunSSH(e) ==
    \/ SshRead(e) \/ SshReadFails(e)
    \/ Lock(e, "ssh") \/ LockFails(e, "ssh") \/ Send(e, "ssh") \/ SendLost(e, "ssh")

RunWS(e) ==
    \/ RecvRejected(e) \/ RecvConnectSuccess(e) \/ RecvData(e) \/ RecvAck(e)
    \/ WsReadFails(e) \/ SshWrite(e) \/ SshWriteFails(e)
    \/ Lock(e, "ws") \/ LockFails(e, "ws") \/ Send(e, "ws") \/ SendLost(e, "ws")

Run(e) == RunRecvErr(e) \/ RunClose(e) \/ RunSend(e) \/ CallerReturns(e)

Next ==
    \/ \E e \in Endpoint : \/ RunSSH(e) \/ SshReadEOF(e) \/ RunWS(e) \/ Run(e)
                          \/ ForeignSend(e) \/ ForeignRecv(e)
    \/ LinkBreaks \/ DeadlineClose \/ DeadlineSend

Spec == Init /\ [][Next]_vars

(***************************************************************************)
(* Fairness: both goroutines and Run are scheduled, the SSH connections    *)
(* supply their bytes and take what is written to them, and the peer's     *)
(* host keeps delivering.  A full WebSocket still blocks its writer for as *)
(* long as nobody reads the other end, and nobody has to hang up.          *)
(***************************************************************************)
FairSpec ==
    /\ Spec
    /\ \A e \in Endpoint : WF_vars(RunSSH(e)) /\ WF_vars(RunWS(e)) /\ WF_vars(Run(e))

-----------------------------------------------------------------------------
(***************************************************************************)
(* Safety.                                                                 *)
(***************************************************************************)

\* wsWriter is "needed because gorilla doesn't support concurrent writes": an
\* endpoint never has two messages open, and mu is held exactly by the
\* goroutine that has one, on every path out of cancel.
OneWriter ==
    \A e \in Endpoint : \A g \in Goroutine : pc[e][g] = "send" <=> mu[e] = g

\* What runWS has written to an SSH connection is a prefix of the stream that
\* the SSH connection at the other end supplied: whatever breaks, and whatever
\* else a foreign peer sends, no byte is lost in the middle, repeated or moved.
StreamIntegrity ==
    \A e \in Endpoint : \A i \in DOMAIN out[e] : out[e][i] = i

\* An ACK never covers a byte that was not written to the SSH connection, be
\* it on the wire or taken in by readAck, although readData counts the bytes
\* before it writes them.
AckSound ==
    \A e \in Endpoint : ~IsForeign(e) =>
        /\ \A i \in DOMAIN wire[e] :
                wire[e][i].tag = "ACK" => wire[e][i].ack <= Len(out[e])
        /\ wCount[Peer(e)] <= Len(out[e])

\* Two endpoints that both run this code never find fault with each other's
\* commands: no reverse ACK, no second CONNECT_SUCCESS, no bad length, under
\* all interleavings of the four goroutines.
NoProtocolError ==
    (\A e \in Endpoint : ~IsForeign(e)) =>
        \A e \in Endpoint :
            runErr[e] # "proto" /\ \A g \in Goroutine : pc[e][g] # "proto"

\* "CONNECT_SUCCESS can only be sent to a client as the first command": a SID,
\* once known, is never replaced, whatever the peer sends later.
SidSetOnce == [][\A e \in Endpoint : sid[e] # "nil" => sid'[e] = sid[e]]_vars

\* What endpoint e knows to have come out at its peer; the ACKs of a foreign
\* peer are not to be believed.
Acked(e) == IF IsForeign(Peer(e)) THEN 0 ELSE wCount[e]

\* The two directions of a session as pipes.
Up == INSTANCE BytePipe WITH Length <- StreamLen["client"],
    taken <- inp["client"], got <- out["server"], acked <- Acked("client")
Down == INSTANCE BytePipe WITH Length <- StreamLen["server"],
    taken <- inp["server"], got <- out["client"], acked <- Acked("server")

\* From ssh(1) to the SSH server a session implements BytePipe, with
\* connections that break, deadlines that fire and a foreign endpoint that
\* sends what it likes.
ImplementsUp == Up!PSpec

\* The same from the SSH server to ssh(1).
ImplementsDown == Down!PSpec

(***************************************************************************)
(* Liveness, under FairSpec.                                               *)
(***************************************************************************)

\* A connection has failed, or was closed.
Failed ==
    \/ link = "down"
    \/ \E e \in Endpoint : ssh[e] = "closed" \/ \E g \in Goroutine : pc[e][g] \in {"EOF", "io"}

\* Run "starts bidirectional communication between the client and server":
\* unless a connection fails, both streams arrive and are acknowledged to the
\* end.
AllDelivered ==
    <>(Failed \/ \A e \in Endpoint : Len(out[e]) = StreamLen[Peer(e)] /\ wCount[e] = StreamLen[e])

\* Run at the relay is in Close, the SSH connection is closed, and nobody will
\* ever receive from done: the deadline has fired, and its own Close, or an
\* earlier one, has taken the watcher.
CloseBlocked == run["server"] = "send" /\ watcher = "gone" /\ deadline # "waits"

\* When one end is gone the other end's Run returns too: no error path leaves
\* a goroutine waiting for mu or for a message for ever.  The one exception is
\* the relay after a deadline's Close: Run gets as far as its own Close.
BothEnd ==
    \A e \in Endpoint : run[e] = "done"
        ~> run[Peer(e)] = "done" \/ (Peer(e) = "server" /\ CloseBlocked)

(***************************************************************************)
(* What the documentation says and the code does not do.                   *)
(***************************************************************************)

\* command.go: "ConnectSuccess is the first command after a /v4/connect
\* session is established".  runWS is started before runSSH and acknowledges
\* data without waiting for CONNECT_SUCCESS to have been sent.
ConnectFirst ==
    sid["client"] = "nil" /\ wire["server"] # << >>
        => Head(wire["server"]).tag = "CONNECT_SUCCESS"

\* session.go: "SetDeadline sets a maximum session deadline, after which the
\* session will be terminated".  Once the deadline's Close has taken the
\* watcher, Run's Close blocks before the WebSocket is closed, and nothing tells
\* the helper.
DeadlineTerminates == deadline # "waits" ~> run["client"] = "done"
=============================================================================
