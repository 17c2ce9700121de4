----------------------------- MODULE CorpRelay ------------------------------
(***************************************************************************)
(* One corp-relay@google.com session (version 1): the Session of the relay *)
(* and the Session of the helper, both made by corprelay.New, joined by a  *)
(* WebSocket.  Every message carries the sender's counter c, 4 bytes, as   *)
(* an acknowledgement, and data; there are no messages of their own for    *)
(* acknowledgements.  While Run is active                                  *)
(*                                                                         *)
(*   runSSH  reads the SSH connection and sends the counter and the data;  *)
(*   runWS   takes messages in, counts their bytes and writes them to the  *)
(*           SSH connection;                                               *)
(*   Run     waits for the first error, and then sends one more message,   *)
(*           the counter with its error bits set.                          *)
(*                                                                         *)
(* Session.mu is held by Run as a whole and keeps the two goroutines apart *)
(* neither from each other nor from Run: they share c and the WebSocket's  *)
(* writer.  Both runWS and Run load c, compute and store it, with nothing  *)
(* to keep the other's store from coming between.  gorilla supports one    *)
(* concurrent writer: its NextWriter closes, and so sends, a message that  *)
(* is still open, whose owner can no longer write to it, and it panics     *)
(* when it finds another flush in progress.  The atomic steps are the      *)
(* calls to gorilla, and a load or a store of c.                           *)
(*                                                                         *)
(* Close also sends on done, which blocks until somebody receives: at the  *)
(* helper one goroutine of the agent, at the relay the session manager's   *)
(* watcher, or SetDeadline's goroutine while it waits for its time.        *)
(*                                                                         *)
(* Bytes, payloads and foreign endpoints are as in CorpRelayV4.            *)
(***************************************************************************)
EXTENDS Integers, Sequences

CONSTANTS
    StreamLen,  \* bytes the SSH connection of each endpoint will supply
    BufLen,     \* bytes runSSH reads at most at a time
    CountMod,   \* the counter wraps every 24 bits: CountMod stands for 2^24
    ChanCap,    \* messages the connection holds before a flush blocks
    Foreign,    \* the sets of endpoints that may not run this code
    ForeignCap, \* messages such an endpoint has under way at most
    Faults      \* what may happen: an endpoint's SSH connection fails, "link", "deadline"

Endpoint == {"client", "server"}

Longest == LET a == StreamLen["client"] b == StreamLen["server"] IN IF a > b THEN a ELSE b

ASSUME SizeAssumption ==
    /\ StreamLen \in [Endpoint -> Nat]
    /\ BufLen \in Nat \ {0}
    /\ CountMod \in Nat \ {0}
    /\ ChanCap \in Nat \ {0}
    /\ ForeignCap \in Nat
ASSUME EnvAssumption == Foreign \subseteq SUBSET Endpoint /\ Faults \subseteq Endpoint \cup {"link", "deadline"}

Peer(e) == IF e = "client" THEN "server" ELSE "client"

VARIABLES
    c,      \* Session.c
    wsC,    \* the c that runWS has loaded to increment it
    runC,   \* the c that Run has loaded to set its error bits
    sshPc,  \* where runSSH is
    wsPc,   \* where runWS is
    run,    \* where Run and its caller are
    open,   \* the message open on the WebSocket: whose, its ack and data so far
    inp,    \* bytes runSSH has read from the SSH connection
    chunk,  \* what runSSH is about to send
    data,   \* what runWS is writing to the SSH connection
    out,    \* what has been written to the SSH connection
    ssh,    \* the SSH connection: open or closed by Close
    wire,   \* messages an endpoint has sent that its peer has not read
    link,   \* the TCP connection under the WebSocket
    watcher,    \* the relay's goroutine that receives once from done
    deadline    \* the relay's SetDeadline goroutine

countVars  == <<c, wsC, runC>>
streamVars == <<inp, chunk, data, out>>
doneVars   == <<watcher, deadline>>
vars == <<countVars, sshPc, wsPc, run, open, streamVars, ssh, wire, link, doneVars>>

\* An ack of CountMod or more has error bits (AckErrMask); NoAck stands for the
\* four bytes that were never written.
NoAck   == -1
Ack     == 0..(2 * CountMod - 1)
Payload == [lo : 0..Longest, n : 0..BufLen]
Frame   == [tag : {"BINARY"}, by : {"ssh", "run"}, ack : Ack \cup {NoAck},
            lo : 0..Longest, n : 0..BufLen]
           \cup [tag : {"TEXT"}]
Err     == {"EOF", "io", "proto"}       \* a goroutine in Err is in errc <- err

\* Every variable has its type; in particular a byte written to an SSH
\* connection has a position in one of the streams, and c stays within 32 bits.
TypeOK ==
    /\ c \in [Endpoint -> Ack]
    /\ wsC \in [Endpoint -> Ack]
    /\ runC \in [Endpoint -> Ack]
    /\ sshPc \in [Endpoint -> {"read", "open", "ack", "copy", "flush", "gone"} \cup Err]
    /\ wsPc \in [Endpoint -> {"read", "count", "add", "write", "gone"} \cup Err]
    /\ run \in [Endpoint -> {"foreign", "running", "open", "mask", "or", "ack", "flush",
                             "close", "send", "returned", "done"}]
    /\ open \in [Endpoint -> [by : {"none", "ssh", "run"}, ack : Ack \cup {NoAck},
                              data : Payload]]
    /\ inp \in [Endpoint -> 0..Longest]
    /\ chunk \in [Endpoint -> Payload]
    /\ data \in [Endpoint -> Payload]
    /\ out \in [Endpoint -> Seq(1..Longest)]
    /\ ssh \in [Endpoint -> {"open", "closed"}]
    /\ wire \in [Endpoint -> Seq(Frame)]
    /\ link \in {"up", "down"}
    /\ watcher \in {"waits", "gone"}
    /\ deadline \in {"waits", "sends", "gone"}

Nothing == [lo |-> 0, n |-> 0]
Message(w) == [by |-> w, ack |-> NoAck, data |-> Nothing]
NoMessage == Message("none")

\* The endpoint is another implementation of the protocol.
IsForeign(e) == run[e] = "foreign"

\* New, then Run up to <-errc.
Init ==
    /\ c = [e \in Endpoint |-> 0]
    /\ wsC = [e \in Endpoint |-> 0]
    /\ runC = [e \in Endpoint |-> 0]
    /\ \E F \in Foreign :
        /\ sshPc = [e \in Endpoint |-> IF e \in F THEN "gone" ELSE "read"]
        /\ wsPc = [e \in Endpoint |-> IF e \in F THEN "gone" ELSE "read"]
        /\ run = [e \in Endpoint |-> IF e \in F THEN "foreign" ELSE "running"]
    /\ open = [e \in Endpoint |-> NoMessage]
    /\ inp = [e \in Endpoint |-> 0]
    /\ chunk = [e \in Endpoint |-> Nothing]
    /\ data = [e \in Endpoint |-> Nothing]
    /\ out = [e \in Endpoint |-> << >>]
    /\ ssh = [e \in Endpoint |-> "open"]
    /\ wire = [e \in Endpoint |-> << >>]
    /\ link = "up"
    /\ watcher = "waits"
    /\ deadline = "waits"

(***************************************************************************)
(* Faulty variants of operations below: the mistakes the properties at the *)
(* end of the module must be able to tell from the code.                   *)
(***************************************************************************)

\* The counter is taken modulo ChunkSize instead of masked with it.
incCounter_Modulo(e, n) == c' = [c EXCEPT ![e] = (wsC[e] + n) % (CountMod - 1)]

\* The counter runs on into the error bits.
incCounter_NoMask(e, n) == c' = [c EXCEPT ![e] = (wsC[e] + n) % (2 * CountMod)]

\* The data is copied from one byte too early.
Bytes_OffByOne(p, k) == [i \in 1..k |-> p.lo + i - 1]

\* copyWS drops the error of ssh.Write.
SshWriteFails_Ignored(e) ==
    /\ wsPc[e] = "write"
    /\ \/ e \in Faults /\ \E k \in 0..(data[e].n - 1) :
            out' = [out EXCEPT ![e] = @ \o [i \in 1..k |-> data[e].lo + i]]
       \/ ssh[e] = "closed" /\ UNCHANGED out
    /\ data' = [data EXCEPT ![e] = Nothing]
    /\ wsPc' = [wsPc EXCEPT ![e] = "read"]
    /\ UNCHANGED <<countVars, sshPc, run, open, inp, chunk, ssh, wire, link, doneVars>>

\* runSSH leaves its message open for the next NextWriter to send.
SshFlush_Forgotten(e) ==
    /\ sshPc[e] = "flush"
    /\ sshPc' = [sshPc EXCEPT ![e] = "read"]
    /\ UNCHANGED <<countVars, wsPc, run, open, streamVars, ssh, wire, link, doneVars>>

\* Run waits for both goroutines before it tells the other end.
RunRecvErr_WaitsForBoth(e) ==
    /\ run[e] = "running"
    /\ sshPc[e] \in Err
    /\ wsPc[e] \in Err
    /\ sshPc' = [sshPc EXCEPT ![e] = "gone"]
    /\ wsPc' = [wsPc EXCEPT ![e] = "gone"]
    /\ run' = [run EXCEPT ![e] = "open"]
    /\ UNCHANGED <<countVars, open, streamVars, ssh, wire, link, doneVars>>

\* The caller of Run returns and leaves the WebSocket open.
CallerReturns_KeepsWs(e) ==
    /\ run[e] = "returned"
    /\ run' = [run EXCEPT ![e] = "done"]
    /\ UNCHANGED <<countVars, sshPc, wsPc, open, streamVars, ssh, wire, link, doneVars>>

(***************************************************************************)
(* The writer half of gorilla's Conn.                                      *)
(***************************************************************************)

\* The open message is written to the connection; this blocks while it is full.
Flush(e) ==
    LET m == open[e]
    IN  /\ Len(wire[e]) < ChanCap
        /\ wire' = [wire EXCEPT ![e] = Append(@,
                [tag |-> "BINARY", by |-> m.by, ack |-> m.ack, lo |-> m.data.lo, n |-> m.data.n])]

\* NextWriter opens a message for w; one that is open already is sent as it is.
NextWriter(e, w) ==
    /\ link = "up"
    /\ IF open[e].by = "none" THEN UNCHANGED wire ELSE Flush(e)
    /\ open' = [open EXCEPT ![e] = Message(w)]

\* w's message is closed.  That says nothing if NextWriter closed it before;
\* on a broken connection the message is lost.
CloseMessage(e, w) ==
    IF open[e].by = w
      THEN /\ \/ link = "up" /\ Flush(e)
              \/ link = "down" /\ UNCHANGED wire
           /\ open' = [open EXCEPT ![e] = NoMessage]
      ELSE UNCHANGED <<open, wire>>

(***************************************************************************)
(* runSSH.                                                                 *)
(***************************************************************************)
SshRead(e) ==
    /\ sshPc[e] = "read"
    /\ ssh[e] = "open"
    /\ \E k \in 1..BufLen :
        /\ inp[e] + k <= StreamLen[e]
        /\ inp' = [inp EXCEPT ![e] = inp[e] + k]
        /\ chunk' = [chunk EXCEPT ![e] = [lo |-> inp[e], n |-> k]]
    /\ sshPc' = [sshPc EXCEPT ![e] = "open"]
    /\ UNCHANGED <<countVars, wsPc, run, open, data, out, ssh, wire, link, doneVars>>

\* The SSH side has hung up.
SshReadEOF(e) ==
    /\ e \in Faults
    /\ sshPc[e] = "read"
    /\ ssh[e] = "open"
    /\ sshPc' = [sshPc EXCEPT ![e] = "EOF"]
    /\ UNCHANGED <<countVars, wsPc, run, open, streamVars, ssh, wire, link, doneVars>>

\* Close has closed the connection.
SshReadFails(e) ==
    /\ sshPc[e] = "read"
    /\ ssh[e] = "closed"
    /\ sshPc' = [sshPc EXCEPT ![e] = "io"]
    /\ UNCHANGED <<countVars, wsPc, run, open, streamVars, ssh, wire, link, doneVars>>

SshOpen(e) ==
    /\ sshPc[e] = "open"
    /\ NextWriter(e, "ssh")
    /\ sshPc' = [sshPc EXCEPT ![e] = "ack"]
    /\ UNCHANGED <<countVars, wsPc, run, streamVars, ssh, link, doneVars>>

SshOpenFails(e) ==
    /\ sshPc[e] = "open"
    /\ link = "down"
    /\ sshPc' = [sshPc EXCEPT ![e] = "io"]
    /\ UNCHANGED <<countVars, wsPc, run, open, streamVars, ssh, wire, link, doneVars>>

\* writeAck.
SshWriteAck(e) ==
    /\ sshPc[e] = "ack"
    /\ open[e].by = "ssh"
    /\ open' = [open EXCEPT ![e].ack = c[e]]
    /\ sshPc' = [sshPc EXCEPT ![e] = "copy"]
    /\ UNCHANGED <<countVars, wsPc, run, streamVars, ssh, wire, link, doneVars>>

copySSH(e) ==
    /\ sshPc[e] = "copy"
    /\ open[e].by = "ssh"
    /\ open' = [open EXCEPT ![e].data = chunk[e]]
    /\ chunk' = [chunk EXCEPT ![e] = Nothing]
    /\ sshPc' = [sshPc EXCEPT ![e] = "flush"]
    /\ UNCHANGED <<countVars, wsPc, run, inp, data, out, ssh, wire, link, doneVars>>

\* Run has closed the message, which writeAck finds, too, or the connection
\* turns out to be broken; the deferred Close of the message comes before
\* errc <- err.
copySSHFails(e) ==
    /\ \/ sshPc[e] \in {"ack", "copy"} /\ open[e].by # "ssh" /\ UNCHANGED open
       \/ sshPc[e] = "copy" /\ open[e].by = "ssh" /\ link = "down"
          /\ open' = [open EXCEPT ![e] = NoMessage]
    /\ sshPc' = [sshPc EXCEPT ![e] = "io"]
    /\ UNCHANGED <<countVars, wsPc, run, streamVars, ssh, wire, link, doneVars>>

\* The deferred w.Close(), whose error is dropped.
SshFlush(e) ==
    /\ sshPc[e] = "flush"
    /\ CloseMessage(e, "ssh")
    /\ sshPc' = [sshPc EXCEPT ![e] = "read"]
    /\ UNCHANGED <<countVars, wsPc, run, streamVars, ssh, link, doneVars>>

\* runSSH flushes while Run does: gorilla panics, and since nothing recovers
\* in this goroutine the process ends.
SshPanics(e) ==
    /\ \/ sshPc[e] = "flush" /\ run[e] = "open" /\ open[e].by = "ssh"
       \/ sshPc[e] = "open" /\ run[e] = "flush" /\ open[e].by = "run"
    /\ link = "up"
    /\ sshPc' = [sshPc EXCEPT ![e] = "gone"]
    /\ wsPc' = [wsPc EXCEPT ![e] = "gone"]
    /\ run' = [run EXCEPT ![e] = "done"]
    /\ ssh' = [ssh EXCEPT ![e] = "closed"]
    /\ link' = "down"
    /\ IF e = "server" THEN watcher' = "gone" /\ deadline' = "gone" ELSE UNCHANGED doneVars
    /\ UNCHANGED <<countVars, open, streamVars, wire>>

(***************************************************************************)
(* runWS: NextReader, parseBinary, parseText, readAck and copyWS.          *)
(***************************************************************************)
WsReady(e) ==
    /\ wsPc[e] = "read"
    /\ wire[Peer(e)] # << >>

Incoming(e) == Head(wire[Peer(e)])

Receive(e) == wire' = [wire EXCEPT ![Peer(e)] = Tail(@)]

\* The store of incCounter: & ChunkSize drops the error bits, too.
incCounter(e, n) == c' = [c EXCEPT ![e] = (wsC[e] + n) % CountMod]

\* readAck accepts an ack without error bits, and only looks at those.
GoodAck(a) == a \in 0..(CountMod - 1)

RecvBinary(e) ==
    /\ WsReady(e)
    /\ Incoming(e).tag = "BINARY"
    /\ Receive(e)
    /\ IF GoodAck(Incoming(e).ack)
         THEN /\ data' = [data EXCEPT ![e] = [lo |-> Incoming(e).lo, n |-> Incoming(e).n]]
              /\ wsPc' = [wsPc EXCEPT ![e] = "count"]
         ELSE /\ wsPc' = [wsPc EXCEPT ![e] = "proto"]
              /\ UNCHANGED data
    /\ UNCHANGED <<countVars, sshPc, run, open, inp, chunk, out, ssh, link, doneVars>>

\* incCounter loads c ...
CountLoad(e) ==
    /\ wsPc[e] = "count"
    /\ wsC' = [wsC EXCEPT ![e] = c[e]]
    /\ wsPc' = [wsPc EXCEPT ![e] = "add"]
    /\ UNCHANGED <<c, runC, sshPc, run, open, streamVars, ssh, wire, link, doneVars>>

\* ... and stores the sum, whatever Run has stored meanwhile.
CountStore(e) ==
    /\ wsPc[e] = "add"
    /\ incCounter(e, data[e].n)
    /\ wsC' = [wsC EXCEPT ![e] = 0]
    /\ wsPc' = [wsPc EXCEPT ![e] = "write"]
    /\ UNCHANGED <<runC, sshPc, run, open, streamVars, ssh, wire, link, doneVars>>

\* Latency reports are read and ignored.
RecvText(e) ==
    /\ WsReady(e)
    /\ Incoming(e).tag = "TEXT"
    /\ Receive(e)
    /\ UNCHANGED <<countVars, sshPc, wsPc, run, open, streamVars, ssh, link, doneVars>>

\* The bytes of a payload, as far as the first k.
Bytes(p, k) == [i \in 1..k |-> p.lo + i]

SshWrite(e) ==
    /\ wsPc[e] = "write"
    /\ ssh[e] = "open"
    /\ out' = [out EXCEPT ![e] = @ \o Bytes(data[e], data[e].n)]
    /\ data' = [data EXCEPT ![e] = Nothing]
    /\ wsPc' = [wsPc EXCEPT ![e] = "read"]
    /\ UNCHANGED <<countVars, sshPc, run, open, inp, chunk, ssh, wire, link, doneVars>>

SshWriteFails(e) ==
    /\ wsPc[e] = "write"
    /\ \/ e \in Faults /\ \E k \in 0..(data[e].n - 1) :
            out' = [out EXCEPT ![e] = @ \o Bytes(data[e], k)]
       \/ ssh[e] = "closed" /\ UNCHANGED out
    /\ data' = [data EXCEPT ![e] = Nothing]
    /\ wsPc' = [wsPc EXCEPT ![e] = "io"]
    /\ UNCHANGED <<countVars, sshPc, run, open, inp, chunk, ssh, wire, link, doneVars>>

WsReadFails(e) ==
    /\ wsPc[e] = "read"
    /\ link = "down"
    /\ wsPc' = [wsPc EXCEPT ![e] = "io"]
    /\ UNCHANGED <<countVars, sshPc, run, open, streamVars, ssh, wire, link, doneVars>>

(***************************************************************************)
(* Run, after <-errc: the error ack, statement by statement, then Close.   *)
(* What becomes of the watcher's session table is in RelaySessions.        *)
(***************************************************************************)
RunRecvErr(e) ==
    /\ run[e] = "running"
    /\ \/ sshPc[e] \in Err /\ sshPc' = [sshPc EXCEPT ![e] = "gone"] /\ UNCHANGED wsPc
       \/ wsPc[e] \in Err /\ wsPc' = [wsPc EXCEPT ![e] = "gone"] /\ UNCHANGED sshPc
    /\ run' = [run EXCEPT ![e] = "open"]
    /\ UNCHANGED <<countVars, open, streamVars, ssh, wire, link, doneVars>>

RunNextWriter(e) ==
    /\ run[e] = "open"
    /\ \/ NextWriter(e, "run") /\ run' = [run EXCEPT ![e] = "mask"]
       \/ link = "down" /\ run' = [run EXCEPT ![e] = "close"] /\ UNCHANGED <<open, wire>>
    /\ UNCHANGED <<countVars, sshPc, wsPc, streamVars, ssh, link, doneVars>>

\* Run flushes while runSSH does: the deferred calls of Run and of its caller
\* still happen.
RunPanics(e) ==
    /\ link = "up"
    /\ \/ run[e] = "open" /\ sshPc[e] = "flush" /\ open[e].by = "ssh"
       \/ run[e] = "flush" /\ sshPc[e] = "open" /\ open[e].by = "run"
    /\ run' = [run EXCEPT ![e] = "close"]
    /\ UNCHANGED <<countVars, sshPc, wsPc, open, streamVars, ssh, wire, link, doneVars>>

\* x | AckErrMask.
Masked(x) == IF x < CountMod THEN x + CountMod ELSE x

\* s.c |= AckErrMask: the load ...
RunLoad(e) ==
    /\ run[e] = "mask"
    /\ runC' = [runC EXCEPT ![e] = c[e]]
    /\ run' = [run EXCEPT ![e] = "or"]
    /\ UNCHANGED <<c, wsC, sshPc, wsPc, open, streamVars, ssh, wire, link, doneVars>>

\* ... and the store, which undoes what runWS has counted meanwhile.
RunMask(e) ==
    /\ run[e] = "or"
    /\ c' = [c EXCEPT ![e] = Masked(runC[e])]
    /\ run' = [run EXCEPT ![e] = "ack"]
    /\ UNCHANGED <<wsC, runC, sshPc, wsPc, open, streamVars, ssh, wire, link, doneVars>>

\* writeAck, whose error is ignored.  The argument may be loaded again or be
\* the value just stored: the compiler need not expect another goroutine's.
RunWriteAck(e) ==
    /\ run[e] = "ack"
    /\ \E a \in {c[e], Masked(runC[e])} :
        open' = IF open[e].by = "run" THEN [open EXCEPT ![e].ack = a] ELSE open
    /\ runC' = [runC EXCEPT ![e] = 0]
    /\ run' = [run EXCEPT ![e] = "flush"]
    /\ UNCHANGED <<c, wsC, sshPc, wsPc, streamVars, ssh, wire, link, doneVars>>

\* The deferred Close of the message.
RunFlush(e) ==
    /\ run[e] = "flush"
    /\ CloseMessage(e, "run")
    /\ run' = [run EXCEPT ![e] = "close"]
    /\ UNCHANGED <<countVars, sshPc, wsPc, streamVars, ssh, link, doneVars>>

RunClose(e) ==
    /\ run[e] = "close"
    /\ ssh' = [ssh EXCEPT ![e] = "closed"]
    /\ run' = [run EXCEPT ![e] = "send"]
    /\ UNCHANGED <<countVars, sshPc, wsPc, open, streamVars, wire, link, doneVars>>

\* s.done <- struct{}{} in Close needs a receiver.  The agent's goroutine
\* receives the helper's, the only one there; the relay's goes to the watcher
\* or to the deadline, as long as they wait.
RunSend(e) ==
    /\ run[e] = "send"
    /\ \/ e = "client" /\ UNCHANGED doneVars
       \/ e = "server" /\ watcher = "waits" /\ watcher' = "gone" /\ UNCHANGED deadline
       \/ e = "server" /\ deadline = "waits" /\ deadline' = "gone" /\ UNCHANGED watcher
    /\ run' = [run EXCEPT ![e] = "returned"]
    /\ UNCHANGED <<countVars, sshPc, wsPc, open, streamVars, ssh, wire, link>>

\* connectHandle closes the WebSocket; the helper's process ends.
CallerReturns(e) ==
    /\ run[e] = "returned"
    /\ link' = "down"
    /\ run' = [run EXCEPT ![e] = "done"]
    /\ UNCHANGED <<countVars, sshPc, wsPc, open, streamVars, ssh, wire, doneVars>>

(***************************************************************************)
(* The environment.                                                        *)
(***************************************************************************)
LinkBreaks ==
    /\ "link" \in Faults
    /\ link = "up"
    /\ link' = "down"
    /\ UNCHANGED <<countVars, sshPc, wsPc, run, open, streamVars, ssh, wire, doneVars>>

\* session.SetDeadline closes the relay's SSH connection under Run's feet; its
\* time comes before or after Run's own Close.
DeadlineClose ==
    /\ "deadline" \in Faults
    /\ ~IsForeign("server")
    /\ deadline = "waits"
    /\ deadline' = "sends"
    /\ ssh' = [ssh EXCEPT !["server"] = "closed"]
    /\ UNCHANGED <<countVars, sshPc, wsPc, run, open, streamVars, wire, link, watcher>>

\* That Close sends on done, too, and only the watcher can receive it.
DeadlineSend ==
    /\ deadline = "sends"
    /\ watcher = "waits"
    /\ deadline' = "gone"
    /\ watcher' = "gone"
    /\ UNCHANGED <<countVars, sshPc, wsPc, run, open, streamVars, ssh, wire, link>>

\* Another implementation sends data with any ack, or text.
ForeignSend(e) ==
    /\ IsForeign(e)
    /\ link = "up"
    /\ Len(wire[e]) < ForeignCap
    /\ \/ \E k \in 0..BufLen, a \in Ack \cup {NoAck} :
            /\ inp[e] + k <= StreamLen[e]
            /\ inp' = [inp EXCEPT ![e] = inp[e] + k]
            /\ wire' = [wire EXCEPT ![e] = Append(@,
                    [tag |-> "BINARY", by |-> "ssh", ack |-> a, lo |-> inp[e], n |-> k])]
       \/ wire' = [wire EXCEPT ![e] = Append(@, [tag |-> "TEXT"])] /\ UNCHANGED inp
    /\ UNCHANGED <<countVars, sshPc, wsPc, run, open, chunk, data, out, ssh, link, doneVars>>

ForeignRecv(e) ==
    /\ IsForeign(e)
    /\ wire[Peer(e)] # << >>
    /\ Receive(e)
    /\ UNCHANGED <<countVars, sshPc, wsPc, run, open, streamVars, ssh, link, doneVars>>

-----------------------------------------------------------------------------
RunSSH(e) ==
    \/ SshRead(e) \/ SshReadFails(e) \/ SshOpen(e) \/ SshOpenFails(e)
    \/ SshWriteAck(e) \/ copySSH(e) \/ copySSHFails(e) \/ SshFlush(e) \/ SshPanics(e)

RunWS(e) ==
    \/ RecvBinary(e) \/ RecvText(e) \/ WsReadFails(e) \/ CountLoad(e) \/ CountStore(e)
    \/ SshWrite(e) \/ SshWriteFails(e)

Run(e) ==
    \/ RunRecvErr(e) \/ RunNextWriter(e) \/ RunPanics(e) \/ RunLoad(e) \/ RunMask(e)
    \/ RunWriteAck(e) \/ RunFlush(e) \/ RunClose(e) \/ RunSend(e) \/ CallerReturns(e)

Next ==
    \/ \E e \in Endpoint : \/ RunSSH(e) \/ SshReadEOF(e) \/ RunWS(e) \/ Run(e)
                          \/ ForeignSend(e) \/ ForeignRecv(e)
    \/ LinkBreaks \/ DeadlineClose \/ DeadlineSend

Spec == Init /\ [][Next]_vars

(***************************************************************************)
(* Fairness, as in CorpRelayV4: the goroutines and Run are scheduled, and  *)
(* the SSH connections supply their bytes and take what is written; nobody *)
(* has to hang up.                                                         *)
(***************************************************************************)
FairSpec ==
    /\ Spec
    /\ \A e \in Endpoint : WF_vars(RunSSH(e)) /\ WF_vars(RunWS(e)) /\ WF_vars(Run(e))

-----------------------------------------------------------------------------
(***************************************************************************)
(* Safety.                                                                 *)
(***************************************************************************)

\* What runWS has written to an SSH connection is a prefix of what the other
\* SSH connection supplied, also when Run closes runSSH's message half way,
\* and whatever acks and text a foreign peer mixes in.
StreamIntegrity ==
    \A e \in Endpoint : \A i \in DOMAIN out[e] : out[e][i] = i

\* Until Run stores its error bits, the counter between messages, and so the
\* next ack, is the number of bytes written to the SSH connection modulo 2^24,
\* with any number of wraps: runSSH and the start of Run's epilogue leave it
\* alone.  (Not later: an increment that Run's load misses is lost.)
CounterExact ==
    \A e \in Endpoint :
        wsPc[e] = "read" /\ run[e] \in {"running", "open", "mask", "or"}
            => c[e] = Len(out[e]) % CountMod

\* readAck finds an invalid ack only in a session whose other end has failed:
\* a counter that wraps is never taken for an error.
ErrorHasCause ==
    \A e \in Endpoint : wsPc[e] = "proto" => run[Peer(e)] # "running"

\* The two directions of a session as pipes.  readAck looks at error bits only:
\* of a byte that has come out the sender is never told.
Up == INSTANCE BytePipe WITH Length <- StreamLen["client"],
    taken <- inp["client"], got <- out["server"], acked <- 0
Down == INSTANCE BytePipe WITH Length <- StreamLen["server"],
    taken <- inp["server"], got <- out["client"], acked <- 0

\* Both directions of a session implement BytePipe, with connections that
\* break, deadlines that fire, two writers on one WebSocket and a foreign
\* endpoint that sends what it likes: runWS writes only what the other runSSH
\* had read before, and never takes anything back.
ImplementsPipes == Up!PSpec /\ Down!PSpec

(***************************************************************************)
(* Liveness, under FairSpec.                                               *)
(***************************************************************************)

\* A connection has failed, or was closed.
Failed ==
    link = "down" \/ \E e \in Endpoint : ssh[e] = "closed" \/ {sshPc[e], wsPc[e]} \cap Err # {}

\* Unless a connection fails both streams arrive to the end, however little
\* the connection holds: runWS sends nothing, so it never stops reading.
AllDelivered == <>(Failed \/ \A e \in Endpoint : Len(out[e]) = StreamLen[Peer(e)])

\* Run at the relay is in Close, the SSH connection is closed, and nobody will
\* ever receive from done: the deadline has fired, and its own Close, or an
\* earlier one, has taken the watcher.
CloseBlocked == run["server"] = "send" /\ watcher = "gone" /\ deadline # "waits"

\* When one end is gone the other end's Run returns, too, unless a deadline's
\* Close has come before: then Run gets as far as its own Close.
BothEnd ==
    \A e \in Endpoint : run[e] = "done"
        ~> run[Peer(e)] = "done" \/ (Peer(e) = "server" /\ CloseBlocked)

\* A goroutine's error ends Run and the connection, whatever is left in the
\* buffers, but for two cases.  The peer's runWS has stopped reading as well:
\* then neither error ack can be flushed, and no flush has a timeout.  Or it is
\* the relay, and the deadline's Close has left Run's nobody to receive.
ErrorEndsRun ==
    \A e \in Endpoint : {sshPc[e], wsPc[e]} \cap Err # {}
        ~> \/ run[e] = "done"
           \/ wsPc[Peer(e)] \notin {"read", "count", "add", "write"}
           \/ e = "server" /\ CloseBlocked

(***************************************************************************)
(* What the documentation says and the code does not do.                   *)
(***************************************************************************)

\* corprelayv4.go guards every message with mu "because gorilla doesn't support
\* concurrent writes".  Here Run opens its message without regard to runSSH's.
OneWriter ==
    \A e \in Endpoint :
        ~(sshPc[e] \in {"ack", "copy", "flush"} /\ run[e] \in {"mask", "or", "ack", "flush"})

\* Run's last message is to "inform the WebSocket the connection is in an
\* error state".  runWS may clear the error bits before they are sent.
ErrorAckMarked ==
    \A e \in Endpoint : \A i \in DOMAIN wire[e] :
        wire[e][i].tag = "BINARY" /\ wire[e][i].by = "run" => ~GoodAck(wire[e][i].ack)

\* "incCounter increments the counter by n": also while Run sets its error bits,
\* so that the counter between messages always stands for the bytes written.
EveryIncrementCounts ==
    \A e \in Endpoint : wsPc[e] = "read" => c[e] % CountMod = Len(out[e]) % CountMod
=============================================================================
