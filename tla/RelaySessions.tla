--------------------------- MODULE RelaySessions ---------------------------
(***************************************************************************)
(* The life of the sessions of one SSH Relay process: the session manager, *)
(* the HTTP handlers of /proxy, /connect and /v4/connect, and the          *)
(* goroutines every session carries:                                       *)
(*                                                                         *)
(*   - the deadline goroutine of session.SetDeadline;                      *)
(*   - the watcher goroutine Manager.New starts, which waits on Done() and *)
(*     then deletes the session from the registry;                         *)
(*   - runSSH and runWS, two per call of Run, which report their first     *)
(*     error on the unbuffered channel errc.                               *)
(*                                                                         *)
(* The channel done of a session is unbuffered and is never closed: Close  *)
(* sends ONE value on it and waits for a receiver.  A session has up to    *)
(* two receivers (deadline, watcher) and any number of senders (deadline,  *)
(* every Run).  Who meets whom is what this module is about; the bytes     *)
(* that Run relays are left to CorpRelay and CorpRelayV4.                  *)
(*                                                                         *)
(* A session is named by the request that created it (uuid.New() never     *)
(* returns a name twice), so one set, Req, names requests and sessions.    *)
(***************************************************************************)
EXTENDS Integers, FiniteSets

CONSTANTS
    Req,          \* the HTTP requests the relay serves; also the session IDs
    Asks,         \* the endpoints each request may be addressed to
    Versions,     \* protocol_versions of the configuration
    MaxSessions,  \* max_sessions of the configuration; <= 0 is "no limit"
    MaxAge        \* max_session_age in clock ticks; 0 when it is unset

ASSUME ReqAssumption == IsFiniteSet(Req)
ASSUME AsksAssumption == Asks \in [Req -> SUBSET {"proxy", "connect", "v4"}]
ASSUME VersionsAssumption == Versions \subseteq {"CORP_RELAY", "CORP_RELAY_V4"}
ASSUME LimitAssumption == MaxSessions \in Int /\ MaxAge \in Nat

VARIABLES
    sessions,  \* the keys of Manager.sessions
    kind,      \* which endpoint the request was sent to
    pc,        \* where the request's handler is
    sess,      \* the session the handler works on (the request itself until Get)
    ssh,       \* the TCP connection to the SSH server that the request dialled
    ws,        \* the WebSocket the request was upgraded to
    wsOf,      \* the field ws of the session: whose WebSocket it points to
    runErr,    \* the error that Run, called by this request, received on errc
    sshG,      \* goroutine runSSH of the request's Run
    wsG,       \* goroutine runWS of the request's Run
    mu,        \* corprelay.Session.mu of the session (sync.RWMutex): held?
    deadline,  \* goroutine of session.SetDeadline
    watcher,   \* goroutine of Manager.New
    age        \* ticks since the session was created

handlerVars == <<kind, pc, sess, ws, runErr>>
copyVars    == <<sshG, wsG, wsOf>>
timerVars   == <<deadline, watcher, age>>
vars == <<sessions, ssh, mu, handlerVars, copyVars, timerVars>>

(***************************************************************************)
(* Types.                                                                  *)
(***************************************************************************)
Kind    == {"none", "proxy", "connect", "v4"}
Pc      == {"idle", "dialed", "upgrade", "run", "running", "unlock",
            "close", "send", "returned", "delete", "closews", "done"}
Err     == {"EOF", "other"}
\* A goroutine in Err is blocked in errc <- err.  runSSH is in "read" while it
\* reads the SSH connection and in "write" while it writes to the WebSocket.
Copier  == {"none", "read", "write", "exited"} \cup Err

\* Every variable has its type: no request is in a state no handler has, and
\* no session lives longer than max_session_age.
TypeOK ==
    /\ sessions \subseteq Req
    /\ kind \in [Req -> Kind]
    /\ pc \in [Req -> Pc]
    /\ sess \in [Req -> Req]
    /\ ssh \in [Req -> {"none", "open", "eof", "closed"}]
    /\ ws \in [Req -> {"none", "open", "gone", "closed"}]
    /\ wsOf \in [Req -> Req]
    /\ runErr \in [Req -> {"none"} \cup Err]
    /\ sshG \in [Req -> Copier]
    /\ wsG \in [Req -> Copier]
    /\ mu \in [Req -> BOOLEAN]
    /\ deadline \in [Req -> {"none", "select", "close", "send", "exited"}]
    /\ watcher \in [Req -> {"none", "recv", "delete", "exited"}]
    /\ age \in [Req -> 0..MaxAge]

Created(s) == deadline[s] # "none"
IsV1(s)    == kind[s] = "proxy"       \* made by corprelay.New
IsV4(s)    == kind[s] = "v4"          \* made by corprelayv4.New

Init ==
    /\ sessions = {}
    /\ kind = [r \in Req |-> "none"]
    /\ pc = [r \in Req |-> "idle"]
    /\ sess = [r \in Req |-> r]
    /\ ssh = [r \in Req |-> "none"]
    /\ ws = [r \in Req |-> "none"]
    /\ wsOf = [r \in Req |-> r]
    /\ runErr = [r \in Req |-> "none"]
    /\ sshG = [r \in Req |-> "none"]
    /\ wsG = [r \in Req |-> "none"]
    /\ mu = [r \in Req |-> FALSE]
    /\ deadline = [r \in Req |-> "none"]
    /\ watcher = [r \in Req |-> "none"]
    /\ age = [r \in Req |-> 0]

(***************************************************************************)
(* Faulty variants of operations below: the mistakes the properties at the *)
(* end of the module must be able to tell from the code.                   *)
(***************************************************************************)

\* The limit is tested with > instead of >=.
AtLimit_OffByOne == MaxSessions > 0 /\ Cardinality(sessions) > MaxSessions

\* Run takes only the read lock, which does not exclude another Run.
RunStart_NoLock(r) ==
    /\ pc[r] = "run"
    /\ mu' = [mu EXCEPT ![sess[r]] = IsV1(sess[r])]
    /\ wsOf' = [wsOf EXCEPT ![sess[r]] = r]
    /\ sshG' = [sshG EXCEPT ![r] = IF IsV1(sess[r]) THEN "read" ELSE "write"]
    /\ wsG' = [wsG EXCEPT ![r] = "read"]
    /\ pc' = [pc EXCEPT ![r] = "running"]
    /\ UNCHANGED <<sessions, ssh, kind, sess, ws, runErr, timerVars>>

\* Run returns without closing the SSH connection, and still reports done.
RunClose_Forgotten(r) ==
    /\ pc[r] = "close"
    /\ pc' = [pc EXCEPT ![r] = "send"]
    /\ UNCHANGED <<sessions, ssh, mu, kind, sess, ws, runErr, copyVars, timerVars>>

\* connectHandle closes the WebSocket and returns: the deferred Delete is lost.
ConnectCloseWs_NoDelete(r) ==
    /\ pc[r] = "returned"
    /\ kind[r] = "connect"
    /\ ws' = [ws EXCEPT ![r] = "closed"]
    /\ pc' = [pc EXCEPT ![r] = "done"]
    /\ UNCHANGED <<sessions, ssh, mu, kind, sess, runErr, copyVars, timerVars>>

\* connectHandleV4 takes every error for a connection that may come back.
V4CloseWs_NeverDelete(r) ==
    /\ kind[r] = "v4"
    /\ pc[r] \in {"closews", "returned"}
    /\ ws' = [ws EXCEPT ![r] = "closed"]
    /\ pc' = [pc EXCEPT ![r] = "done"]
    /\ UNCHANGED <<sessions, ssh, mu, kind, sess, runErr, copyVars, timerVars>>

\* Run waits for runWS only: an error of runSSH wakes nobody.
RunRecvErr_WsOnly(r) ==
    /\ pc[r] = "running"
    /\ wsG[r] \in Err
    /\ runErr' = [runErr EXCEPT ![r] = wsG[r]]
    /\ wsG' = [wsG EXCEPT ![r] = "exited"]
    /\ pc' = [pc EXCEPT ![r] = IF IsV1(sess[r]) THEN "unlock" ELSE "close"]
    /\ UNCHANGED <<sessions, ssh, mu, kind, sess, ws, sshG, wsOf, timerVars>>

\* runSSH reports on errc after every message, a nil error when all went well.
RunRecvErr_EveryMessage(r) ==
    /\ pc[r] = "running"
    /\ sshG[r] \in Err \cup {"write"}
    /\ runErr' = [runErr EXCEPT ![r] = sshG[r]]
    /\ sshG' = [sshG EXCEPT ![r] = "exited"]
    /\ pc' = [pc EXCEPT ![r] = IF IsV1(sess[r]) THEN "unlock" ELSE "close"]
    /\ UNCHANGED <<sessions, ssh, mu, kind, sess, ws, wsG, wsOf, timerVars>>

\* Run calls Close and defers it as well: it sends on done twice.
HandlerToWatcher_CloseTwice(r) ==
    /\ pc[r] = "send"
    /\ watcher[sess[r]] = "recv"
    /\ watcher' = [watcher EXCEPT ![sess[r]] = "delete"]
    /\ UNCHANGED <<sessions, ssh, mu, handlerVars, copyVars, deadline, age>>

\* The timer never fires.
DeadlineFire_Late(s) ==
    /\ deadline[s] = "select"
    /\ age[s] > MaxAge
    /\ deadline' = [deadline EXCEPT ![s] = "close"]
    /\ UNCHANGED <<sessions, ssh, mu, handlerVars, copyVars, watcher, age>>

\* The timer fires before the session is MaxAge old.
DeadlineFire_Early(s) ==
    /\ deadline[s] = "select"
    /\ deadline' = [deadline EXCEPT ![s] = "close"]
    /\ UNCHANGED <<sessions, ssh, mu, handlerVars, copyVars, watcher, age>>

\* The watcher returns without deleting the session.
WatcherDelete_Forgotten(s) ==
    /\ watcher[s] = "delete"
    /\ watcher' = [watcher EXCEPT ![s] = "exited"]
    /\ UNCHANGED <<sessions, ssh, mu, handlerVars, copyVars, deadline, age>>

(***************************************************************************)
(* The registry.  Each operation holds Manager.mu from start to end, so    *)
(* each is one step.                                                       *)
(***************************************************************************)
AtLimit == MaxSessions > 0 /\ Cardinality(sessions) >= MaxSessions

protocolEnabled(v) == v \in Versions

\* Manager.Delete: removes the key and nothing else; it does not call Close.
Delete(s) == sessions' = sessions \ {s}

(***************************************************************************)
(* Handlers, up to the call of Run.                                        *)
(***************************************************************************)

\* The mux knows the endpoint: runner.New registers those of the protocol
\* versions that are configured.  Any other path is answered 404.
Routed(r, k) ==
    /\ k \in Asks[r]
    /\ protocolEnabled(IF k = "v4" THEN "CORP_RELAY_V4" ELSE "CORP_RELAY")

\* What a request may be refused for before it has changed anything.  Its
\* parameters and cookies are not modelled, so that each may be the case of
\* every request that comes to the endpoint:
\* connect.New, the SID is no UUID, ack or pos is not 0, try is no number ...
BadConnect(r) == Routed(r, "connect")
\* ... proxy.New, the host or the port is empty ...
BadProxy(r)   == Routed(r, "proxy")
\* ... Origin, there is no cookie of that name, or no origin in it (/connect
\* looks at it only after Manager.Get: see UpgradeFail) ...
BadOrigin(r)  == \E k \in {"proxy", "v4"} : Routed(r, k)
\* ... net.Dial, the SSH server does not answer ...
DialFails(r)  == \E k \in {"proxy", "v4"} : Routed(r, k)
\* ... Manager.Get, a SID the registry does not hold.
UnknownSid(r) == Routed(r, "connect")

Refused(r) ==
    \/ \E k \in Asks[r] : ~Routed(r, k)
    \/ BadConnect(r) \/ BadProxy(r) \/ BadOrigin(r) \/ DialFails(r) \/ UnknownSid(r)

\* An early return that leaves no trace.
Reject(r) ==
    /\ pc[r] = "idle"
    /\ Refused(r)
    /\ pc' = [pc EXCEPT ![r] = "done"]
    /\ UNCHANGED <<sessions, ssh, mu, kind, sess, ws, runErr, copyVars, timerVars>>

\* /proxy and /v4/connect dial the SSH server before they ask the manager.
Dial(r, k) ==
    /\ pc[r] = "idle"
    /\ k \in {"proxy", "v4"} /\ Routed(r, k)
    /\ kind' = [kind EXCEPT ![r] = k]
    /\ ssh' = [ssh EXCEPT ![r] = "open"]
    /\ pc' = [pc EXCEPT ![r] = "dialed"]
    /\ UNCHANGED <<sessions, mu, sess, ws, runErr, copyVars, timerVars>>

\* Manager.New, below the limit: the session, its deadline goroutine and its
\* watcher.  /proxy then answers with the SID; /v4/connect goes on to upgrade.
MgrNew(r) ==
    /\ pc[r] = "dialed"
    /\ ~AtLimit
    /\ sessions' = sessions \cup {r}
    /\ deadline' = [deadline EXCEPT ![r] = "select"]
    /\ watcher' = [watcher EXCEPT ![r] = "recv"]
    /\ pc' = [pc EXCEPT ![r] = IF IsV4(r) THEN "upgrade" ELSE "done"]
    /\ UNCHANGED <<ssh, mu, kind, sess, ws, runErr, copyVars, age>>

\* Manager.New, at the limit: ErrSessionLimit, 503; nobody closes the
\* connection that was just dialled.
MgrNewLimit(r) ==
    /\ pc[r] = "dialed"
    /\ AtLimit
    /\ pc' = [pc EXCEPT ![r] = "done"]
    /\ UNCHANGED <<sessions, ssh, mu, kind, sess, ws, runErr, copyVars, timerVars>>

\* /connect: Manager.Get finds the SID.  It does not look at the version.
MgrGet(r, s) ==
    /\ pc[r] = "idle"
    /\ Routed(r, "connect")
    /\ s \in sessions
    /\ kind' = [kind EXCEPT ![r] = "connect"]
    /\ sess' = [sess EXCEPT ![r] = s]
    /\ pc' = [pc EXCEPT ![r] = "upgrade"]
    /\ UNCHANGED <<sessions, ssh, mu, ws, runErr, copyVars, timerVars>>

\* The handshake fails (or, for /connect, the origin cookie is bad).  The
\* deferred Delete of connectHandle runs; connectHandleV4 just returns.
UpgradeFail(r) ==
    /\ pc[r] = "upgrade"
    /\ pc' = [pc EXCEPT ![r] = IF kind[r] = "connect" THEN "delete" ELSE "done"]
    /\ UNCHANGED <<sessions, ssh, mu, kind, sess, ws, runErr, copyVars, timerVars>>

Upgrade(r) ==
    /\ pc[r] = "upgrade"
    /\ ws' = [ws EXCEPT ![r] = "open"]
    /\ pc' = [pc EXCEPT ![r] = "run"]
    /\ UNCHANGED <<sessions, ssh, mu, kind, sess, runErr, copyVars, timerVars>>

(***************************************************************************)
(* Run, on the session sess[r].  Version 1 holds Session.mu until it has   *)
(* sent its error ack; version 4 takes no lock here.                       *)
(***************************************************************************)
RunStart(r) ==
    /\ pc[r] = "run"
    /\ IsV1(sess[r]) => ~mu[sess[r]]
    /\ mu' = [mu EXCEPT ![sess[r]] = IsV1(sess[r])]
    /\ wsOf' = [wsOf EXCEPT ![sess[r]] = r]
    /\ sshG' = [sshG EXCEPT ![r] = IF IsV1(sess[r]) THEN "read" ELSE "write"]
    /\ wsG' = [wsG EXCEPT ![r] = "read"]
    /\ pc' = [pc EXCEPT ![r] = "running"]
    /\ UNCHANGED <<sessions, ssh, kind, sess, ws, runErr, timerVars>>

\* ws is a field of the session, read anew for every message: a goroutine of
\* an earlier Run writes to the WebSocket of the latest one.
Broken(w)   == ws[w] \in {"gone", "closed"}
Current(r)  == wsOf[sess[r]]

\* runSSH: the read returns data, which is now written to the WebSocket.
SshReadData(r) ==
    /\ sshG[r] = "read"
    /\ ssh[sess[r]] = "open"
    /\ sshG' = [sshG EXCEPT ![r] = "write"]
    /\ UNCHANGED <<sessions, ssh, mu, handlerVars, wsG, wsOf, timerVars>>

\* runSSH: the write succeeds, which takes a client that reads.
SshWritten(r) ==
    /\ sshG[r] = "write"
    /\ ws[Current(r)] # "closed"
    /\ sshG' = [sshG EXCEPT ![r] = "read"]
    /\ UNCHANGED <<sessions, ssh, mu, handlerVars, wsG, wsOf, timerVars>>

\* runSSH: the read returns an error.  io.EOF if the SSH server hung up,
\* "use of closed network connection" if Close came first.
SshReadFails(r) ==
    /\ sshG[r] = "read"
    /\ \/ ssh[sess[r]] = "eof" /\ sshG' = [sshG EXCEPT ![r] = "EOF"]
       \/ ssh[sess[r]] = "closed" /\ sshG' = [sshG EXCEPT ![r] = "other"]
    /\ UNCHANGED <<sessions, ssh, mu, handlerVars, wsG, wsOf, timerVars>>

\* runSSH: the write to the WebSocket fails.
SshWriteFails(r) ==
    /\ sshG[r] = "write"
    /\ Broken(Current(r))
    /\ sshG' = [sshG EXCEPT ![r] = "other"]
    /\ UNCHANGED <<sessions, ssh, mu, handlerVars, wsG, wsOf, timerVars>>

\* runWS: NextReader fails because the WebSocket is gone, a message is refused
\* (the client may send anything), or a write to the SSH connection fails.
WsFails(r) ==
    /\ wsG[r] = "read"
    /\ wsG' = [wsG EXCEPT ![r] = "other"]
    /\ UNCHANGED <<sessions, ssh, mu, handlerVars, sshG, wsOf, timerVars>>

\* Run receives ONE error; the other goroutine, when it fails, stays in
\* errc <- err forever.
RunRecvErr(r) ==
    /\ pc[r] = "running"
    /\ \/ /\ sshG[r] \in Err
          /\ runErr' = [runErr EXCEPT ![r] = sshG[r]]
          /\ sshG' = [sshG EXCEPT ![r] = "exited"]
          /\ UNCHANGED wsG
       \/ /\ wsG[r] \in Err
          /\ runErr' = [runErr EXCEPT ![r] = wsG[r]]
          /\ wsG' = [wsG EXCEPT ![r] = "exited"]
          /\ UNCHANGED sshG
    /\ pc' = [pc EXCEPT ![r] = IF IsV1(sess[r]) THEN "unlock" ELSE "close"]
    /\ UNCHANGED <<sessions, ssh, mu, kind, sess, ws, wsOf, timerVars>>

\* Version 1: the error ack is written (or not), then mu is released.
RunUnlock(r) ==
    /\ pc[r] = "unlock"
    /\ mu' = [mu EXCEPT ![sess[r]] = FALSE]
    /\ pc' = [pc EXCEPT ![r] = "close"]
    /\ UNCHANGED <<sessions, ssh, kind, sess, ws, runErr, copyVars, timerVars>>

\* The deferred Close of Run: first ssh.Close() ...
RunClose(r) ==
    /\ pc[r] = "close"
    /\ ssh' = [ssh EXCEPT ![sess[r]] = "closed"]
    /\ pc' = [pc EXCEPT ![r] = "send"]
    /\ UNCHANGED <<sessions, mu, kind, sess, ws, runErr, copyVars, timerVars>>

(***************************************************************************)
(* ... then done <- struct{}{}, which needs a receiver.                    *)
(***************************************************************************)

\* The select of SetDeadline takes it: the goroutine returns.
HandlerToDeadline(r) ==
    /\ pc[r] = "send"
    /\ deadline[sess[r]] = "select"
    /\ deadline' = [deadline EXCEPT ![sess[r]] = "exited"]
    /\ pc' = [pc EXCEPT ![r] = "returned"]
    /\ UNCHANGED <<sessions, ssh, mu, kind, sess, ws, runErr, copyVars, watcher, age>>

\* The watcher takes it: it will delete the session.
HandlerToWatcher(r) ==
    /\ pc[r] = "send"
    /\ watcher[sess[r]] = "recv"
    /\ watcher' = [watcher EXCEPT ![sess[r]] = "delete"]
    /\ pc' = [pc EXCEPT ![r] = "returned"]
    /\ UNCHANGED <<sessions, ssh, mu, kind, sess, ws, runErr, copyVars, deadline, age>>

\* The Close that the deadline goroutine called meets the watcher.
DeadlineToWatcher(s) ==
    /\ deadline[s] = "send"
    /\ watcher[s] = "recv"
    /\ deadline' = [deadline EXCEPT ![s] = "exited"]
    /\ watcher' = [watcher EXCEPT ![s] = "delete"]
    /\ UNCHANGED <<sessions, ssh, mu, handlerVars, copyVars, age>>

(***************************************************************************)
(* Handlers, after Run has returned.  /connect closes the WebSocket and    *)
(* then deletes the session, whatever the error; /v4/connect deletes it    *)
(* only on io.EOF, and closes the WebSocket last.                          *)
(***************************************************************************)
ConnectCloseWs(r) ==
    /\ pc[r] = "returned"
    /\ kind[r] = "connect"
    /\ ws' = [ws EXCEPT ![r] = "closed"]
    /\ pc' = [pc EXCEPT ![r] = "delete"]
    /\ UNCHANGED <<sessions, ssh, mu, kind, sess, runErr, copyVars, timerVars>>

ConnectDelete(r) ==
    /\ pc[r] = "delete"
    /\ Delete(sess[r])
    /\ pc' = [pc EXCEPT ![r] = "done"]
    /\ UNCHANGED <<ssh, mu, kind, sess, ws, runErr, copyVars, timerVars>>

V4Delete(r) ==
    /\ pc[r] = "returned"
    /\ kind[r] = "v4"
    /\ runErr[r] = "EOF"
    /\ Delete(sess[r])
    /\ pc' = [pc EXCEPT ![r] = "closews"]
    /\ UNCHANGED <<ssh, mu, kind, sess, ws, runErr, copyVars, timerVars>>

V4CloseWs(r) ==
    /\ kind[r] = "v4"
    /\ \/ pc[r] = "closews"
       \/ pc[r] = "returned" /\ runErr[r] # "EOF"
    /\ ws' = [ws EXCEPT ![r] = "closed"]
    /\ pc' = [pc EXCEPT ![r] = "done"]
    /\ UNCHANGED <<sessions, ssh, mu, kind, sess, runErr, copyVars, timerVars>>

(***************************************************************************)
(* The two goroutines of a session.                                        *)
(***************************************************************************)
Tick(s) ==
    /\ deadline[s] = "select"
    /\ age[s] < MaxAge
    /\ age' = [age EXCEPT ![s] = age[s] + 1]
    /\ UNCHANGED <<sessions, ssh, mu, handlerVars, copyVars, deadline, watcher>>

\* time.After(maxAge) delivers.  With maxAge = 0 it delivers at once.
DeadlineFire(s) ==
    /\ deadline[s] = "select"
    /\ age[s] >= MaxAge
    /\ deadline' = [deadline EXCEPT ![s] = "close"]
    /\ UNCHANGED <<sessions, ssh, mu, handlerVars, copyVars, watcher, age>>

DeadlineClose(s) ==
    /\ deadline[s] = "close"
    /\ ssh' = [ssh EXCEPT ![s] = "closed"]
    /\ deadline' = [deadline EXCEPT ![s] = "send"]
    /\ UNCHANGED <<sessions, mu, handlerVars, copyVars, watcher, age>>

WatcherDelete(s) ==
    /\ watcher[s] = "delete"
    /\ Delete(s)
    /\ watcher' = [watcher EXCEPT ![s] = "exited"]
    /\ UNCHANGED <<ssh, mu, handlerVars, copyVars, deadline, age>>

(***************************************************************************)
(* The environment.                                                        *)
(***************************************************************************)

\* The SSH server closes its end.
ServerHangsUp(s) ==
    /\ ssh[s] = "open"
    /\ ssh' = [ssh EXCEPT ![s] = "eof"]
    /\ UNCHANGED <<sessions, mu, handlerVars, copyVars, timerVars>>

\* The client closes its WebSocket, or the network does.
ClientHangsUp(r) ==
    /\ ws[r] = "open"
    /\ ws' = [ws EXCEPT ![r] = "gone"]
    /\ UNCHANGED <<sessions, ssh, mu, kind, pc, sess, runErr, copyVars, timerVars>>

\* The Go runtime finalises a connection nobody refers to any more, which is
\* what becomes of the one MgrNewLimit drops.
Finalize(r) ==
    /\ pc[r] = "done" /\ ~Created(r)
    /\ ssh[r] \in {"open", "eof"}
    /\ ssh' = [ssh EXCEPT ![r] = "closed"]
    /\ UNCHANGED <<sessions, mu, handlerVars, copyVars, timerVars>>

-----------------------------------------------------------------------------
Arrive(r) == Reject(r) \/ (\E k \in {"proxy", "v4"} : Dial(r, k))
             \/ (\E s \in Req : MgrGet(r, s))

Handler(r) ==
    \/ MgrNew(r) \/ MgrNewLimit(r) \/ Upgrade(r) \/ UpgradeFail(r)
    \/ RunStart(r) \/ RunRecvErr(r) \/ RunClose(r)
    \/ ConnectCloseWs(r) \/ ConnectDelete(r) \/ V4Delete(r) \/ V4CloseWs(r)

\* A value sent on the channel done of session s finds its receiver.
Done(s) ==
    \/ \E r \in Req : sess[r] = s /\ (HandlerToDeadline(r) \/ HandlerToWatcher(r))
    \/ DeadlineToWatcher(s)

Goroutine(s) == Tick(s) \/ DeadlineFire(s) \/ DeadlineClose(s) \/ WatcherDelete(s)

Copy(r) == SshReadData(r) \/ SshWritten(r) \/ SshReadFails(r) \/ SshWriteFails(r)
           \/ WsFails(r)

Environment(r) == ServerHangsUp(r) \/ ClientHangsUp(r) \/ Finalize(r)

Next == \E r \in Req : Arrive(r) \/ Handler(r) \/ RunUnlock(r) \/ Done(r) \/ Goroutine(r)
                       \/ Copy(r) \/ Environment(r)

Spec == Init /\ [][Next]_vars

(***************************************************************************)
(* Fairness: the Go scheduler runs every goroutine that can run, a send    *)
(* that meets a receiver completes, time passes, a read on a closed        *)
(* connection and a write on a broken one return.  Nothing is assumed of   *)
(* requests, clients, SSH servers or the garbage collector: a client that  *)
(* stops reading blocks runSSH in "write" and version 1's error ack        *)
(* (RunUnlock) for as long as its WebSocket lasts.                         *)
(***************************************************************************)
Fairness ==
    \A r \in Req :
        /\ WF_vars(Handler(r) \/ (Broken(r) /\ RunUnlock(r)))
        /\ WF_vars(Done(r))
        /\ WF_vars(Tick(r) \/ DeadlineFire(r) \/ DeadlineClose(r))
        /\ WF_vars(WatcherDelete(r))
        /\ WF_vars(SshReadFails(r) \/ SshWriteFails(r))

FairSpec == Spec /\ Fairness
-----------------------------------------------------------------------------
(***************************************************************************)
(* Safety.                                                                 *)
(***************************************************************************)

\* Manager.New never registers more than max_sessions sessions, however many
\* handlers dial and register at the same time.
SessionLimit == MaxSessions > 0 => Cardinality(sessions) <= MaxSessions

\* Nobody learns that a session is over (a value received on Done(), the
\* de-registration by the watcher, the return of the deadline goroutine)
\* before its SSH connection is closed, whichever of the handlers and the
\* deadline goroutine sent the value.
DoneMeansClosed ==
    \A s \in Req :
        (deadline[s] \in {"send", "exited"} \/ watcher[s] \in {"delete", "exited"})
            => ssh[s] = "closed"

Owners(s) == {r \in Req : sess[r] = s /\ pc[r] \in {"running", "unlock"}}

\* At most one Run works on a version 1 session at a time, and Session.mu is
\* held exactly while one does: the counter c and the field ws have one owner
\* among the handlers of /connect that name the same SID.
RunExclusive ==
    \A s \in Req : IsV1(s) =>
        /\ \A q, r \in Owners(s) : q = r
        /\ mu[s] <=> Owners(s) # {}

\* Somebody who will delete s: its watcher has been woken, or its deadline
\* goroutine has yet to wake the watcher, or a handler of /connect took the
\* place of the latter and is on its way to Delete.
Reclaimer(s) ==
    \/ watcher[s] = "delete"
    \/ watcher[s] = "recv" /\ deadline[s] \in {"select", "close", "send"}
    \/ \E r \in Req : sess[r] = s /\ kind[r] = "connect" /\ pc[r] \in {"returned", "delete"}

\* A registered version 1 session always has somebody left who will delete it:
\* no interleaving of Close calls leaks a slot of Manager.sessions.
V1SlotHasReclaimer == \A s \in sessions : IsV1(s) => Reclaimer(s)

\* A SID that /connect has finished with, or that /v4/connect saw the end of
\* (io.EOF from the SSH server), is not in the registry any more: a later
\* /connect cannot be given the dead session.
FinishedMeansDeregistered ==
    \A r \in Req :
        pc[r] = "done" /\ (kind[r] = "connect" \/ runErr[r] = "EOF")
            => sess[r] \notin sessions

\* The handlers whose Run has closed s and has found a receiver on done.
ClosedBy(s) ==
    {r \in Req : sess[r] = s /\ sshG[r] # "none" /\ pc[r] \in {"returned", "delete", "closews", "done"}}

\* Close at the end of Run is left without a receiver, and its handler stuck,
\* only after the deadline has fired or two other Runs have ended the session:
\* of all callers of Close, the first two get through unless one is the
\* deadline goroutine, which is a receiver less.
StuckHasCause ==
    \A r \in Req :
        pc[r] = "send" /\ deadline[sess[r]] # "select" /\ watcher[sess[r]] # "recv" =>
            \/ age[sess[r]] = MaxAge
            \/ \E p, q \in ClosedBy(sess[r]) : p # q

(***************************************************************************)
(* Liveness, under FairSpec.                                               *)
(***************************************************************************)

\* The slot of a version 1 session is always given back, whoever takes the
\* values sent on done.
V1SlotReclaimed == \A s \in Req : (s \in sessions /\ IsV1(s)) ~> s \notin sessions

\* Run stops relaying once both connections are dead, even if its runWS
\* goroutine is stuck in a message.
RunStops ==
    \A r \in Req :
        (pc[r] = "running" /\ ssh[sess[r]] = "closed" /\ Broken(Current(r)))
            ~> (pc[r] # "running" \/ ~Broken(Current(r)))

(***************************************************************************)
(* The handlers, goroutines and channels implement the abstract registry.  *)
(***************************************************************************)
Registry == INSTANCE SessionRegistry WITH
    Name       <- Req,
    registered <- sessions,
    used       <- {s \in Req : Created(s)},
    open       <- {s \in Req : Created(s) /\ ssh[s] # "closed"},
    attached   <- {s \in Req : \E r \in Req : sess[r] = s /\ sshG[r] # "none"},
    old        <- age

\* Every step of the relay is a step of the registry or leaves it alone:
\* names are not reused, the limit holds at every registration, and the
\* connection of a session nobody attached to lives exactly MaxAge ticks.
ImplementsRegistry == Registry!RSpec

\* The same, with the promise that the connection of every session is closed
\* in the end, also if no client ever connects to it.
ImplementsFairRegistry == Registry!RFairSpec

(***************************************************************************)
(* What the documentation says and the code does not do.                   *)
(***************************************************************************)

\* relay/proto/v1/config.proto: max_sessions is "the maximum number of open
\* SSH sessions the relay supports".  Delete does not close the connection.
OpenWithinLimit ==
    MaxSessions > 0 =>
        Cardinality({s \in Req : Created(s) /\ ssh[s] \in {"open", "eof"}}) <= MaxSessions

\* relay/proto/v1/config.proto: "If unset, sessions will not be terminated by
\* the relay": with no max_session_age, only the end of a Run closes one.
UnsetAgeNeverTerminates ==
    MaxAge = 0 => \A s \in Req : deadline[s] \notin {"close", "send"}

\* session/session.go: "Done notifies when the Session has terminated".  Done
\* has two listeners and Close sends one value: when the deadline goroutine
\* takes it, the watcher of Manager.New is never notified, and a version 4
\* session that did not end with io.EOF keeps its slot.
V4SlotReclaimed == \A s \in Req : (s \in sessions /\ IsV4(s)) ~> s \notin sessions

\* session/session.go: SetDeadline sets a deadline "after which the session
\* will be terminated".  When the deadline's Close has used up the watcher,
\* the Close at the end of Run finds no listener and blocks: the handler
\* never returns and the client's WebSocket is never closed.
HandlerReturns ==
    \A r \in Req : (pc[r] = "send") ~> (pc[r] = "done")
=============================================================================
