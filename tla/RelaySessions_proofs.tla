----------------------- MODULE RelaySessions_proofs ------------------------
(***************************************************************************)
(* Proofs about RelaySessions, for any set of requests, any configuration  *)
(* and any interleaving.                                                   *)
(***************************************************************************)
EXTENDS RelaySessions, FiniteSetTheorems, TLAPS

\* The states of a handler that works on a session.
AtWork == {"upgrade", "run", "running", "unlock", "close", "send",
           "returned", "delete", "closews"}

\* Which handler has which session, and when a session has its goroutines.
Lifecycle ==
    \A r \in Req :
        /\ pc[r] \in {"idle", "dialed"} => ~Created(r)
        /\ pc[r] = "idle" => kind[r] = "none"
        /\ pc[r] = "dialed" => kind[r] \in {"proxy", "v4"}
        /\ Created(r) => kind[r] \in {"proxy", "v4"}
        /\ Created(r) <=> watcher[r] # "none"
        /\ r \in sessions => Created(r)
        /\ kind[r] # "connect" => sess[r] = r
        /\ pc[r] \in AtWork => kind[r] \in {"connect", "v4"} /\ Created(sess[r])
        /\ kind[r] = "v4" => pc[r] # "delete"

\* Whoever is about to send on done has closed the SSH connection before.
SendMeansClosed == \A r \in Req : pc[r] = "send" => ssh[sess[r]] = "closed"

-----------------------------------------------------------------------------
\* Manager.New and an idle relay start with every variable in its type.
LEMMA TypeInit == Init => TypeOK
  BY LimitAssumption DEF Init, TypeOK, Kind, Pc, Copier, Err

\* No step of a handler or goroutine takes a variable out of its type.
LEMMA TypeNext == TypeOK /\ [Next]_vars => TypeOK'
<1> SUFFICES ASSUME TypeOK, [Next]_vars PROVE TypeOK'
  OBVIOUS
<1> USE LimitAssumption DEF TypeOK, Kind, Pc, Copier, Err
<1>1. CASE UNCHANGED vars
  BY <1>1 DEF vars, handlerVars, copyVars, timerVars
<1>2. ASSUME NEW r \in Req, Arrive(r) PROVE TypeOK'
  BY <1>2 DEF Arrive, Reject, Dial, MgrGet, copyVars, timerVars
<1>3. ASSUME NEW r \in Req, Handler(r) PROVE TypeOK'
  <2>1. CASE MgrNew(r) BY <2>1 DEF MgrNew, copyVars
  <2>2. CASE MgrNewLimit(r) BY <2>2 DEF MgrNewLimit, copyVars, timerVars
  <2>3. CASE Upgrade(r) BY <2>3 DEF Upgrade, copyVars, timerVars
  <2>4. CASE UpgradeFail(r) BY <2>4 DEF UpgradeFail, copyVars, timerVars
  <2>5. CASE RunStart(r) BY <2>5 DEF RunStart, IsV1, timerVars
  <2>6. CASE RunRecvErr(r)
    <3>1. pc' \in [Req -> Pc] BY <2>6 DEF RunRecvErr
    <3>2. runErr' \in [Req -> {"none"} \cup Err] /\ sshG' \in [Req -> Copier]
            /\ wsG' \in [Req -> Copier]
      BY <2>6 DEF RunRecvErr
    <3> QED BY <2>6, <3>1, <3>2 DEF RunRecvErr, timerVars
  <2>7. CASE RunClose(r) BY <2>7 DEF RunClose, copyVars, timerVars
  <2>8. CASE ConnectCloseWs(r) BY <2>8 DEF ConnectCloseWs, copyVars, timerVars
  <2>9. CASE ConnectDelete(r) BY <2>9 DEF ConnectDelete, Delete, copyVars, timerVars
  <2>10. CASE V4Delete(r) BY <2>10 DEF V4Delete, Delete, copyVars, timerVars
  <2>11. CASE V4CloseWs(r) BY <2>11 DEF V4CloseWs, copyVars, timerVars
  <2> QED
    BY <1>3, <2>1, <2>2, <2>3, <2>4, <2>5, <2>6, <2>7, <2>8, <2>9, <2>10, <2>11 DEF Handler
<1>4. ASSUME NEW r \in Req, RunUnlock(r) PROVE TypeOK'
  BY <1>4 DEF RunUnlock, copyVars, timerVars
<1>5. ASSUME NEW r \in Req, Done(r) PROVE TypeOK'
  BY <1>5 DEF Done, HandlerToDeadline, HandlerToWatcher, DeadlineToWatcher, handlerVars, copyVars
<1>6. ASSUME NEW r \in Req, Goroutine(r) PROVE TypeOK'
  <2>1. CASE Tick(r)
    <3>1. age[r] \in 0..MaxAge /\ age[r] < MaxAge BY <2>1 DEF Tick
    <3>2. age[r] + 1 \in 0..MaxAge BY <3>1
    <3> QED BY <2>1, <3>2 DEF Tick, handlerVars, copyVars
  <2>2. CASE DeadlineFire(r) BY <2>2 DEF DeadlineFire, handlerVars, copyVars
  <2>3. CASE DeadlineClose(r) BY <2>3 DEF DeadlineClose, handlerVars, copyVars
  <2>4. CASE WatcherDelete(r) BY <2>4 DEF WatcherDelete, Delete, handlerVars, copyVars
  <2> QED BY <1>6, <2>1, <2>2, <2>3, <2>4 DEF Goroutine
<1>7. ASSUME NEW r \in Req, Copy(r) PROVE TypeOK'
  BY <1>7 DEF Copy, SshReadData, SshWritten, SshReadFails, SshWriteFails, WsFails,
              handlerVars, timerVars
<1>8. ASSUME NEW r \in Req, Environment(r) PROVE TypeOK'
  BY <1>8 DEF Environment, ServerHangsUp, ClientHangsUp, Finalize,
              handlerVars, copyVars, timerVars
<1> QED
  BY <1>1, <1>2, <1>3, <1>4, <1>5, <1>6, <1>7, <1>8 DEF Next

\* Every variable of the relay keeps its type, whatever the configuration.
THEOREM TypeCorrect == Spec => []TypeOK
<1> QED BY TypeInit, TypeNext, PTL DEF Spec

-----------------------------------------------------------------------------
\* The bookkeeping of who was created and who works for whom is inductive.
LEMMA LifecycleNext == TypeOK /\ Lifecycle /\ [Next]_vars => Lifecycle'
<1> SUFFICES ASSUME TypeOK, Lifecycle, [Next]_vars PROVE Lifecycle'
  OBVIOUS
<1> USE DEF TypeOK, Kind, Pc, Lifecycle, Created, AtWork
<1>1. CASE UNCHANGED vars
  BY <1>1 DEF vars, handlerVars, timerVars
<1>2. ASSUME NEW r \in Req, Arrive(r) PROVE Lifecycle'
  <2>1. CASE Reject(r) BY <2>1 DEF Reject, timerVars
  <2>2. ASSUME NEW k \in {"proxy", "v4"}, Dial(r, k) PROVE Lifecycle'
    BY <2>2 DEF Dial, timerVars
  <2>3. ASSUME NEW s \in Req, MgrGet(r, s) PROVE Lifecycle'
    BY <2>3 DEF MgrGet, timerVars
  <2> QED BY <1>2, <2>1, <2>2, <2>3 DEF Arrive
<1>3. ASSUME NEW r \in Req, Handler(r) PROVE Lifecycle'
  <2>1. CASE MgrNew(r) BY <2>1 DEF MgrNew, IsV4
  <2>2. CASE MgrNewLimit(r) BY <2>2 DEF MgrNewLimit, timerVars
  <2>3. CASE Upgrade(r) BY <2>3 DEF Upgrade, timerVars
  <2>4. CASE UpgradeFail(r) BY <2>4 DEF UpgradeFail, timerVars
  <2>5. CASE RunStart(r) BY <2>5 DEF RunStart, timerVars
  <2>6. CASE RunRecvErr(r)
    <3>1. \E l \in {"unlock", "close"} : pc' = [pc EXCEPT ![r] = l]
      BY <2>6 DEF RunRecvErr
    <3> QED BY <2>6, <3>1 DEF RunRecvErr, timerVars
  <2>7. CASE RunClose(r) BY <2>7 DEF RunClose, timerVars
  <2>8. CASE ConnectCloseWs(r) BY <2>8 DEF ConnectCloseWs, timerVars
  <2>9. CASE ConnectDelete(r) BY <2>9 DEF ConnectDelete, Delete, timerVars
  <2>10. CASE V4Delete(r) BY <2>10 DEF V4Delete, Delete, timerVars
  <2>11. CASE V4CloseWs(r) BY <2>11 DEF V4CloseWs, timerVars
  <2> QED
    BY <1>3, <2>1, <2>2, <2>3, <2>4, <2>5, <2>6, <2>7, <2>8, <2>9, <2>10, <2>11 DEF Handler
<1>4. ASSUME NEW r \in Req, RunUnlock(r) PROVE Lifecycle'
  BY <1>4 DEF RunUnlock, timerVars
<1>5. ASSUME NEW s \in Req, Done(s) PROVE Lifecycle'
  <2>1. ASSUME NEW r \in Req, HandlerToDeadline(r) PROVE Lifecycle'
    BY <2>1 DEF HandlerToDeadline
  <2>2. ASSUME NEW r \in Req, HandlerToWatcher(r) PROVE Lifecycle'
    BY <2>2 DEF HandlerToWatcher
  <2>3. CASE DeadlineToWatcher(s) BY <2>3 DEF DeadlineToWatcher, handlerVars
  <2> QED BY <1>5, <2>1, <2>2, <2>3 DEF Done
<1>6. ASSUME NEW s \in Req, Goroutine(s) PROVE Lifecycle'
  <2>1. CASE Tick(s) BY <2>1 DEF Tick, handlerVars
  <2>2. CASE DeadlineFire(s) BY <2>2 DEF DeadlineFire, handlerVars
  <2>3. CASE DeadlineClose(s) BY <2>3 DEF DeadlineClose, handlerVars
  <2>4. CASE WatcherDelete(s) BY <2>4 DEF WatcherDelete, Delete, handlerVars
  <2> QED BY <1>6, <2>1, <2>2, <2>3, <2>4 DEF Goroutine
<1>7. ASSUME NEW r \in Req, Copy(r) PROVE Lifecycle'
  BY <1>7 DEF Copy, SshReadData, SshWritten, SshReadFails, SshWriteFails, WsFails,
              handlerVars, timerVars
<1>8. ASSUME NEW r \in Req, Environment(r) PROVE Lifecycle'
  BY <1>8 DEF Environment, ServerHangsUp, ClientHangsUp, Finalize, handlerVars, timerVars
<1> QED
  BY <1>1, <1>2, <1>3, <1>4, <1>5, <1>6, <1>7, <1>8 DEF Next

\* The SSH connections change hands rarely: one step opens a fresh one, all
\* others leave a closed one closed.
LEMMA ClosedStaysClosed ==
    ASSUME TypeOK, Lifecycle, [Next]_vars, NEW s \in Req, Created(s), ssh[s] = "closed"
    PROVE  ssh'[s] = "closed"
<1> USE DEF TypeOK, Lifecycle, Created
<1>1. CASE UNCHANGED vars BY <1>1 DEF vars
<1>2. ASSUME NEW r \in Req, Arrive(r) PROVE ssh'[s] = "closed"
  BY <1>2 DEF Arrive, Reject, Dial, MgrGet
<1>3. ASSUME NEW r \in Req, Handler(r) PROVE ssh'[s] = "closed"
  <2>1. CASE RunClose(r) BY <2>1 DEF RunClose
  <2>2. CASE ~RunClose(r)
    BY <1>3, <2>2 DEF Handler, MgrNew, MgrNewLimit, Upgrade, UpgradeFail, RunStart,
       RunRecvErr, ConnectCloseWs, ConnectDelete, V4Delete, V4CloseWs
  <2> QED BY <2>1, <2>2
<1>4. ASSUME NEW r \in Req, RunUnlock(r) PROVE ssh'[s] = "closed"
  BY <1>4 DEF RunUnlock
<1>5. ASSUME NEW r \in Req, Done(r) PROVE ssh'[s] = "closed"
  BY <1>5 DEF Done, HandlerToDeadline, HandlerToWatcher, DeadlineToWatcher
<1>6. ASSUME NEW r \in Req, Goroutine(r) PROVE ssh'[s] = "closed"
  BY <1>6 DEF Goroutine, Tick, DeadlineFire, DeadlineClose, WatcherDelete
<1>7. ASSUME NEW r \in Req, Copy(r) PROVE ssh'[s] = "closed"
  BY <1>7 DEF Copy, SshReadData, SshWritten, SshReadFails, SshWriteFails, WsFails
<1>8. ASSUME NEW r \in Req, Environment(r) PROVE ssh'[s] = "closed"
  BY <1>8 DEF Environment, ServerHangsUp, ClientHangsUp, Finalize
<1> QED
  BY <1>1, <1>2, <1>3, <1>4, <1>5, <1>6, <1>7, <1>8 DEF Next

\* Somebody knows that s is over, or is about to tell.
Told(s) == deadline[s] \in {"send", "exited"} \/ watcher[s] \in {"delete", "exited"}

\* The steps by which a handler reaches done <- struct{}{}, and by which
\* somebody comes to know that a session is over.
LEMMA WhoTells ==
    ASSUME TypeOK, [Next]_vars
    PROVE  /\ \A r \in Req : pc[r] = "send" => sess'[r] = sess[r]
           /\ \A r \in Req : pc[r] # "send" /\ pc'[r] = "send" => RunClose(r)
           /\ \A s \in Req : ~Told(s) /\ Told(s)' =>
                \/ DeadlineClose(s)
                \/ \E r \in Req : sess[r] = s /\ (HandlerToDeadline(r) \/ HandlerToWatcher(r))
<1> DEFINE Goal == /\ \A r \in Req : pc[r] = "send" => sess'[r] = sess[r]
                   /\ \A r \in Req : pc[r] # "send" /\ pc'[r] = "send" => RunClose(r)
                   /\ \A s \in Req : ~Told(s) /\ Told(s)' =>
                        \/ DeadlineClose(s)
                        \/ \E r \in Req : sess[r] = s /\ (HandlerToDeadline(r) \/ HandlerToWatcher(r))
<1> USE DEF TypeOK, Told, handlerVars, timerVars
<1>1. CASE UNCHANGED vars BY <1>1 DEF vars
<1>2. ASSUME NEW r \in Req, Arrive(r) \/ RunUnlock(r) PROVE Goal
  BY <1>2 DEF Arrive, Reject, Dial, MgrGet, RunUnlock
<1>3. ASSUME NEW r \in Req, Handler(r) PROVE Goal
  <2>1. CASE MgrNew(r) \/ MgrNewLimit(r) \/ Upgrade(r) \/ UpgradeFail(r)
    BY <2>1 DEF MgrNew, MgrNewLimit, Upgrade, UpgradeFail
  <2>2. CASE RunStart(r) \/ RunRecvErr(r) \/ RunClose(r)
    BY <2>2 DEF RunStart, RunRecvErr, RunClose
  <2>3. CASE ConnectCloseWs(r) \/ ConnectDelete(r) \/ V4Delete(r) \/ V4CloseWs(r)
    BY <2>3 DEF ConnectCloseWs, ConnectDelete, V4Delete, V4CloseWs
  <2> QED BY <1>3, <2>1, <2>2, <2>3 DEF Handler
<1>4. ASSUME NEW r \in Req, Done(r) PROVE Goal
  BY <1>4 DEF Done, HandlerToDeadline, HandlerToWatcher, DeadlineToWatcher
<1>5. ASSUME NEW r \in Req, Goroutine(r) PROVE Goal
  BY <1>5 DEF Goroutine, Tick, DeadlineFire, DeadlineClose, WatcherDelete
<1>6. ASSUME NEW r \in Req, Copy(r) PROVE UNCHANGED <<pc, sess, deadline, watcher>>
  BY <1>6 DEF Copy, SshReadData, SshWritten, SshReadFails, SshWriteFails, WsFails
<1>7. ASSUME NEW r \in Req, Environment(r) PROVE UNCHANGED <<pc, sess, deadline, watcher>>
  BY <1>7 DEF Environment, ServerHangsUp, ClientHangsUp, Finalize
<1>8. ASSUME UNCHANGED <<pc, sess, deadline, watcher>> PROVE Goal BY <1>8
<1> QED BY <1>1, <1>2, <1>3, <1>4, <1>5, <1>6, <1>7, <1>8 DEF Next

\* Close closes the SSH connection before it sends on done, so both facts about
\* who may know of the end are inductive.
LEMMA ClosedNext ==
    TypeOK /\ Lifecycle /\ SendMeansClosed /\ DoneMeansClosed /\ [Next]_vars
        => SendMeansClosed' /\ DoneMeansClosed'
<1> SUFFICES ASSUME TypeOK, Lifecycle, SendMeansClosed, DoneMeansClosed, [Next]_vars
             PROVE  SendMeansClosed' /\ DoneMeansClosed'
  OBVIOUS
<1>1. ASSUME NEW r \in Req, pc'[r] = "send"
      PROVE  ssh'[sess'[r]] = "closed"
  <2>1. CASE pc[r] = "send"
    <3>1. sess'[r] = sess[r]
      BY <2>1, WhoTells
    <3>2. sess[r] \in Req /\ Created(sess[r]) /\ ssh[sess[r]] = "closed"
      BY <2>1 DEF TypeOK, Lifecycle, AtWork, SendMeansClosed
    <3> QED BY <3>1, <3>2, ClosedStaysClosed
  <2>2. CASE pc[r] # "send"
    <3>1. RunClose(r)
      BY <1>1, <2>2, WhoTells
    <3> QED BY <3>1 DEF RunClose, TypeOK
  <2> QED BY <2>1, <2>2
<1>2. ASSUME NEW s \in Req, Told(s)' PROVE ssh'[s] = "closed"
  <2>1. CASE Told(s)
    <3>1. Created(s) /\ ssh[s] = "closed"
      BY <2>1 DEF Told, DoneMeansClosed, Lifecycle, Created
    <3> QED BY <3>1, ClosedStaysClosed
  <2>2. CASE ~Told(s)
    <3>1. CASE DeadlineClose(s)
      BY <3>1 DEF DeadlineClose, TypeOK
    <3>2. ASSUME NEW r \in Req, sess[r] = s, HandlerToDeadline(r) \/ HandlerToWatcher(r)
          PROVE  ssh'[s] = "closed"
      BY <3>2 DEF HandlerToDeadline, HandlerToWatcher, SendMeansClosed
    <3> QED BY <1>2, <2>2, <3>1, <3>2, WhoTells
  <2> QED BY <2>1, <2>2
<1> QED BY <1>1, <1>2 DEF SendMeansClosed, DoneMeansClosed, Told

-----------------------------------------------------------------------------
\* A slot of a version 1 session changes reclaimers but never loses its last.
LEMMA ReclaimerNext ==
    TypeOK /\ Lifecycle /\ V1SlotHasReclaimer /\ [Next]_vars => V1SlotHasReclaimer'
<1> SUFFICES ASSUME TypeOK, Lifecycle, V1SlotHasReclaimer, [Next]_vars,
                    NEW s \in sessions', IsV1(s)'
             PROVE  Reclaimer(s)'
  BY DEF V1SlotHasReclaimer
<1> USE DEF TypeOK, Lifecycle, V1SlotHasReclaimer, Reclaimer, Created, IsV1, AtWork
<1>1. CASE UNCHANGED vars
  BY <1>1 DEF vars, handlerVars, timerVars
<1>2. ASSUME NEW r \in Req, Arrive(r) PROVE Reclaimer(s)'
  <2>1. CASE Reject(r) BY <2>1 DEF Reject, timerVars
  <2>2. ASSUME NEW k \in {"proxy", "v4"}, Dial(r, k) PROVE Reclaimer(s)'
    BY <2>2 DEF Dial, timerVars
  <2>3. ASSUME NEW q \in Req, MgrGet(r, q) PROVE Reclaimer(s)'
    BY <2>3 DEF MgrGet, timerVars
  <2> QED BY <1>2, <2>1, <2>2, <2>3 DEF Arrive
<1>3. ASSUME NEW r \in Req, Handler(r) PROVE Reclaimer(s)'
  <2>1. CASE MgrNew(r) BY <2>1 DEF MgrNew
  <2>2. CASE MgrNewLimit(r) BY <2>2 DEF MgrNewLimit, timerVars
  <2>3. CASE Upgrade(r) BY <2>3 DEF Upgrade, timerVars
  <2>4. CASE UpgradeFail(r) BY <2>4 DEF UpgradeFail, timerVars
  <2>5. CASE RunStart(r) BY <2>5 DEF RunStart, timerVars
  <2>6. CASE RunRecvErr(r)
    <3>1. \E l \in {"unlock", "close"} : pc' = [pc EXCEPT ![r] = l]
      BY <2>6 DEF RunRecvErr
    <3> QED BY <2>6, <3>1 DEF RunRecvErr, timerVars
  <2>7. CASE RunClose(r) BY <2>7 DEF RunClose, timerVars
  <2>8. CASE ConnectCloseWs(r) BY <2>8 DEF ConnectCloseWs, timerVars
  <2>9. CASE ConnectDelete(r) BY <2>9 DEF ConnectDelete, Delete, timerVars
  <2>10. CASE V4Delete(r) BY <2>10 DEF V4Delete, Delete, timerVars
  <2>11. CASE V4CloseWs(r) BY <2>11 DEF V4CloseWs, timerVars
  <2> QED
    BY <1>3, <2>1, <2>2, <2>3, <2>4, <2>5, <2>6, <2>7, <2>8, <2>9, <2>10, <2>11 DEF Handler
<1>4. ASSUME NEW r \in Req, RunUnlock(r) PROVE Reclaimer(s)'
  BY <1>4 DEF RunUnlock, timerVars
<1>5. ASSUME NEW q \in Req, Done(q) PROVE Reclaimer(s)'
  <2>1. ASSUME NEW r \in Req, HandlerToDeadline(r) PROVE Reclaimer(s)'
    \* r takes the deadline goroutine's place: it must be a /connect.
    <3>1. sess[r] = s => kind[r] = "connect"
      BY <2>1 DEF HandlerToDeadline
    <3> QED BY <2>1, <3>1 DEF HandlerToDeadline
  <2>2. ASSUME NEW r \in Req, HandlerToWatcher(r) PROVE Reclaimer(s)'
    BY <2>2 DEF HandlerToWatcher
  <2>3. CASE DeadlineToWatcher(q) BY <2>3 DEF DeadlineToWatcher, handlerVars
  <2> QED BY <1>5, <2>1, <2>2, <2>3 DEF Done
<1>6. ASSUME NEW q \in Req, Goroutine(q) PROVE Reclaimer(s)'
  <2>1. CASE Tick(q) BY <2>1 DEF Tick, handlerVars
  <2>2. CASE DeadlineFire(q) BY <2>2 DEF DeadlineFire, handlerVars
  <2>3. CASE DeadlineClose(q) BY <2>3 DEF DeadlineClose, handlerVars
  <2>4. CASE WatcherDelete(q) BY <2>4 DEF WatcherDelete, Delete, handlerVars
  <2> QED BY <1>6, <2>1, <2>2, <2>3, <2>4 DEF Goroutine
<1>7. ASSUME NEW r \in Req, Copy(r) PROVE Reclaimer(s)'
  BY <1>7 DEF Copy, SshReadData, SshWritten, SshReadFails, SshWriteFails, WsFails,
              handlerVars, timerVars
<1>8. ASSUME NEW r \in Req, Environment(r) PROVE Reclaimer(s)'
  BY <1>8 DEF Environment, ServerHangsUp, ClientHangsUp, Finalize, handlerVars, timerVars
<1> QED
  BY <1>1, <1>2, <1>3, <1>4, <1>5, <1>6, <1>7, <1>8 DEF Next

-----------------------------------------------------------------------------
(***************************************************************************)
(* More about handlers: what Run has and has not done yet.                 *)
(***************************************************************************)
Progress ==
    \A r \in Req :
        /\ pc[r] \in {"idle", "dialed", "upgrade", "run"} =>
                sshG[r] = "none" /\ runErr[r] = "none"
        /\ kind[r] \in {"none", "proxy"} => runErr[r] = "none"
        /\ pc[r] \in {"running", "unlock", "close", "send"} => sshG[r] # "none"
        /\ pc[r] = "dialed" => ssh[r] \in {"open", "eof"}
        /\ deadline[r] = "close" => age[r] = MaxAge
        /\ kind[r] = "connect" => Created(sess[r])
        /\ pc[r] = "closews" => sess[r] \notin sessions
        /\ mu[r] => Created(r)

\* What the program counter of a handler says of its request is inductive.
LEMMA ProgressNext == TypeOK /\ Lifecycle /\ Progress /\ [Next]_vars => Progress'
<1> SUFFICES ASSUME TypeOK, Lifecycle, Progress, [Next]_vars PROVE Progress'
  OBVIOUS
<1> USE DEF TypeOK, Lifecycle, Progress, Created, AtWork, Kind, Pc, Err, Copier
<1>1. CASE UNCHANGED vars
  BY <1>1 DEF vars, handlerVars, copyVars, timerVars
<1>2. ASSUME NEW r \in Req, Arrive(r) PROVE Progress'
  <2>1. CASE Reject(r) BY <2>1 DEF Reject, copyVars, timerVars
  <2>2. ASSUME NEW k \in {"proxy", "v4"}, Dial(r, k) PROVE Progress'
    BY <2>2 DEF Dial, copyVars, timerVars
  <2>3. ASSUME NEW q \in Req, MgrGet(r, q) PROVE Progress'
    BY <2>3 DEF MgrGet, copyVars, timerVars
  <2> QED BY <1>2, <2>1, <2>2, <2>3 DEF Arrive
<1>3. ASSUME NEW r \in Req, Handler(r) PROVE Progress'
  <2>1. CASE MgrNew(r) BY <2>1 DEF MgrNew, IsV4, copyVars
  <2>2. CASE MgrNewLimit(r) BY <2>2 DEF MgrNewLimit, copyVars, timerVars
  <2>3. CASE Upgrade(r) BY <2>3 DEF Upgrade, copyVars, timerVars
  <2>4. CASE UpgradeFail(r) BY <2>4 DEF UpgradeFail, copyVars, timerVars
  <2>5. CASE RunStart(r) BY <2>5 DEF RunStart, IsV1, timerVars
  <2>6. CASE RunRecvErr(r) BY <2>6 DEF RunRecvErr, IsV1, timerVars
  <2>7. CASE RunClose(r) BY <2>7 DEF RunClose, copyVars, timerVars
  <2>8. CASE ConnectCloseWs(r) BY <2>8 DEF ConnectCloseWs, copyVars, timerVars
  <2>9. CASE ConnectDelete(r) BY <2>9 DEF ConnectDelete, Delete, copyVars, timerVars
  <2>10. CASE V4Delete(r) BY <2>10 DEF V4Delete, Delete, copyVars, timerVars
  <2>11. CASE V4CloseWs(r) BY <2>11 DEF V4CloseWs, copyVars, timerVars
  <2> QED
    BY <1>3, <2>1, <2>2, <2>3, <2>4, <2>5, <2>6, <2>7, <2>8, <2>9, <2>10, <2>11 DEF Handler
<1>4. ASSUME NEW r \in Req, RunUnlock(r) PROVE Progress'
  BY <1>4 DEF RunUnlock, copyVars, timerVars
<1>5. ASSUME NEW q \in Req, Done(q) PROVE Progress'
  <2>1. ASSUME NEW r \in Req, HandlerToDeadline(r) PROVE Progress'
    BY <2>1 DEF HandlerToDeadline, copyVars
  <2>2. ASSUME NEW r \in Req, HandlerToWatcher(r) PROVE Progress'
    BY <2>2 DEF HandlerToWatcher, copyVars
  <2>3. CASE DeadlineToWatcher(q) BY <2>3 DEF DeadlineToWatcher, handlerVars, copyVars
  <2> QED BY <1>5, <2>1, <2>2, <2>3 DEF Done
<1>6. ASSUME NEW q \in Req, Goroutine(q) PROVE Progress'
  <2>1. CASE Tick(q) BY <2>1 DEF Tick, handlerVars, copyVars
  <2>2. CASE DeadlineFire(q)
    <3>1. age[q] = MaxAge BY <2>2, LimitAssumption DEF DeadlineFire
    <3> QED BY <2>2, <3>1 DEF DeadlineFire, handlerVars, copyVars
  <2>3. CASE DeadlineClose(q) BY <2>3 DEF DeadlineClose, handlerVars, copyVars
  <2>4. CASE WatcherDelete(q) BY <2>4 DEF WatcherDelete, Delete, handlerVars, copyVars
  <2> QED BY <1>6, <2>1, <2>2, <2>3, <2>4 DEF Goroutine
<1>7. ASSUME NEW r \in Req, Copy(r) PROVE Progress'
  BY <1>7 DEF Copy, SshReadData, SshWritten, SshReadFails, SshWriteFails, WsFails,
              handlerVars, timerVars
<1>8. ASSUME NEW r \in Req, Environment(r) PROVE Progress'
  BY <1>8 DEF Environment, ServerHangsUp, ClientHangsUp, Finalize,
              handlerVars, copyVars, timerVars
<1> QED
  BY <1>1, <1>2, <1>3, <1>4, <1>5, <1>6, <1>7, <1>8 DEF Next

-----------------------------------------------------------------------------
(***************************************************************************)
(* The registry.                                                           *)
(***************************************************************************)

\* How the registry changes in one step.
LEMMA RegistryStep ==
    ASSUME TypeOK, [Next]_vars
    PROVE  \/ sessions' = sessions
           \/ \E s \in Req : sessions' = sessions \ {s}
           \/ \E r \in Req : MgrNew(r)
<1> USE DEF TypeOK
<1>1. CASE UNCHANGED vars BY <1>1 DEF vars
<1>2. CASE Next
  BY <1>2 DEF Next, Arrive, Reject, Dial, MgrGet, Handler,
     MgrNewLimit, Upgrade, UpgradeFail, RunStart, RunRecvErr, RunUnlock, RunClose,
     ConnectCloseWs, ConnectDelete, V4Delete, V4CloseWs, Delete, Done, HandlerToDeadline,
     HandlerToWatcher, DeadlineToWatcher, Goroutine, Tick, DeadlineFire, DeadlineClose,
     WatcherDelete, Copy, SshReadData, SshWritten, SshReadFails, SshWriteFails, WsFails,
     Environment, ServerHangsUp, ClientHangsUp, Finalize
<1> QED BY <1>1, <1>2

\* Only Manager.New adds to the registry, and only below the limit.
LEMMA LimitNext == TypeOK /\ SessionLimit /\ [Next]_vars => SessionLimit'
<1> SUFFICES ASSUME TypeOK, SessionLimit, [Next]_vars, MaxSessions > 0
             PROVE  Cardinality(sessions') <= MaxSessions
  BY DEF SessionLimit
<1>1. IsFiniteSet(sessions)
  BY ReqAssumption, FS_Subset DEF TypeOK
<1>2. Cardinality(sessions) \in Nat /\ Cardinality(sessions) <= MaxSessions
  BY <1>1, FS_CardinalityType DEF SessionLimit
<1>3. ASSUME NEW s \in Req, sessions' = sessions \ {s} PROVE Cardinality(sessions') <= MaxSessions
  BY <1>1, <1>2, <1>3, FS_RemoveElement, LimitAssumption
<1>4. ASSUME NEW r \in Req, MgrNew(r) PROVE Cardinality(sessions') <= MaxSessions
  <2>1. Cardinality(sessions) < MaxSessions /\ sessions' = sessions \cup {r}
    BY <1>2, <1>4, LimitAssumption DEF MgrNew, AtLimit
  <2> QED BY <1>1, <1>2, <2>1, FS_AddElement, LimitAssumption
<1> QED BY <1>2, <1>3, <1>4, RegistryStep

\* Once a session was deleted by its handler nothing registers it again.
LEMMA FinishedNext ==
    TypeOK /\ Lifecycle /\ Progress /\ FinishedMeansDeregistered /\ [Next]_vars
        => FinishedMeansDeregistered'
<1> SUFFICES ASSUME TypeOK, Lifecycle, Progress, FinishedMeansDeregistered, [Next]_vars,
                    NEW r \in Req, pc'[r] = "done",
                    kind'[r] = "connect" \/ runErr'[r] = "EOF"
             PROVE  sess'[r] \notin sessions'
  BY DEF FinishedMeansDeregistered
<1>1. CASE pc[r] = "done"
  \* r does not move, and no step registers a session that was created before.
  <2>1. kind'[r] = kind[r] /\ runErr'[r] = runErr[r] /\ sess'[r] = sess[r]
    BY <1>1 DEF TypeOK, Next, vars, handlerVars, Arrive, Reject, Dial, MgrGet, Handler, MgrNew,
       MgrNewLimit, Upgrade, UpgradeFail, RunStart, RunRecvErr, RunUnlock, RunClose,
       ConnectCloseWs, ConnectDelete, V4Delete, V4CloseWs, Done, HandlerToDeadline,
       HandlerToWatcher, DeadlineToWatcher, Goroutine, Tick, DeadlineFire, DeadlineClose,
       WatcherDelete, Copy, SshReadData, SshWritten, SshReadFails, SshWriteFails, WsFails,
       Environment, ServerHangsUp, ClientHangsUp, Finalize
  <2>2. sess[r] \notin sessions
    BY <1>1, <2>1 DEF FinishedMeansDeregistered
  <2>3. ASSUME NEW q \in Req, MgrNew(q) PROVE sess[r] # q
    BY <1>1, <2>1, <2>3 DEF MgrNew, Lifecycle, Progress, TypeOK, Kind
  <2>4. ASSUME NEW q \in Req, MgrNew(q) PROVE sess[r] \notin sessions'
    BY <2>2, <2>3, <2>4 DEF MgrNew
  <2> QED BY <2>1, <2>2, <2>4, RegistryStep
<1>2. CASE pc[r] # "done"
  <2>1. \/ ConnectDelete(r) \/ V4CloseWs(r)
        \/ Reject(r) \/ MgrNew(r) \/ MgrNewLimit(r) \/ UpgradeFail(r)
    BY <1>2 DEF TypeOK, Next, vars, handlerVars, Arrive, Dial, MgrGet, Handler,
       Reject, MgrNew, MgrNewLimit, UpgradeFail, ConnectDelete, V4CloseWs,
       Upgrade, RunStart, RunRecvErr, RunUnlock, RunClose, ConnectCloseWs, V4Delete,
       Done, HandlerToDeadline, HandlerToWatcher, DeadlineToWatcher,
       Goroutine, Tick, DeadlineFire, DeadlineClose, WatcherDelete,
       Copy, SshReadData, SshWritten, SshReadFails, SshWriteFails, WsFails,
       Environment, ServerHangsUp, ClientHangsUp, Finalize
  <2>2. CASE ConnectDelete(r)
    BY <2>2 DEF ConnectDelete, Delete
  <2>3. CASE V4CloseWs(r)
    BY <2>3 DEF V4CloseWs, Progress, FinishedMeansDeregistered
  <2>4. CASE Reject(r) \/ MgrNew(r) \/ MgrNewLimit(r) \/ UpgradeFail(r)
    BY <2>4 DEF Reject, MgrNew, MgrNewLimit, UpgradeFail, TypeOK, Lifecycle, Progress, Pc
  <2> QED BY <2>1, <2>2, <2>3, <2>4
<1> QED BY <1>1, <1>2

-----------------------------------------------------------------------------
(***************************************************************************)
(* Session.mu.                                                             *)
(***************************************************************************)
\* Session.mu has at most one owner, and is held exactly while it has one.
LEMMA ExclusiveNext ==
    TypeOK /\ Lifecycle /\ Progress /\ RunExclusive /\ [Next]_vars => RunExclusive'
<1> SUFFICES ASSUME TypeOK, Lifecycle, Progress, RunExclusive, [Next]_vars,
                    NEW s \in Req, IsV1(s)'
             PROVE  (\A q, r \in Owners(s) : q = r)' /\ (mu[s] <=> Owners(s) # {})'
  BY DEF RunExclusive
<1> DEFINE Ex == (\A q, r \in Owners(s) : q = r) /\ (mu[s] <=> Owners(s) # {})
<1> USE DEF TypeOK, IsV1, Owners
\* A step that changes neither an owner nor mu[s] nor the kind of s.
<1>1. ASSUME Owners(s)' = Owners(s), mu'[s] = mu[s], kind[s] = "proxy" PROVE Ex'
  BY <1>1 DEF RunExclusive
<1>2. ASSUME UNCHANGED <<pc, sess, mu, kind>> PROVE Ex'
  BY <1>2 DEF RunExclusive
<1>3. ASSUME NEW r \in Req, Arrive(r) PROVE Ex'
  <2>1. CASE Reject(r)
    BY <2>1 DEF Reject, RunExclusive
  <2>2. ASSUME NEW k \in {"proxy", "v4"}, Dial(r, k) PROVE Ex'
    <3>1. CASE s = r
      <4>1. Owners(s)' = {} /\ ~mu[s]
        BY <2>2, <3>1 DEF Dial, Lifecycle, Progress, AtWork
      <4> QED BY <2>2, <4>1 DEF Dial
    <3>2. CASE s # r
      BY <2>2, <3>2 DEF Dial, RunExclusive
    <3> QED BY <3>1, <3>2
  <2>3. ASSUME NEW q \in Req, MgrGet(r, q) PROVE Ex'
    BY <2>3 DEF MgrGet, RunExclusive
  <2> QED BY <1>3, <2>1, <2>2, <2>3 DEF Arrive
<1>4. ASSUME NEW r \in Req, Handler(r) PROVE Ex'
  <2>1. CASE MgrNew(r) BY <2>1 DEF MgrNew, RunExclusive
  <2>2. CASE MgrNewLimit(r) BY <2>2 DEF MgrNewLimit, RunExclusive
  <2>3. CASE Upgrade(r) BY <2>3 DEF Upgrade, RunExclusive
  <2>4. CASE UpgradeFail(r) BY <2>4 DEF UpgradeFail, RunExclusive
  <2>5. CASE RunStart(r)
    <3>1. CASE sess[r] = s
      <4>1. ~mu[s] /\ Owners(s) = {} BY <2>5, <3>1 DEF RunStart, RunExclusive
      <4>2. Owners(s)' = {r} BY <2>5, <3>1, <4>1 DEF RunStart
      <4>3. mu'[s] = TRUE BY <2>5, <3>1 DEF RunStart
      <4> QED BY <4>2, <4>3
    <3>2. CASE sess[r] # s
      BY <2>5, <3>2 DEF RunStart, RunExclusive
    <3> QED BY <3>1, <3>2
  <2>6. CASE RunRecvErr(r)
    <3>1. kind[s] = "proxy" /\ mu'[s] = mu[s] BY <2>6 DEF RunRecvErr
    <3>2. Owners(s)' = Owners(s) BY <2>6, <3>1 DEF RunRecvErr
    <3> QED BY <1>1, <3>1, <3>2
  <2>7. CASE RunClose(r) BY <2>7 DEF RunClose, RunExclusive
  <2>8. CASE ConnectCloseWs(r) BY <2>8 DEF ConnectCloseWs, RunExclusive
  <2>9. CASE ConnectDelete(r) BY <2>9 DEF ConnectDelete, RunExclusive
  <2>10. CASE V4Delete(r) BY <2>10 DEF V4Delete, RunExclusive
  <2>11. CASE V4CloseWs(r) BY <2>11 DEF V4CloseWs, RunExclusive
  <2> QED
    BY <1>4, <2>1, <2>2, <2>3, <2>4, <2>5, <2>6, <2>7, <2>8, <2>9, <2>10, <2>11 DEF Handler
<1>5. ASSUME NEW r \in Req, RunUnlock(r) PROVE Ex'
  <2>1. CASE sess[r] = s
    <3>1. Owners(s) = {r} BY <1>5, <2>1 DEF RunUnlock, RunExclusive
    <3>2. Owners(s)' = {} BY <1>5, <2>1, <3>1 DEF RunUnlock
    <3>3. mu'[s] = FALSE BY <1>5, <2>1 DEF RunUnlock
    <3> QED BY <3>2, <3>3
  <2>2. CASE sess[r] # s
    BY <1>5, <2>2 DEF RunUnlock, RunExclusive
  <2> QED BY <2>1, <2>2
<1>6. ASSUME NEW q \in Req, Done(q) PROVE Ex'
  <2>1. ASSUME NEW r \in Req, HandlerToDeadline(r) \/ HandlerToWatcher(r) PROVE Ex'
    <3>1. /\ pc[r] = "send" /\ pc' = [pc EXCEPT ![r] = "returned"]
          /\ UNCHANGED <<sess, mu, kind>>
      BY <2>1 DEF HandlerToDeadline, HandlerToWatcher
    <3>2. Owners(s)' = Owners(s) BY <3>1
    <3> QED BY <1>1, <3>1, <3>2
  <2>2. CASE DeadlineToWatcher(q) BY <1>2, <2>2 DEF DeadlineToWatcher, handlerVars
  <2> QED BY <1>6, <2>1, <2>2 DEF Done
<1>7. CASE \/ UNCHANGED vars
           \/ \E q \in Req : Goroutine(q) \/ Copy(q) \/ Environment(q)
  BY <1>2, <1>7 DEF vars, handlerVars, Goroutine, Tick, DeadlineFire, DeadlineClose, WatcherDelete,
     Copy, SshReadData, SshWritten, SshReadFails, SshWriteFails, WsFails,
     Environment, ServerHangsUp, ClientHangsUp, Finalize
<1> QED
  BY <1>3, <1>4, <1>5, <1>6, <1>7 DEF Next

-----------------------------------------------------------------------------
(***************************************************************************)
(* Who took the values sent on done.                                       *)
(***************************************************************************)
Woken(s) == watcher[s] \in {"delete", "exited"}

\* As long as the deadline has not fired, each of the two receivers of s that
\* is gone was met by a Run of its own.
Receivers ==
    \A s \in Req :
        /\ deadline[s] = "send" => age[s] = MaxAge
        /\ age[s] # MaxAge =>
            /\ Woken(s) \/ deadline[s] = "exited" => \E q \in Req : q \in ClosedBy(s)
            /\ Woken(s) /\ deadline[s] = "exited" => \E p, q \in ClosedBy(s) : p # q

\* A handler whose Run has found a receiver stays one.
LEMMA ClosedByGrows ==
    ASSUME TypeOK, Progress, [Next]_vars, NEW s \in Req, NEW q \in ClosedBy(s)
    PROVE  q \in ClosedBy(s)'
<1> USE DEF TypeOK, ClosedBy
<1>1. CASE UNCHANGED vars
  BY <1>1 DEF vars, handlerVars, copyVars
<1>2. ASSUME NEW r \in Req, Arrive(r) PROVE q \in ClosedBy(s)'
  BY <1>2 DEF Arrive, Reject, Dial, MgrGet, copyVars
<1>3. ASSUME NEW r \in Req, Handler(r) \/ RunUnlock(r) PROVE q \in ClosedBy(s)'
  <2>1. CASE RunRecvErr(r) BY <2>1 DEF RunRecvErr
  <2>2. CASE RunStart(r) BY <2>2 DEF RunStart
  <2> QED BY <1>3, <2>1, <2>2 DEF Handler, MgrNew, MgrNewLimit, Upgrade, UpgradeFail, RunUnlock,
     RunClose, ConnectCloseWs, ConnectDelete, V4Delete, V4CloseWs, copyVars
<1>4. ASSUME NEW r \in Req, Done(r) \/ Goroutine(r) PROVE q \in ClosedBy(s)'
  BY <1>4 DEF Done, HandlerToDeadline, HandlerToWatcher, DeadlineToWatcher, Goroutine, Tick,
     DeadlineFire, DeadlineClose, WatcherDelete, handlerVars, copyVars
<1>5. ASSUME NEW r \in Req, Copy(r) \/ Environment(r) PROVE q \in ClosedBy(s)'
  BY <1>5 DEF Copy, SshReadData, SshWritten, SshReadFails, SshWriteFails, WsFails,
     Environment, ServerHangsUp, ClientHangsUp, Finalize, handlerVars, copyVars
<1> QED BY <1>1, <1>2, <1>3, <1>4, <1>5 DEF Next

\* The steps by which a session loses a receiver, and what becomes of its age.
LEMMA WhoTakes ==
    ASSUME TypeOK, Lifecycle, [Next]_vars, NEW s \in Req
    PROVE  /\ age[s] = MaxAge => age'[s] = MaxAge
           /\ deadline'[s] = "send" => deadline[s] = "send" \/ DeadlineClose(s)
           /\ Woken(s)' /\ ~Woken(s) =>
                DeadlineToWatcher(s) \/ \E r \in Req : sess[r] = s /\ HandlerToWatcher(r)
           /\ deadline'[s] = "exited" /\ deadline[s] # "exited" =>
                DeadlineToWatcher(s) \/ \E r \in Req : sess[r] = s /\ HandlerToDeadline(r)
<1> USE DEF TypeOK, Woken
<1>1. CASE UNCHANGED vars
  BY <1>1 DEF vars, timerVars
<1>2. ASSUME NEW r \in Req, Arrive(r) \/ RunUnlock(r) \/ Copy(r) \/ Environment(r)
      PROVE  UNCHANGED timerVars
  BY <1>2 DEF Arrive, Reject, Dial, MgrGet, RunUnlock, Copy, SshReadData, SshWritten, SshReadFails,
     SshWriteFails, WsFails, Environment, ServerHangsUp, ClientHangsUp, Finalize
<1>3. ASSUME NEW r \in Req, Handler(r), ~MgrNew(r) PROVE UNCHANGED timerVars
  BY <1>3 DEF Handler, MgrNewLimit, Upgrade, UpgradeFail, RunStart, RunRecvErr,
     RunClose, ConnectCloseWs, ConnectDelete, V4Delete, V4CloseWs
<1>4. ASSUME NEW r \in Req, MgrNew(r)
      PROVE  /\ age' = age /\ (deadline'[s] = deadline[s] \/ deadline'[s] = "select")
             /\ (watcher'[s] = watcher[s] \/ watcher'[s] = "recv")
  BY <1>4 DEF MgrNew
<1>5. ASSUME NEW r \in Req, Goroutine(r)
      PROVE  /\ age[s] = MaxAge => age'[s] = MaxAge
             /\ deadline'[s] = "send" => deadline[s] = "send" \/ DeadlineClose(s)
             /\ Woken(s)' => Woken(s)
             /\ deadline'[s] = "exited" => deadline[s] = "exited"
  <2>1. CASE Tick(r) BY <2>1, LimitAssumption DEF Tick
  <2>2. CASE DeadlineFire(r) BY <2>2 DEF DeadlineFire
  <2>3. CASE DeadlineClose(r) BY <2>3 DEF DeadlineClose
  <2>4. CASE WatcherDelete(r) BY <2>4 DEF WatcherDelete
  <2> QED BY <1>5, <2>1, <2>2, <2>3, <2>4 DEF Goroutine
<1>6. ASSUME NEW r \in Req, Done(r)
      PROVE  /\ age' = age
             /\ deadline'[s] = "send" => deadline[s] = "send"
             /\ Woken(s)' /\ ~Woken(s) =>
                  DeadlineToWatcher(s) \/ \E q \in Req : sess[q] = s /\ HandlerToWatcher(q)
             /\ deadline'[s] = "exited" /\ deadline[s] # "exited" =>
                  DeadlineToWatcher(s) \/ \E q \in Req : sess[q] = s /\ HandlerToDeadline(q)
  <2>1. CASE DeadlineToWatcher(r)
    <3>1. /\ age' = age /\ (r # s => deadline'[s] = deadline[s] /\ watcher'[s] = watcher[s])
          /\ (r = s => deadline'[s] = "exited")
      BY <2>1 DEF DeadlineToWatcher
    <3> QED BY <2>1, <3>1
  <2>2. ASSUME NEW q \in Req, HandlerToDeadline(q)
        PROVE  /\ age' = age /\ watcher' = watcher
               /\ (sess[q] # s => deadline'[s] = deadline[s])
               /\ (sess[q] = s => deadline'[s] = "exited")
    BY <2>2 DEF HandlerToDeadline
  <2>3. ASSUME NEW q \in Req, HandlerToWatcher(q)
        PROVE  /\ age' = age /\ deadline' = deadline
               /\ (sess[q] # s => watcher'[s] = watcher[s])
    BY <2>3 DEF HandlerToWatcher
  <2> QED BY <1>6, <2>1, <2>2, <2>3 DEF Done
<1> QED BY <1>1, <1>2, <1>3, <1>4, <1>5, <1>6 DEF Next, timerVars

\* Each receiver that is gone keeps the Run that met it.
LEMMA ReceiversNext == TypeOK /\ Lifecycle /\ Progress /\ Receivers /\ [Next]_vars => Receivers'
<1> SUFFICES ASSUME TypeOK, Lifecycle, Progress, Receivers, [Next]_vars, NEW s \in Req
             PROVE  /\ deadline'[s] = "send" => age'[s] = MaxAge
                    /\ age'[s] # MaxAge =>
                        /\ Woken(s)' \/ deadline'[s] = "exited" => \E q \in Req : q \in ClosedBy(s)'
                        /\ Woken(s)' /\ deadline'[s] = "exited" => \E p, q \in ClosedBy(s)' : p # q
  BY DEF Receivers
<1>1. deadline'[s] = "send" => age'[s] = MaxAge
  BY WhoTakes DEF Receivers, Progress, DeadlineClose
<1>2. ASSUME age'[s] # MaxAge PROVE age[s] # MaxAge /\ ~DeadlineToWatcher(s)
  BY <1>2, WhoTakes DEF Receivers, DeadlineToWatcher
<1>3. \A q \in ClosedBy(s) : q \in Req /\ q \in ClosedBy(s)' BY ClosedByGrows DEF ClosedBy
<1>4. ASSUME NEW r \in Req, sess[r] = s, HandlerToWatcher(r) \/ HandlerToDeadline(r)
      PROVE  r \in ClosedBy(s)' /\ r \notin ClosedBy(s)
  BY <1>4 DEF HandlerToWatcher, HandlerToDeadline, ClosedBy, Progress, TypeOK, copyVars
<1>5. ASSUME age'[s] # MaxAge, Woken(s)', ~Woken(s)
      PROVE  \E r \in Req : /\ r \in ClosedBy(s)' /\ r \notin ClosedBy(s)
                            /\ deadline'[s] = deadline[s]
  <2>1. PICK r \in Req : sess[r] = s /\ HandlerToWatcher(r) BY <1>2, <1>5, WhoTakes
  <2> QED BY <1>4, <2>1 DEF HandlerToWatcher
<1>6. ASSUME age'[s] # MaxAge, deadline'[s] = "exited", deadline[s] # "exited"
      PROVE  \E r \in Req : /\ r \in ClosedBy(s)' /\ r \notin ClosedBy(s)
                            /\ watcher'[s] = watcher[s]
  <2>1. PICK r \in Req : sess[r] = s /\ HandlerToDeadline(r) BY <1>2, <1>6, WhoTakes
  <2> QED BY <1>4, <2>1 DEF HandlerToDeadline
<1>7. ASSUME age'[s] # MaxAge, Woken(s)' \/ deadline'[s] = "exited"
      PROVE  \E q \in Req : q \in ClosedBy(s)'
  BY <1>2, <1>3, <1>5, <1>6, <1>7 DEF Receivers
<1>8. ASSUME age'[s] # MaxAge, Woken(s)', deadline'[s] = "exited"
      PROVE  \E p, q \in ClosedBy(s)' : p # q
  <2>1. CASE Woken(s) /\ deadline[s] = "exited" BY <1>2, <1>3, <1>8, <2>1 DEF Receivers
  <2>2. CASE ~Woken(s)
    <3>1. PICK r \in Req : r \in ClosedBy(s)' /\ r \notin ClosedBy(s) /\ deadline'[s] = deadline[s]
      BY <1>5, <1>8, <2>2
    <3>2. PICK q \in Req : q \in ClosedBy(s) BY <1>2, <1>8, <3>1 DEF Receivers
    <3> QED BY <1>3, <3>1, <3>2
  <2>3. CASE deadline[s] # "exited"
    <3>1. PICK r \in Req : r \in ClosedBy(s)' /\ r \notin ClosedBy(s) /\ watcher'[s] = watcher[s]
      BY <1>6, <1>8, <2>3
    <3>2. PICK q \in Req : q \in ClosedBy(s) BY <1>2, <1>8, <3>1 DEF Receivers, Woken
    <3> QED BY <1>3, <3>1, <3>2
  <2> QED BY <2>1, <2>2, <2>3
<1> QED BY <1>1, <1>7, <1>8

-----------------------------------------------------------------------------
(***************************************************************************)
(* The inductive invariant and what follows from it.                       *)
(***************************************************************************)
Inv ==
    /\ TypeOK
    /\ Lifecycle
    /\ Progress
    /\ SendMeansClosed
    /\ DoneMeansClosed
    /\ V1SlotHasReclaimer
    /\ SessionLimit
    /\ FinishedMeansDeregistered
    /\ RunExclusive
    /\ Receivers

\* An idle relay satisfies the inductive invariant.
LEMMA InvInit == Init => Inv
<1> SUFFICES ASSUME Init PROVE Inv
  OBVIOUS
<1>1. TypeOK BY TypeInit
<1>2. Lifecycle /\ Progress BY DEF Init, Lifecycle, Progress, Created, AtWork
<1>3. SendMeansClosed /\ DoneMeansClosed /\ V1SlotHasReclaimer /\ FinishedMeansDeregistered
  BY DEF Init, SendMeansClosed, DoneMeansClosed, V1SlotHasReclaimer, FinishedMeansDeregistered
<1>4. SessionLimit
  BY FS_EmptySet, LimitAssumption DEF Init, SessionLimit
<1>5. RunExclusive
  BY DEF Init, RunExclusive, IsV1
<1>6. Receivers
  BY DEF Init, Receivers, Woken
<1> QED BY <1>1, <1>2, <1>3, <1>4, <1>5, <1>6 DEF Inv

\* Every step of the relay preserves the inductive invariant.
LEMMA InvNext == Inv /\ [Next]_vars => Inv'
  BY TypeNext, LifecycleNext, ProgressNext, ClosedNext, ReclaimerNext, LimitNext, FinishedNext,
     ExclusiveNext, ReceiversNext
  DEF Inv

\* The inductive invariant, from which the properties of the runs follow, holds
\* in every reachable state of the relay.
THEOREM Invariance == Spec => []Inv
<1> QED BY InvInit, InvNext, PTL DEF Spec

\* However many handlers of /proxy and /v4/connect dial and register at the
\* same time, Manager.New registers at most max_sessions sessions.
THEOREM LimitHolds == Spec => []SessionLimit
<1>1. Inv => SessionLimit BY DEF Inv
<1> QED BY <1>1, Invariance, PTL

\* Nobody is told that a session is over before its SSH connection is closed.
THEOREM DoneIsTruthful == Spec => []DoneMeansClosed
<1>1. Inv => DoneMeansClosed BY DEF Inv
<1> QED BY <1>1, Invariance, PTL

\* No interleaving of Close calls leaves a version 1 slot without somebody who
\* will delete it.
THEOREM SlotsAreReclaimable == Spec => []V1SlotHasReclaimer
<1>1. Inv => V1SlotHasReclaimer BY DEF Inv
<1> QED BY <1>1, Invariance, PTL

\* A session whose /connect has returned, or whose /v4/connect saw io.EOF, is
\* not in the registry.
THEOREM FinishedIsGone == Spec => []FinishedMeansDeregistered
<1>1. Inv => FinishedMeansDeregistered BY DEF Inv
<1> QED BY <1>1, Invariance, PTL

\* At most one Run works on a version 1 session at a time, under Session.mu.
THEOREM RunsAreExclusive == Spec => []RunExclusive
<1>1. Inv => RunExclusive BY DEF Inv
<1> QED BY <1>1, Invariance, PTL

\* Close leaves a handler without a receiver only after the deadline fired or
\* two other Runs have ended the session.
THEOREM StuckIsExplained == Spec => []StuckHasCause
<1>1. Inv => StuckHasCause
  <2> SUFFICES ASSUME Inv, NEW r \in Req, pc[r] = "send", deadline[sess[r]] # "select",
                      watcher[sess[r]] # "recv", age[sess[r]] # MaxAge
               PROVE  \E p, q \in ClosedBy(sess[r]) : p # q
    BY DEF StuckHasCause
  <2>1. sess[r] \in Req /\ Created(sess[r]) /\ watcher[sess[r]] # "none"
    BY DEF Inv, TypeOK, Lifecycle, AtWork
  <2>2. deadline[sess[r]] # "close" BY <2>1 DEF Inv, Progress
  <2>3. deadline[sess[r]] = "exited" /\ Woken(sess[r])
    BY <2>1, <2>2 DEF Inv, TypeOK, Receivers, Created, Woken
  <2> QED BY <2>1, <2>3 DEF Inv, Receivers
<1> QED BY <1>1, Invariance, PTL

-----------------------------------------------------------------------------
(***************************************************************************)
(* The relay implements SessionRegistry.                                   *)
(***************************************************************************)
Used     == {s \in Req : Created(s)}
OpenSsh  == {s \in Req : Created(s) /\ ssh[s] # "closed"}
Attached == {s \in Req : \E r \in Req : sess[r] = s /\ sshG[r] # "none"}

\* An idle relay is an empty registry.
LEMMA RegistryInit == Init => Registry!RInit
  BY DEF Init, Registry!RInit, Created

\* A step that the registry does not see.
LEMMA RegistryStutters ==
    ASSUME UNCHANGED <<sessions, age>>, Used' = Used, OpenSsh' = OpenSsh, Attached' = Attached
    PROVE  UNCHANGED Registry!rvars
  BY DEF Registry!rvars, Used, OpenSsh, Attached

\* Every step of the relay is one step of the registry or invisible to it.
LEMMA RegistryNext == Inv /\ [Next]_vars => [Registry!RNext]_(Registry!rvars)
<1> SUFFICES ASSUME Inv, [Next]_vars
             PROVE  Registry!RNext \/ UNCHANGED Registry!rvars
  OBVIOUS
<1> DEFINE Step == Registry!RNext \/ UNCHANGED Registry!rvars
<1>t. TypeOK BY DEF Inv
<1>l. Lifecycle /\ Progress BY DEF Inv
<1> USE <1>t DEF TypeOK
<1>1. CASE UNCHANGED vars
  BY <1>1, RegistryStutters DEF vars, handlerVars, copyVars, timerVars, Used, OpenSsh, Attached,
     Created
<1>2. ASSUME NEW r \in Req, Arrive(r) PROVE Step
  <2>1. Used' = Used /\ UNCHANGED <<sessions, age>>
    BY <1>2 DEF Arrive, Reject, Dial, MgrGet, timerVars, Used, Created
  <2>2. OpenSsh' = OpenSsh
    BY <1>l, <1>2 DEF Arrive, Reject, Dial, MgrGet, timerVars, OpenSsh, Created, Lifecycle
  <2>3. sshG[r] = "none" /\ UNCHANGED sshG
    BY <1>l, <1>2 DEF Arrive, Reject, Dial, MgrGet, copyVars, Progress
  <2>4. \A q \in Req : q # r => sess'[q] = sess[q]
    BY <1>2 DEF Arrive, Reject, Dial, MgrGet
  <2>5. Attached' = Attached
    BY <2>3, <2>4 DEF Attached
  <2> QED BY <2>1, <2>2, <2>5, RegistryStutters
<1>3. ASSUME NEW r \in Req, MgrNew(r) PROVE Step
  <2>0. Cardinality(sessions) \in Nat
    BY ReqAssumption, FS_Subset, FS_CardinalityType
  <2>c. Registry!Cardinality(sessions) = Cardinality(sessions)
    BY Zenon DEF Registry!Cardinality, Cardinality
  <2>r. Registry!Room
    BY <1>3, <2>0, <2>c, LimitAssumption DEF MgrNew, AtLimit, Registry!Room
  <2>1. r \notin Used /\ sessions' = sessions \cup {r}
    BY <1>l, <1>3 DEF MgrNew, Lifecycle, Used
  <2>2. Used' = Used \cup {r}
    BY <1>3 DEF MgrNew, Used, Created
  <2>3. OpenSsh' = OpenSsh \cup {r}
    BY <1>l, <1>3 DEF MgrNew, OpenSsh, Created, Progress
  <2>4. Attached' = Attached /\ UNCHANGED age
    BY <1>3 DEF MgrNew, Attached, copyVars
  <2>5. Registry!Register(r)
    BY <2>r, <2>1, <2>2, <2>3, <2>4 DEF Registry!Register, Used, OpenSsh, Attached
  <2> QED BY <2>5 DEF Registry!RNext
<1>4. ASSUME NEW r \in Req, MgrNewLimit(r) \/ Upgrade(r) \/ UpgradeFail(r) \/ ConnectCloseWs(r)
                            \/ V4CloseWs(r) \/ RunUnlock(r)
      PROVE  Step
  BY <1>4, RegistryStutters DEF MgrNewLimit, Upgrade, UpgradeFail, ConnectCloseWs, V4CloseWs,
     RunUnlock, copyVars, timerVars, Used, OpenSsh, Attached, Created
<1>5. ASSUME NEW r \in Req, NEW s \in Req, sess[r] = s, RunStart(r) PROVE Step
  <2>1. Used' = Used /\ OpenSsh' = OpenSsh /\ UNCHANGED <<sessions, age>>
    BY <1>5 DEF RunStart, timerVars, Used, OpenSsh, Created
  <2>2. s \in Used
    BY <1>l, <1>5 DEF RunStart, Lifecycle, AtWork, Used
  <2>3. Attached' = Attached \cup {s}
    BY <1>5 DEF RunStart, Attached, IsV1
  <2>4. Registry!Attach(s)
    BY <2>1, <2>2, <2>3 DEF Registry!Attach, Used, OpenSsh, Attached
  <2> QED BY <2>4 DEF Registry!RNext
<1>6. ASSUME NEW r \in Req, RunRecvErr(r) PROVE Step
  <2>1. Used' = Used /\ OpenSsh' = OpenSsh /\ UNCHANGED <<sessions, age>>
    BY <1>6 DEF RunRecvErr, timerVars, Used, OpenSsh, Created
  <2>2. \A q \in Req : sess'[q] = sess[q] /\ (sshG'[q] # "none" <=> sshG[q] # "none")
    BY <1>6 DEF RunRecvErr, Err
  <2>3. Attached' = Attached BY <2>2 DEF Attached
  <2> QED BY <2>1, <2>3, RegistryStutters
<1>7. ASSUME NEW r \in Req, NEW s \in Req, sess[r] = s, RunClose(r) PROVE Step
  <2>1. Used' = Used /\ Attached' = Attached /\ UNCHANGED <<sessions, age>>
    BY <1>7 DEF RunClose, copyVars, timerVars, Used, Attached, Created
  <2>2. OpenSsh' = OpenSsh \ {s}
    BY <1>7 DEF RunClose, timerVars, OpenSsh, Created
  <2>3. s \in Attached
    BY <1>l, <1>7 DEF RunClose, Progress, Attached
  <2>4. CASE s \in OpenSsh
    <3>1. Registry!Terminate(s)
      BY <2>1, <2>2, <2>3, <2>4 DEF Registry!Terminate, Used, OpenSsh, Attached
    <3> QED BY <3>1 DEF Registry!RNext
  <2>5. CASE s \notin OpenSsh
    BY <2>1, <2>2, <2>5, RegistryStutters
  <2> QED BY <2>4, <2>5
<1>8. ASSUME NEW s \in Req, Delete(s),
             UNCHANGED <<ssh, sess, sshG, deadline, age>>
      PROVE  Step
  <2>1. Used' = Used /\ OpenSsh' = OpenSsh /\ Attached' = Attached
    BY <1>8 DEF Used, OpenSsh, Attached, Created
  <2>2. CASE s \in sessions
    <3>1. Registry!Deregister(s)
      BY <1>8, <2>1, <2>2 DEF Delete, Registry!Deregister, Used, OpenSsh, Attached
    <3> QED BY <3>1 DEF Registry!RNext
  <2>3. CASE s \notin sessions
    BY <1>8, <2>1, <2>3, RegistryStutters DEF Delete
  <2> QED BY <2>2, <2>3
<1>9. ASSUME NEW r \in Req, ConnectDelete(r) \/ V4Delete(r) PROVE Step
  BY <1>8, <1>9 DEF ConnectDelete, V4Delete, copyVars, timerVars
<1>10. ASSUME NEW s \in Req, Done(s) PROVE Step
  BY <1>10, RegistryStutters DEF Done, HandlerToDeadline, HandlerToWatcher, DeadlineToWatcher,
     handlerVars, copyVars, Used, OpenSsh, Attached, Created
<1>11. ASSUME NEW s \in Req, Tick(s) PROVE Step
  <2>1. Registry!GrowOld(s)
    BY <1>11 DEF Tick, handlerVars, copyVars, Registry!GrowOld, Created
  <2> QED BY <2>1 DEF Registry!RNext
<1>12. ASSUME NEW s \in Req, DeadlineFire(s) PROVE Step
  BY <1>12, RegistryStutters DEF DeadlineFire, handlerVars, copyVars, Used, OpenSsh, Attached,
     Created
<1>13. ASSUME NEW s \in Req, DeadlineClose(s) PROVE Step
  <2>1. Used' = Used /\ Attached' = Attached /\ UNCHANGED <<sessions, age>>
    BY <1>13 DEF DeadlineClose, handlerVars, copyVars, Used, Attached, Created
  <2>2. OpenSsh' = OpenSsh \ {s}
    BY <1>13 DEF DeadlineClose, OpenSsh, Created
  <2>3. age[s] = MaxAge
    BY <1>l, <1>13 DEF DeadlineClose, Progress
  <2>4. CASE s \in OpenSsh
    <3>1. Registry!Terminate(s)
      BY <2>1, <2>2, <2>3, <2>4 DEF Registry!Terminate, Used, OpenSsh, Attached
    <3> QED BY <3>1 DEF Registry!RNext
  <2>5. CASE s \notin OpenSsh
    BY <2>1, <2>2, <2>5, RegistryStutters
  <2> QED BY <2>4, <2>5
<1>14. ASSUME NEW s \in Req, WatcherDelete(s) PROVE Step
  BY <1>8, <1>14 DEF WatcherDelete, handlerVars, copyVars
<1>15. ASSUME NEW r \in Req, Copy(r) PROVE Step
  <2>1. Used' = Used /\ OpenSsh' = OpenSsh /\ UNCHANGED <<sessions, age>>
    BY <1>15 DEF Copy, SshReadData, SshWritten, SshReadFails, SshWriteFails, WsFails,
       timerVars, Used, OpenSsh, Created
  <2>2. \A q \in Req : sess'[q] = sess[q] /\ (sshG'[q] # "none" <=> sshG[q] # "none")
    BY <1>15 DEF Copy, SshReadData, SshWritten, SshReadFails, SshWriteFails, WsFails, handlerVars
  <2>3. Attached' = Attached BY <2>2 DEF Attached
  <2> QED BY <2>1, <2>3, RegistryStutters
<1>16. ASSUME NEW r \in Req, Environment(r) PROVE Step
  BY <1>16, RegistryStutters DEF Environment, ServerHangsUp, ClientHangsUp, Finalize,
     handlerVars, copyVars, timerVars, Used, OpenSsh, Attached, Created
<1>17. \A r \in Req : sess[r] \in Req OBVIOUS
<1> QED
  BY <1>17, <1>1, <1>2, <1>3, <1>4, <1>5, <1>6, <1>7, <1>9, <1>10, <1>11, <1>12, <1>13, <1>14, <1>15,
     <1>16 DEF Next, Handler, Goroutine

\* The handlers, goroutines and channels of the relay implement the abstract
\* registry, for every configuration and any number of requests.
THEOREM Refinement == Spec => ImplementsRegistry
<1> QED
  BY RegistryInit, RegistryNext, Invariance, PTL DEF Spec, ImplementsRegistry, Registry!RSpec
=============================================================================
