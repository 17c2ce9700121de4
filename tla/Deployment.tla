----------------------------- MODULE Deployment -----------------------------
(***************************************************************************)
(* The programs together: the SSH Relay, the Cookie Server and its         *)
(* authorization backend, each started from its configuration, and clients *)
(* that come to them: helpers, one process per ssh(1), from their flags to *)
(* their exit status, and browsers, which ask for cookies and come to the  *)
(* relay with cookies of any making.                                       *)
(*                                                                         *)
(* A helper asks /cookie, where the server calls Authorize, takes the      *)
(* endpoint and the cookies out of the answer, and opens a session there   *)
(* with /proxy and /connect, or with /v4/connect.  Each of these requests  *)
(* is one step here; what happens inside the relay's handlers, and in a    *)
(* session once it runs, is in RelaySessions, CorpRelay and CorpRelayV4.   *)
(* Servers crash and start again, requests and replies are lost, sessions  *)
(* reach their deadline between two requests.                              *)
(***************************************************************************)
EXTENDS CookieServer, FiniteSets

CONSTANTS
    Helpers,      \* processes of the helper
    Browsers,     \* other clients of the Cookie Server and of the relay
    Deployments,  \* what there may be: one configuration message per program, and
                  \* the clients that come
    Queries,      \* what browsers may ask for
    MaxCrashes    \* how often servers crash at most

ASSUME BoundAssumption == MaxCrashes \in Nat /\ Helpers \cap Browsers = {}

Clients == Helpers \cup Browsers
Process == {"relay", "cookie", "backend"}

Address       == [host : STRING, port : STRING]
RelayConfig   == [server : HttpServerOptions, maxAge : Int, cookieName : STRING, versions : SUBSET STRING,
                  maxSessions : Int]
CookieConfig  == [server : HttpServerOptions, cookieName : STRING, maxAge : Int,
                  grpc : [addr : Address, tls : TlsConfig]]
BackendConfig == [grpc : [nil : BOOLEAN, addr : Address, tls : TlsConfig], example : BOOLEAN, relayAddr : Address]
HelperConfig  == [host : STRING, port : STRING, addr : Address, transport : HttpTransport,
                  relayTransport : HttpTransport, version : STRING]

\* Messages and queries have the types of their fields, and nothing else is
\* asked of them.
ASSUME MessageAssumption ==
    Deployments \subseteq [clients : SUBSET Clients, relay : RelayConfig, cookie : CookieConfig,
                           backend : BackendConfig, helper : HelperConfig]
ASSUME QueryAssumption ==
    Queries \subseteq [ext : STRING, path : STRING, version : Int, method : STRING]

VARIABLES
    conf,      \* the deployment; it never changes
    proc,      \* what every server process runs with, {} if it does not run
    sessions,  \* the relay's Manager.sessions, by the client that made each
    client,    \* the clients
    crashes    \* crashes so far

vars == <<conf, proc, sessions, client, crashes>>

ErrNone == "none"
ErrOut  == {"down", "lost", "dial", "limit", "expired"}      \* not the clients' fault
ErrConf == {"config", "address", "handshake", "404", "400", "origin", "upgrade", "version", "answer"}

\* Every variable has its type; in particular the version of a request is an
\* int32 and a server process has one configuration at most.
TypeOK ==
    /\ conf.clients \subseteq Clients
    /\ DOMAIN proc = Process
    /\ \A p \in Process : Cardinality(proc[p]) <= 1 /\ \A s \in proc[p] : s.tls \in Settings
    /\ sessions \subseteq Clients
    /\ DOMAIN client = Clients
    /\ \A c \in Clients :
        /\ client[c].pc \in {"absent", "start", "rpc", "answered", "proxy", "connect", "v4", "running", "exit"}
        /\ \A r \in client[c].req : r.version \in 0..(VersionMod - 1) /\ r.method \in Method
        /\ client[c].verdict \in {"none", "refused", "granted"}
        /\ client[c].ran \in BOOLEAN
        /\ client[c].err \in {ErrNone} \cup ErrOut \cup ErrConf
        /\ client[c].status \in {-1, 0, 1}
    /\ crashes \in 0..MaxCrashes

Init ==
    /\ conf \in Deployments
    /\ proc = [p \in Process |-> {}]
    /\ sessions = {}
    /\ client = [c \in Clients |-> [pc |-> IF c \in conf.clients THEN "start" ELSE "absent",
                req |-> {}, answer |-> Unwritten,
                verdict |-> "none", ran |-> FALSE, err |-> ErrNone, status |-> -1]]
    /\ crashes = 0

Goto(c, l) == client' = [client EXCEPT ![c].pc = l]

(***************************************************************************)
(* Faulty variants of operations below.                                    *)
(***************************************************************************)

\* Any cookie will do.
Origin_AnyName(w, name) == {k.value : k \in w.cookies}

\* try must be 0, as the comment on connect.New has it.
ConnectNew_TryZero(q) == q.sid \in Helpers /\ q.ack = 0 /\ q.pos = 0 /\ q.try = 0

\* An end of file is taken for the end of a session wherever it comes from.
AgentRun_AnyEOF(c, e) == IF e \in {"lost", "answer"} THEN {0, 1} ELSE {1}

\* The call of Authorize waits for the backend to be ready.
Authorize_WaitForReady(cs, r) ==
    IF proc["backend"] = {} THEN {}
    ELSE {[err |-> FALSE, denied |-> FALSE, redirect |-> "endpoint", to |-> b.relayAddr, method |-> r.method]
            : b \in proc["backend"]}

(***************************************************************************)
(* The main functions: loadConfig, New and Run up to the listener.         *)
(***************************************************************************)

WithPort(o) == [o EXCEPT !.port = IF o.port = "" THEN "8022" ELSE o.port]

relayLoadConfig(m) ==
    {[d EXCEPT !.server = WithPort(d.server)] :
        d \in {x \in {m} : ~m.server.nil /\ m.cookieName # "" /\ m.versions # {}}}

\* The paths runner.New registers handlers for.
Paths(v) ==
    (IF "CORP_RELAY" \in v THEN {"/connect", "/proxy"} ELSE {})
        \cup (IF "CORP_RELAY_V4" \in v THEN {"/v4/connect"} ELSE {})

relayMain(m) ==
    UNION {{[port |-> s.port, tls |-> s.tls, paths |-> Paths(d.versions), cookieName |-> d.cookieName,
             maxSessions |-> d.maxSessions] :
                s \in {x \in NewServer(d.server) : FromProto(d.maxAge) # {} /\ Run(d.server, x)}}
           : d \in relayLoadConfig(m)}

\* An unset origin_cookie dereferences nil.
cookieLoadConfig(m) ==
    {[d EXCEPT !.server = WithPort(d.server)] : d \in {x \in {m} : ~m.server.nil /\ m.cookieName # ""}}

\* grpc.NewClient does not connect before the first call.
cookieMain(m) ==
    UNION {{[port |-> s.port, tls |-> s.tls, paths |-> {"/cookie"}, cookieName |-> d.cookieName,
             maxAge |-> d.maxAge, backend |-> d.grpc.addr, creds |-> k] :
                s \in {x \in NewServer(d.server) : Run(d.server, x)}, k \in TransportCreds(d.grpc.tls)}
           : d \in cookieLoadConfig(m)}

\* The example backend, or one that answers as it likes.
backendMain(m) ==
    {[port |-> m.grpc.addr.port, tls |-> k, paths |-> {}, example |-> m.example, relayAddr |-> m.relayAddr] :
        k \in {x \in TransportCreds(m.grpc.tls) : ~m.grpc.nil /\ m.relayAddr # Nowhere}}

Main(p) ==
    CASE p = "relay"   -> relayMain(conf.relay)
      [] p = "cookie"  -> cookieMain(conf.cookie)
      [] p = "backend" -> backendMain(conf.backend)

AddDefaultPort(a) == [a EXCEPT !.port = IF a.port = "" THEN "8022" ELSE a.port]

buildConfig(m) ==
    {[d EXCEPT !.addr = AddDefaultPort(d.addr),
               !.relayTransport = IF d.relayTransport.nil THEN d.transport ELSE d.relayTransport] :
        d \in {x \in {m} : m.host # "" /\ m.port # "" /\ m.addr # Nowhere}}

\* The helper's flags and file once more; nothing changes them.
cfg == CHOOSE d \in buildConfig(conf.helper) : TRUE

(***************************************************************************)
(* Connections.                                                            *)
(***************************************************************************)

\* Why a connection to addr cannot be had.
Dialling(addr, tls) ==
    CASE addr.host \notin Process -> "address"
      [] addr.host \in Process /\ proc[addr.host] = {} -> "down"
      [] OTHER -> LET s == CHOOSE x \in proc[addr.host] : TRUE
                  IN  CASE s.port # addr.port -> "address"
                        [] s.port = addr.port /\ ~Handshake(s.tls, tls) -> "handshake"
                        [] OTHER -> ErrNone

\* What the process exits with after error e: Agent.Run drops io.EOF when it
\* comes from Session.Run, which includes dial.  The reply of /proxy may end
\* in one, and so may a TLS handshake; gorilla makes an unexpected EOF of one
\* in the reply to the upgrade.
AgentRun(c, e) ==
    IF /\ e = "lost"
       /\ \/ client[c].pc = "proxy"
          \/ client[c].pc \in {"connect", "v4"} /\ cfg.relayTransport.tls.mode # "DISABLED"
    THEN {0, 1} ELSE {1}

Fail(c, e) ==
    \E s \in AgentRun(c, e) :
        client' = [client EXCEPT ![c].pc = "exit", ![c].err = e, ![c].status = s]

(***************************************************************************)
(* /cookie.                                                                *)
(***************************************************************************)

\* The request, up to the call of Authorize; handler.New looks at max_age.
\* Only the Cookie Server has a handler for /cookie.
AskCookie(c, q, addr, tls) ==
    /\ client[c].pc = "start"
    /\ LET e      == Dialling(addr, tls)
           served == \A s \in proc[addr.host] : "/cookie" \in s.paths
           r      == IF served THEN New(q) ELSE {}
           ok     == r # {} /\ \A cs \in proc["cookie"] : FromProto(cs.maxAge) # {}
       IN  IF e # ErrNone THEN Fail(c, e)
           ELSE client' = [client EXCEPT
                    ![c].pc = IF ok THEN "rpc" ELSE "answered",
                    ![c].req = r,
                    ![c].answer = CASE ok            -> Unwritten
                                    [] ~ok /\ served -> BadRequest
                                    [] OTHER         -> NotFound]
    /\ UNCHANGED <<conf, proc, sessions, crashes>>

\* Authenticate's URL.
authURL == [ext |-> "sshRelayHelper", path |-> "/", version |-> 2, method |-> "direct"]

\* main, agent.New and Authenticate.
Authenticate(h) ==
    /\ client[h].pc = "start"
    /\ IF buildConfig(conf.helper) = {} \/ NewClient(cfg.transport) = {}
         THEN Fail(h, "config") /\ UNCHANGED <<conf, proc, sessions, crashes>>
         ELSE \E t \in NewClient(cfg.transport) : AskCookie(h, authURL, cfg.addr, t)

BrowserAsks(b) ==
    \E q \in Queries, cs \in proc["cookie"] :
        AskCookie(b, q, [host |-> "cookie", port |-> cs.port], [on |-> cs.tls.on, auth |-> "NoClientCert", cert |-> TRUE])

RpcError == [err |-> TRUE, denied |-> FALSE, redirect |-> "none", to |-> Nowhere, method |-> "UNSPECIFIED"]

\* The call of Authorize, and what may come back.
Authorize(cs, r) ==
    IF Dialling(cs.backend, cs.creds) # ErrNone THEN {RpcError}
    ELSE UNION {IF b.example
                  THEN {[err |-> FALSE, denied |-> FALSE, redirect |-> "endpoint", to |-> b.relayAddr,
                         method |-> r.method]}
                  ELSE {RpcError} \cup [err : {FALSE}, denied : BOOLEAN, redirect : {"none", "uri", "endpoint"},
                                        to : {b.relayAddr}, method : Method]
                : b \in proc["backend"]}

CookieReplies(c) ==
    /\ client[c].pc = "rpc"
    /\ \E cs \in proc["cookie"], r \in client[c].req : \E a \in Authorize(cs, r) :
        client' = [client EXCEPT ![c].pc = "answered", ![c].answer = Handle(cs, r, a),
                                 ![c].verdict = IF a.err \/ a.denied THEN "refused" ELSE "granted"]
    /\ UNCHANGED <<conf, proc, sessions, crashes>>

(***************************************************************************)
(* The helper's session.                                                   *)
(***************************************************************************)

\* FromReader, and the choice of the version in Agent.Run.  A 303 leads client.Get
\* to an extension, which has no server, or to a page without the XSSI header.
ReadAnswer(h) ==
    /\ client[h].pc = "answered"
    /\ CASE FromReader(client[h].answer) = {} -> Fail(h, "answer")
         [] FromReader(client[h].answer) # {} /\ cfg.version = "CORP_RELAY" -> Goto(h, "proxy")
         [] FromReader(client[h].answer) # {} /\ cfg.version \in {"CORP_RELAY_V4", "UNSPECIFIED"} -> Goto(h, "v4")
         [] OTHER -> Fail(h, "version")
    /\ UNCHANGED <<conf, proc, sessions, crashes>>

\* The queries of the helper's requests; uuid.New names the session.
proxyURL      == [host |-> cfg.host, port |-> cfg.port]
connectURL(h) == [sid |-> h, ack |-> 0, pos |-> 0, try |-> 1]

\* What the relay makes of them: proxy.New, and connect.New, which asks of try
\* only that it is a number.  /v4/connect takes any.
ProxyNew(q)   == q.host # "" /\ q.port # ""
ConnectNew(q) == q.sid \in Helpers /\ q.ack = 0 /\ q.pos = 0 /\ q.try # Malformed

\* Why the request for path does not get past its parameters.
Request(h, path, tls, good) ==
    IF tls = {} THEN "config"
    ELSE LET addr == AddDefaultPort(client[h].answer.to)
             e    == Dialling(addr, CHOOSE t \in tls : TRUE)
         IN  IF e # ErrNone THEN e
             ELSE IF \E s \in proc[addr.host] : path \notin s.paths THEN "404"
             ELSE IF good THEN ErrNone ELSE "400"

\* request.Origin, on the cookies of the answer.  Request.Cookie finds nothing
\* under a name that is not a token.
Origin(w, name) ==
    {k.value : k \in {x \in w.cookies : x.name = name /\ name \in Tokens /\ x.value[1] # ""}}

Room(s) == s.maxSessions > 0 => Cardinality(sessions) < s.maxSessions

\* /proxy and /v4/connect: the checks, net.Dial and Manager.New.  The session is
\* registered before the client knows of it.
OpenSession(h, e, next) ==
    /\ UNCHANGED <<conf, proc, crashes>>
    /\ \/ e # ErrNone /\ Fail(h, e) /\ UNCHANGED sessions
       \/ /\ e = ErrNone
          /\ \E s \in proc["relay"] :
              LET origin == Origin(client[h].answer, s.cookieName)
              IN  \/ origin = {} /\ Fail(h, "origin") /\ UNCHANGED sessions
                  \/ origin # {} /\ Fail(h, "dial") /\ UNCHANGED sessions
                  \/ origin # {} /\ ~Room(s) /\ Fail(h, "limit") /\ UNCHANGED sessions
                  \/ /\ origin # {}
                     /\ Room(s)
                     /\ sessions' = sessions \cup {h}
                     /\ next \/ Fail(h, "lost")

\* CheckOrigin, and the WebSocket is there.
Upgrade(h) ==
    \E s \in proc["relay"] :
        IF Origin(client[h].answer, s.cookieName) = {ExtOrigin("sshRelayHelper")}
          THEN client' = [client EXCEPT ![h].pc = "running", ![h].ran = TRUE]
          ELSE Fail(h, "upgrade")

\* dial, with its http.Client, and parseProxyResp.
Proxy(h) ==
    /\ client[h].pc = "proxy"
    /\ OpenSession(h, Request(h, "/proxy", NewClient(cfg.relayTransport), ProxyNew(proxyURL)), Goto(h, "connect"))

\* The settings of gorilla's Dialer.
DialerTLS == Config(cfg.relayTransport.tls)

\* The rest of dial.  connectHandle deletes the session unless the upgrade
\* succeeds, and then when Run ends.
Connect(h) ==
    /\ client[h].pc = "connect"
    /\ LET e == Request(h, "/connect", DialerTLS, ConnectNew(connectURL(h)))
       IN  \/ e # ErrNone /\ Fail(h, e) /\ UNCHANGED sessions
           \/ e = ErrNone /\ h \notin sessions /\ Fail(h, "expired") /\ UNCHANGED sessions
           \/ /\ e = ErrNone
              /\ h \in sessions
              /\ Upgrade(h)
              /\ sessions' = IF client'[h].pc = "running" THEN sessions ELSE sessions \ {h}
           \/ e = ErrNone /\ h \in sessions /\ Fail(h, "lost") /\ sessions' = sessions \ {h}
    /\ UNCHANGED <<conf, proc, crashes>>

ConnectV4(h) ==
    /\ client[h].pc = "v4"
    /\ OpenSession(h, Request(h, "/v4/connect", DialerTLS, TRUE), Upgrade(h))

\* Run ends at either end, with io.EOF or not.  connectHandleV4 leaves the
\* session to its deadline unless it ended with io.EOF.
RunEnds(h) ==
    /\ client[h].pc = "running"
    /\ \E s \in {0, 1} : client' = [client EXCEPT ![h].pc = "exit", ![h].status = s]
    /\ \/ sessions' = sessions \ {h}
       \/ cfg.version # "CORP_RELAY" /\ UNCHANGED sessions
    /\ UNCHANGED <<conf, proc, crashes>>

(***************************************************************************)
(* The environment.                                                        *)
(***************************************************************************)

\* /proxy or /v4/connect, by a client with a cookie from elsewhere: request.Origin
\* asks of the value only that it has "://".
OthersConnect(b) ==
    /\ b \in conf.clients \ sessions
    /\ \E s \in proc["relay"] : s.cookieName \in Tokens /\ s.paths # {} /\ Room(s)
    /\ sessions' = sessions \cup {b}
    /\ UNCHANGED <<conf, proc, client, crashes>>

Start(p) ==
    /\ proc[p] = {}
    /\ Main(p) # {}
    /\ proc' = [proc EXCEPT ![p] = Main(p)]
    /\ UNCHANGED <<conf, sessions, client, crashes>>

\* Sessions, and requests under way, go with the process.
Crash(p) ==
    /\ crashes < MaxCrashes
    /\ proc[p] # {}
    /\ proc' = [proc EXCEPT ![p] = {}]
    /\ sessions' = IF p = "relay" THEN {} ELSE sessions
    /\ client' = [c \in Clients |->
            IF client[c].pc = (CASE p = "relay" -> "running" [] p = "cookie" -> "rpc" [] OTHER -> "none")
            THEN [client[c] EXCEPT !.pc = "exit", !.err = "down", !.status = 1] ELSE client[c]]
    /\ crashes' = crashes + 1
    /\ UNCHANGED conf

\* A request is lost before its handler is called, or the reply of /cookie is.
Lose(c) ==
    /\ client[c].pc \in {"rpc", "proxy", "connect", "v4"}
    /\ Fail(c, "lost")
    /\ UNCHANGED <<conf, proc, sessions, crashes>>

\* SetDeadline and the goroutine in Manager.New.
Expire(c) ==
    /\ c \in sessions
    /\ sessions' = sessions \ {c}
    /\ UNCHANGED <<conf, proc, client, crashes>>

-----------------------------------------------------------------------------
Helper(h) == Authenticate(h) \/ ReadAnswer(h) \/ Proxy(h) \/ Connect(h) \/ ConnectV4(h)

Next ==
    \/ \E h \in Helpers : Helper(h) \/ RunEnds(h)
    \/ \E b \in Browsers : BrowserAsks(b) \/ OthersConnect(b)
    \/ \E c \in Clients : CookieReplies(c) \/ Lose(c) \/ Expire(c)
    \/ \E p \in Process : Start(p) \/ Crash(p)

Spec == Init /\ [][Next]_vars

(***************************************************************************)
(* Fairness: helpers run and the Cookie Server's handler goes on.  Nobody  *)
(* has to start a server, and sessions may run for ever.                   *)
(***************************************************************************)
FairSpec ==
    /\ Spec
    /\ \A h \in Helpers : WF_vars(Helper(h))
    /\ \A c \in Clients : WF_vars(CookieReplies(c))

-----------------------------------------------------------------------------
(***************************************************************************)
(* What the comments in the configuration messages ask of an operator.     *)
(***************************************************************************)

\* Two ends of a connection: TLS at both with the key pair that is "required
\* when TLS is enabled", or at neither.
TlsAgree(server, peer) ==
    /\ server.mode = "DISABLED" <=> peer.mode = "DISABLED"
    /\ server.mode # "DISABLED" =>
            \A m \in {server, peer} : ~m.nil /\ m.keyPair /\ m.cas /\ m.auth \in DOMAIN clientAuthMap

\* "If port is unspecified it defaults to 8022", at both ends.
SamePort(a, b) == a = b \/ {a, b} = {"", "8022"}

AsDocumented ==
    LET r == conf.relay  k == conf.cookie  b == conf.backend  h == conf.helper
        t == IF h.relayTransport.nil THEN h.transport ELSE h.relayTransport
    IN  /\ \A o \in {r.server, k.server} :
                ~o.nil /\ ~o.tls.nil /\ ~o.addrHasPort /\ \A d \in o.durations : d >= 0
        /\ r.maxAge >= 0 /\ k.maxAge >= 0
        /\ r.cookieName = k.cookieName /\ r.cookieName \in Tokens
        /\ h.version \in {"CORP_RELAY", "CORP_RELAY_V4"} \cap r.versions
        /\ h.host # "" /\ h.port # ""
        /\ h.addr.host = "cookie" /\ SamePort(h.addr.port, k.server.port)
        /\ b.relayAddr.host = "relay" /\ SamePort(b.relayAddr.port, r.server.port)
        /\ b.example /\ ~b.grpc.nil /\ k.grpc.addr = b.grpc.addr
        /\ TlsAgree(k.server.tls, h.transport.tls)
        /\ TlsAgree(b.grpc.tls, k.grpc.tls)
        /\ TlsAgree(r.server.tls, t.tls)
        /\ h.transport.timeout >= 0 /\ t.timeout >= 0

\* The relay's TLS insists on a certificate of the client.
WantsCert(m) ==
    /\ m.mode # "DISABLED"
    /\ m.auth \notin {"NO_CLIENT_CERT", "REQUEST_CLIENT_CERT", "VERIFY_CLIENT_CERT_IF_GIVEN"}

(***************************************************************************)
(* Safety.                                                                 *)
(***************************************************************************)

\* The helper has not failed, or for want of a server or a connection: without
\* the backend it gets an empty answer.
NotToBlame(h) ==
    \/ client[h].err \in {ErrNone} \cup ErrOut
    \/ client[h].err = "answer" /\ client[h].verdict = "refused"

\* With configurations that fit each other a helper fails only for reasons
\* outside of them, through /cookie, Authorize, the cookie, the default ports,
\* /proxy, /connect and CheckOrigin, whatever crashes and restarts in between.
DocumentedConnects ==
    AsDocumented /\ ~WantsCert(conf.relay.server.tls) => \A h \in Helpers : NotToBlame(h)

\* A session that came to run shows that relay and Cookie Server, configured in
\* two files, have the same cookie name, that the relay serves the version the
\* helper chose, and that it does not insist on client certificates.
RanMeansAgreed ==
    (\E h \in Helpers : client[h].ran) =>
        /\ conf.relay.cookieName = conf.cookie.cookieName
        /\ (IF conf.helper.version = "CORP_RELAY" THEN "CORP_RELAY" ELSE "CORP_RELAY_V4") \in conf.relay.versions
        /\ ~WantsCert(conf.relay.server.tls)

\* A client that is sent on comes to the relay with the origin it asked as
\* exactly when the two files give the cookie one name that net/http takes; else
\* the Cookie Server sends it on all the same, without a cookie that the relay
\* finds.  A client that is not sent on gets no cookie.
CookieWithEndpoint ==
    \A c \in Clients :
        LET w == client[c].answer
        IN  /\ w.to = Nowhere => w.cookies = {}
            /\ w.to # Nowhere =>
                    Origin(w, conf.relay.cookieName) =
                        IF conf.relay.cookieName = conf.cookie.cookieName /\ conf.cookie.cookieName \in Tokens
                        THEN {ExtOrigin(r.ext) : r \in client[c].req} ELSE {}

\* "Version 1 clients only support HTTP redirection", and version 2 must not use
\* it: for every query, whose version may be too large for an int32, and with a
\* backend that answers in the method it was asked for.
AnswerFits ==
    \A c \in Clients : \A r \in client[c].req :
        /\ r.version = 1 <=> r.method = "HTTP_REDIRECT"
        /\ conf.backend.example /\ client[c].answer.cookies # {} =>
                client[c].answer.body = CASE r.method = "HTTP_REDIRECT" -> "text"
                                          [] r.method = "DIRECT" -> "json"
                                          [] OTHER -> "page"

\* A helper has a session at the relay only if the backend has authorized it,
\* although the relay never talks to the backend: it has no cookie from
\* elsewhere.  Of other clients nothing is said, since request.Origin takes any
\* cookie with "://".
SessionWasAuthorized ==
    \A h \in Helpers : h \in sessions \/ client[h].ran => client[h].verdict = "granted"

\* An exit status of 0 means that a session ran, or that a connection to the
\* relay was lost while it was set up; a failed authentication never looks like
\* a session that ended.
ZeroMeansRan ==
    \A h \in Helpers : client[h].status = 0 =>
        client[h].ran \/ (client[h].err = "lost" /\ client[h].verdict = "granted")

(***************************************************************************)
(* Liveness, under FairSpec.                                               *)
(***************************************************************************)

\* Every helper comes to run a session or to exit: no crash, lost reply or
\* backend that is away leaves it waiting.
HelperSettles == \A h \in Helpers : <>(client[h].pc \in {"absent", "running", "exit"})

(***************************************************************************)
(* What the documentation says and the code does not do.                   *)
(***************************************************************************)

\* tls.proto: client_auth_type "should not need to be specified in most cases";
\* config.proto: ssh_relay_transport has "the transport settings for talking to
\* an SSH Relay".  The Dialer of the WebSocket leaves out its key pair.
DefaultAuthConnects ==
    AsDocumented => \A h \in Helpers : NotToBlame(h)
=============================================================================
