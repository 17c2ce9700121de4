------------------------- MODULE Deployment_proofs -------------------------
(***************************************************************************)
(* Proofs about Deployment, for every set of configuration messages, every *)
(* query and any number of clients and crashes.                            *)
(*                                                                         *)
(* Nothing a client has gone through depends on which processes run at the *)
(* moment: what a server runs with is a function of its messages           *)
(* (RelayIs, CookieIs, BackendIs), so a server that has crashed and come   *)
(* back is the one the client had spoken to.  ClientInv is therefore about *)
(* one client and the messages.                                            *)
(***************************************************************************)
EXTENDS Deployment, FiniteSetTheorems, TLAPS

Pc       == {"absent", "start", "rpc", "answered", "proxy", "connect", "v4", "running", "exit"}
Errors   == {ErrNone} \cup ErrOut \cup ErrConf
Exts     == {authURL.ext} \cup {q.ext : q \in Queries}
Cookies  == [name : STRING, value : {ExtOrigin(x) : x \in Exts}]
Answers  == [code : Int, cookies : SUBSET Cookies, body : {"none", "text", "json", "page"}, to : {Nowhere} \cup Address,
             link : {"none", "extension", "uri"}]
Requests == [ext : Exts, version : 0..(VersionMod - 1), method : Method]
Client   == [pc : Pc, req : SUBSET Requests, answer : Answers, verdict : {"none", "refused", "granted"},
             ran : BOOLEAN, err : Errors, status : {-1, 0, 1}]

\* The variables have their types, and a process runs with what its main
\* function makes of its messages.
Shape ==
    /\ conf \in Deployments
    /\ DOMAIN proc = Process
    /\ proc = [p \in Process |-> proc[p]]
    /\ \A p \in Process : proc[p] = {} \/ proc[p] = Main(p)
    /\ sessions \subseteq Clients
    /\ client \in [Clients -> Client]
    /\ crashes \in 0..MaxCrashes

\* The port of a message, or the default.
PortOf(p) == IF p = "" THEN "8022" ELSE p

\* A server that is asked for method m answers in it.
BodyFor(m) == CASE m = "HTTP_REDIRECT" -> "text" [] m = "DIRECT" -> "json" [] OTHER -> "page"

\* The client has asked /cookie, once.
Requested(c) ==
    /\ client[c].pc \in {"absent", "start"} => client[c].req = {}
    /\ client[c].pc \in {"absent", "start", "rpc"} => client[c].answer = Unwritten
    /\ \A r, s \in client[c].req : r = s
    /\ \A r \in client[c].req : r.version = 1 <=> r.method = "HTTP_REDIRECT"
    /\ c \in Helpers /\ client[c].pc \notin {"absent", "start", "exit"} =>
            buildConfig(conf.helper) # {} /\ client[c].req \subseteq New(authURL)

\* What http.SetCookie lets through of the cookie for request r.
CookiesFor(r) ==
    IF conf.cookie.cookieName \in Tokens
    THEN {[name |-> conf.cookie.cookieName, value |-> ExtOrigin(r.ext)]} ELSE {}

\* The endpoint of an answer is that of the messages, comes with what there is
\* of the cookie, and only with the backend's consent.
Answered(c) ==
    LET w == client[c].answer
    IN  /\ w.to = Nowhere => w.cookies = {} /\ w.body # "json"
        /\ w.to # Nowhere =>
            /\ client[c].verdict = "granted"
            /\ w.to = conf.backend.relayAddr
            /\ \E r \in client[c].req : w.cookies = CookiesFor(r)
            /\ conf.backend.example => \A r \in client[c].req : w.body = BodyFor(r.method)

\* What a client has come to and how it ended.
Progress(c) ==
    /\ client[c].pc \in {"absent", "start", "rpc", "answered"} => ~client[c].ran /\ c \notin sessions \cap Helpers
    /\ client[c].pc \in {"proxy", "connect", "v4"} => ~client[c].ran /\ client[c].answer.to # Nowhere
    /\ client[c].pc = "running" => client[c].ran
    /\ client[c].pc # "exit" => client[c].err = ErrNone /\ client[c].status = -1
    /\ client[c].ran \/ c \in sessions \cap Helpers => client[c].verdict = "granted"
    /\ client[c].status = 0 =>
            client[c].ran \/ (client[c].err = "lost" /\ client[c].verdict = "granted")

\* What RanMeansAgreed says of the messages.
Agreed ==
    /\ conf.relay.cookieName = conf.cookie.cookieName
    /\ (IF conf.helper.version = "CORP_RELAY" THEN "CORP_RELAY" ELSE "CORP_RELAY_V4") \in conf.relay.versions
    /\ ~WantsCert(conf.relay.server.tls)

\* The helper speaks the version of its message.
Chosen(c) ==
    /\ client[c].pc \in {"proxy", "connect"} => conf.helper.version = "CORP_RELAY"
    /\ client[c].pc = "v4" => conf.helper.version \in {"CORP_RELAY_V4", "UNSPECIFIED"}
    /\ client[c].ran => Agreed

\* The messages fit each other, and the relay does not insist on certificates.
Fits == AsDocumented /\ ~WantsCert(conf.relay.server.tls)

\* A helper whose messages fit is answered with an endpoint or refused.
Expected(c) ==
    c \in Helpers /\ Fits =>
        /\ NotToBlame(c)
        /\ client[c].pc = "answered" => client[c].verdict = "refused" \/ client[c].answer.to # Nowhere

ClientInv(c) == Requested(c) /\ Answered(c) /\ Progress(c) /\ Chosen(c) /\ Expected(c)

Inv == Shape /\ \A c \in Clients : ClientInv(c)

-----------------------------------------------------------------------------
(***************************************************************************)
(* What the functions of packages tls, http and duration return.           *)
(***************************************************************************)

\* A nil *tls.Config is one side's settings, too.
LEMMA PlainFacts == Plain \in Settings
<1>1. "NO_CLIENT_CERT" \in DOMAIN clientAuthMap /\ clientAuthMap["NO_CLIENT_CERT"] = "NoClientCert"
  BY DEF clientAuthMap
<1>2. "NoClientCert" \in {clientAuthMap[t] : t \in DOMAIN clientAuthMap} BY <1>1
<1> QED BY <1>2 DEF Plain, Settings

\* tls.Config returns one configuration at most, never with a key pair, and
\* with the type of authentication the message asks for.
LEMMA ConfigFacts ==
    ASSUME NEW m \in TlsConfig, NEW s \in Config(m)
    PROVE  /\ s \in Settings /\ Config(m) = {s} /\ s.cert = FALSE
           /\ m.mode = "DISABLED" => s = Plain
           /\ m.mode # "DISABLED" =>
                s.on = TRUE /\ m.auth \in DOMAIN clientAuthMap /\ s.auth = clientAuthMap[m.auth]
<1>1. CASE m.mode = "DISABLED"
  <2>1. Config(m) = {Plain} /\ s = Plain BY <1>1 DEF Config
  <2>2. Plain.cert = FALSE BY DEF Plain
  <2> QED BY <1>1, <2>1, <2>2, PlainFacts
<1>2. CASE m.mode # "DISABLED"
  <2>1. PICK a \in ClientAuthType(m.auth) : s = [on |-> TRUE, auth |-> a, cert |-> FALSE] /\ loadCerts(m)
    BY <1>2 DEF Config
  <2>2. m.auth \in DOMAIN clientAuthMap /\ a = clientAuthMap[m.auth] /\ ClientAuthType(m.auth) = {a}
    BY DEF ClientAuthType
  <2>3. Config(m) \subseteq {s} BY <1>2, <2>1, <2>2 DEF Config
  <2>4. s \in Settings BY <2>1, <2>2 DEF Settings
  <2> QED BY <1>2, <2>1, <2>2, <2>3, <2>4
<1> QED BY <1>1, <1>2

\* TransportCreds does, with the key pair.
LEMMA CredsFacts ==
    ASSUME NEW m \in TlsConfig, NEW s \in TransportCreds(m)
    PROVE  s \in Settings /\ TransportCreds(m) = {s}
<1>1. CASE m.mode = "DISABLED" BY <1>1, PlainFacts DEF TransportCreds
<1>2. CASE m.mode # "DISABLED"
  <2>1. s \in CertConfig(m) /\ TransportCreds(m) = CertConfig(m) BY <1>2 DEF TransportCreds
  <2>2. PICK c \in Config(m) : m.keyPair /\ s = [c EXCEPT !.cert = TRUE] BY <2>1 DEF CertConfig
  <2>3. c \in Settings /\ Config(m) = {c} BY ConfigFacts
  <2>4. CertConfig(m) = {[c EXCEPT !.cert = TRUE]} BY <2>2, <2>3 DEF CertConfig
  <2> QED BY <2>1, <2>2, <2>3, <2>4 DEF Settings
<1> QED BY <1>1, <1>2

\* NewServer keeps the port, which is not empty, and the settings.
LEMMA NewServerFacts ==
    ASSUME NEW o, o.tls \in TlsConfig, NEW s \in NewServer(o)
    PROVE  s.port = o.port /\ s.tls \in Config(o.tls) /\ NewServer(o) = {s} /\ ~o.tls.nil
<1>1. PICK c \in Config(o.tls) : s = [port |-> o.port, tls |-> c] /\ ~o.tls.nil BY DEF NewServer
<1>2. Config(o.tls) = {c} BY ConfigFacts
<1>3. NewServer(o) \subseteq {[port |-> o.port, tls |-> c]} BY <1>2 DEF NewServer
<1> QED BY <1>1, <1>3

\* The port of a listener is the configured one or 8022.
LEMMA WithPortFacts ==
    ASSUME NEW o \in HttpServerOptions
    PROVE  WithPort(o).port = PortOf(o.port) /\ WithPort(o).tls = o.tls /\ o.tls \in TlsConfig
<1>1. WithPort(o) = [o EXCEPT !.port = PortOf(o.port)] BY DEF WithPort, PortOf
<1> QED BY <1>1 DEF HttpServerOptions

(***************************************************************************)
(* What each server runs with, from its messages alone.                    *)
(***************************************************************************)

\* main of the SSH Relay.
LEMMA RelayIs ==
    ASSUME NEW m \in RelayConfig, NEW s \in relayMain(m)
    PROVE  /\ relayMain(m) = {s}
           /\ s.tls \in Settings /\ s.tls \in Config(m.server.tls) /\ m.server.tls \in TlsConfig
           /\ s.port = PortOf(m.server.port)
           /\ s.paths = Paths(m.versions)
           /\ s.cookieName = m.cookieName
<1> DEFINE d == [m EXCEPT !.server = WithPort(m.server)]
<1>1. relayLoadConfig(m) = {d} \/ relayLoadConfig(m) = {} BY DEF relayLoadConfig
<1>2. relayLoadConfig(m) = {d} BY <1>1 DEF relayMain
<1>3. m.server \in HttpServerOptions BY DEF RelayConfig
<1>4. /\ d.server = WithPort(m.server) /\ d.versions = m.versions /\ d.cookieName = m.cookieName
      /\ d.maxAge = m.maxAge /\ d.maxSessions = m.maxSessions
  BY DEF RelayConfig
<1>5. \A t \in relayMain(m) : \E x \in NewServer(d.server) :
        t = [port |-> x.port, tls |-> x.tls, paths |-> Paths(d.versions), cookieName |-> d.cookieName,
             maxSessions |-> d.maxSessions]
  <2> TAKE t \in relayMain(m)
  <2>1. PICK e \in relayLoadConfig(m) : \E x \in NewServer(e.server) :
            t = [port |-> x.port, tls |-> x.tls, paths |-> Paths(e.versions), cookieName |-> e.cookieName,
                 maxSessions |-> e.maxSessions]
    BY DEF relayMain
  <2>2. e = d BY <1>2
  <2> QED BY <2>1, <2>2
<1> HIDE DEF d
<1>6. PICK x \in NewServer(d.server) :
        s = [port |-> x.port, tls |-> x.tls, paths |-> Paths(d.versions), cookieName |-> d.cookieName,
             maxSessions |-> d.maxSessions]
  BY <1>5
<1>7. /\ x.port = d.server.port /\ x.tls \in Config(d.server.tls) /\ NewServer(d.server) = {x}
  BY <1>3, <1>4, NewServerFacts, WithPortFacts
<1>8. relayMain(m) = {s} BY <1>5, <1>6, <1>7
<1>9. d.server.tls = m.server.tls /\ d.server.port = PortOf(m.server.port) BY <1>3, <1>4, WithPortFacts
<1>10. m.server.tls \in TlsConfig BY <1>3 DEF HttpServerOptions
<1>11. s.tls \in Settings BY <1>6, <1>7, <1>9, <1>10, ConfigFacts
<1> QED BY <1>4, <1>6, <1>7, <1>8, <1>9, <1>10, <1>11

\* main of the Cookie Server.
LEMMA CookieIs ==
    ASSUME NEW m \in CookieConfig, NEW s \in cookieMain(m)
    PROVE  /\ cookieMain(m) = {s}
           /\ s.tls \in Settings /\ s.tls \in Config(m.server.tls) /\ m.server.tls \in TlsConfig
           /\ s.port = PortOf(m.server.port)
           /\ s.paths = {"/cookie"}
           /\ s.cookieName = m.cookieName /\ s.cookieName \in STRING
           /\ s.maxAge = m.maxAge
           /\ s.backend = m.grpc.addr
<1> DEFINE d == [m EXCEPT !.server = WithPort(m.server)]
           Made(e, x, k) == [port |-> x.port, tls |-> x.tls, paths |-> {"/cookie"}, cookieName |-> e.cookieName,
                             maxAge |-> e.maxAge, backend |-> e.grpc.addr, creds |-> k]
<1>1. cookieLoadConfig(m) = {d} \/ cookieLoadConfig(m) = {} BY DEF cookieLoadConfig
<1>2. cookieLoadConfig(m) = {d} BY <1>1 DEF cookieMain
<1>3. m.server \in HttpServerOptions /\ m.grpc.tls \in TlsConfig /\ m.cookieName \in STRING BY DEF CookieConfig
<1>4. /\ d.server = WithPort(m.server) /\ d.grpc = m.grpc /\ d.cookieName = m.cookieName
      /\ d.maxAge = m.maxAge
  BY DEF CookieConfig
<1>5. \A t \in cookieMain(m) : \E x \in NewServer(d.server), k \in TransportCreds(d.grpc.tls) : t = Made(d, x, k)
  <2> TAKE t \in cookieMain(m)
  <2>1. PICK e \in cookieLoadConfig(m) :
            \E x \in NewServer(e.server), k \in TransportCreds(e.grpc.tls) : t = Made(e, x, k)
    BY DEF cookieMain
  <2>2. e = d BY <1>2
  <2> QED BY <2>1, <2>2
<1> HIDE DEF d
<1>6. PICK x \in NewServer(d.server), k \in TransportCreds(d.grpc.tls) : s = Made(d, x, k)
  BY <1>5
<1>7. /\ x.port = d.server.port /\ x.tls \in Config(d.server.tls) /\ NewServer(d.server) = {x}
  BY <1>3, <1>4, NewServerFacts, WithPortFacts
<1>8. TransportCreds(d.grpc.tls) = {k} BY <1>3, <1>4, CredsFacts
<1>9. cookieMain(m) = {s} BY <1>5, <1>6, <1>7, <1>8
<1>10. d.server.tls = m.server.tls /\ d.server.port = PortOf(m.server.port) BY <1>3, <1>4, WithPortFacts
<1>11. m.server.tls \in TlsConfig BY <1>3 DEF HttpServerOptions
<1>12. s.tls \in Settings BY <1>6, <1>7, <1>10, <1>11, ConfigFacts
<1> QED BY <1>3, <1>4, <1>6, <1>7, <1>9, <1>10, <1>11, <1>12

\* main of the backend, which has a relay to name.
LEMMA BackendIs ==
    ASSUME NEW m \in BackendConfig, NEW s \in backendMain(m)
    PROVE  /\ backendMain(m) = {s}
           /\ s.tls \in Settings
           /\ s.paths = {}
           /\ s.relayAddr = m.relayAddr /\ m.relayAddr # Nowhere /\ m.relayAddr \in Address
           /\ s.example = m.example
<1>1. m.grpc.tls \in TlsConfig /\ m.relayAddr \in Address BY DEF BackendConfig
<1>2. PICK k \in TransportCreds(m.grpc.tls) :
        /\ s = [port |-> m.grpc.addr.port, tls |-> k, paths |-> {}, example |-> m.example, relayAddr |-> m.relayAddr]
        /\ m.relayAddr # Nowhere
  BY DEF backendMain
<1>3. TransportCreds(m.grpc.tls) = {k} /\ k \in Settings BY <1>1, CredsFacts
<1>4. backendMain(m) = {s} BY <1>2, <1>3 DEF backendMain
<1> QED BY <1>1, <1>2, <1>3, <1>4

-----------------------------------------------------------------------------
(***************************************************************************)
(* The messages of a state.                                                *)
(***************************************************************************)

\* The parts of a deployment.
LEMMA ConfFacts ==
    ASSUME conf \in Deployments
    PROVE  /\ conf.clients \subseteq Clients
           /\ conf.relay \in RelayConfig /\ conf.cookie \in CookieConfig
           /\ conf.backend \in BackendConfig /\ conf.helper \in HelperConfig
  BY MessageAssumption

\* What the servers that run, run with.
LEMMA ProcFacts ==
    ASSUME Shape
    PROVE  /\ \A s \in proc["relay"] :
                /\ proc["relay"] = {s}
                /\ s.tls \in Config(conf.relay.server.tls) /\ conf.relay.server.tls \in TlsConfig
                /\ s.port = PortOf(conf.relay.server.port)
                /\ s.paths = Paths(conf.relay.versions)
                /\ s.cookieName = conf.relay.cookieName
           /\ \A s \in proc["cookie"] :
                /\ proc["cookie"] = {s}
                /\ s.tls \in Config(conf.cookie.server.tls) /\ conf.cookie.server.tls \in TlsConfig
                /\ s.port = PortOf(conf.cookie.server.port)
                /\ s.paths = {"/cookie"}
                /\ s.cookieName = conf.cookie.cookieName /\ s.cookieName \in STRING
                /\ s.maxAge = conf.cookie.maxAge
           /\ \A s \in proc["backend"] :
                /\ proc["backend"] = {s}
                /\ s.paths = {}
                /\ s.relayAddr = conf.backend.relayAddr
                /\ conf.backend.relayAddr # Nowhere /\ conf.backend.relayAddr \in Address
                /\ s.example = conf.backend.example
           /\ \A p \in Process : \A s \in proc[p] : proc[p] = {s} /\ s.tls \in Settings
<1>1. \A p \in Process : proc[p] # {} => proc[p] = Main(p) BY DEF Shape
<1>2. ASSUME NEW s \in proc["relay"] PROVE s \in relayMain(conf.relay) /\ proc["relay"] = relayMain(conf.relay)
  BY <1>1, <1>2 DEF Process, Main
<1>3. ASSUME NEW s \in proc["cookie"] PROVE s \in cookieMain(conf.cookie) /\ proc["cookie"] = cookieMain(conf.cookie)
  BY <1>1, <1>3 DEF Process, Main
<1>4. ASSUME NEW s \in proc["backend"]
      PROVE  s \in backendMain(conf.backend) /\ proc["backend"] = backendMain(conf.backend)
  BY <1>1, <1>4 DEF Process, Main
<1>5. conf.relay \in RelayConfig /\ conf.cookie \in CookieConfig /\ conf.backend \in BackendConfig
  BY ConfFacts DEF Shape
<1>6. \A s \in proc["relay"] :
        /\ proc["relay"] = {s}
        /\ s.tls \in Settings /\ s.tls \in Config(conf.relay.server.tls) /\ conf.relay.server.tls \in TlsConfig
        /\ s.port = PortOf(conf.relay.server.port)
        /\ s.paths = Paths(conf.relay.versions)
        /\ s.cookieName = conf.relay.cookieName
  BY <1>2, <1>5, RelayIs
<1>7. \A s \in proc["cookie"] :
        /\ proc["cookie"] = {s}
        /\ s.tls \in Settings /\ s.tls \in Config(conf.cookie.server.tls) /\ conf.cookie.server.tls \in TlsConfig
        /\ s.port = PortOf(conf.cookie.server.port)
        /\ s.paths = {"/cookie"}
        /\ s.cookieName = conf.cookie.cookieName /\ s.cookieName \in STRING
        /\ s.maxAge = conf.cookie.maxAge
  BY <1>3, <1>5, CookieIs
<1>8. \A s \in proc["backend"] :
        /\ proc["backend"] = {s}
        /\ s.tls \in Settings
        /\ s.paths = {}
        /\ s.relayAddr = conf.backend.relayAddr
        /\ conf.backend.relayAddr # Nowhere /\ conf.backend.relayAddr \in Address
        /\ s.example = conf.backend.example
  BY <1>4, <1>5, BackendIs
<1>9. \A p \in Process : \A s \in proc[p] : proc[p] = {s} /\ s.tls \in Settings BY <1>6, <1>7, <1>8 DEF Process
<1> QED BY <1>6, <1>7, <1>8, <1>9

\* The helper runs with its message, its ports and its transport filled in.
LEMMA CfgFacts ==
    ASSUME conf \in Deployments, buildConfig(conf.helper) # {}
    PROVE  /\ cfg.host = conf.helper.host /\ cfg.port = conf.helper.port
           /\ cfg.version = conf.helper.version
           /\ cfg.transport = conf.helper.transport
           /\ cfg.addr = AddDefaultPort(conf.helper.addr)
           /\ cfg.relayTransport =
                IF conf.helper.relayTransport.nil THEN conf.helper.transport ELSE conf.helper.relayTransport
           /\ cfg.transport \in HttpTransport /\ cfg.relayTransport \in HttpTransport
<1> DEFINE m == conf.helper
           d == [m EXCEPT !.addr = AddDefaultPort(m.addr),
                          !.relayTransport = IF m.relayTransport.nil THEN m.transport ELSE m.relayTransport]
<1>1. m \in HelperConfig BY ConfFacts
<1>2. buildConfig(m) = {d} BY DEF buildConfig
<1>3. cfg = d BY <1>2 DEF cfg
<1>4. /\ d.host = m.host /\ d.port = m.port /\ d.version = m.version /\ d.transport = m.transport
      /\ d.addr = AddDefaultPort(m.addr)
      /\ d.relayTransport = IF m.relayTransport.nil THEN m.transport ELSE m.relayTransport
  BY <1>1 DEF HelperConfig
<1>5. m.transport \in HttpTransport /\ m.relayTransport \in HttpTransport BY <1>1 DEF HelperConfig
<1> HIDE DEF d
<1> QED BY <1>3, <1>4, <1>5

\* An address keeps its host and gets a port.
LEMMA AddressFacts ==
    ASSUME NEW a \in Address
    PROVE  AddDefaultPort(a).host = a.host /\ AddDefaultPort(a).port = PortOf(a.port)
  BY DEF Address, AddDefaultPort, PortOf

(***************************************************************************)
(* /cookie.                                                                *)
(***************************************************************************)

\* cookie.New: a version that is 1 as an int32 was 1 in the query, too, if it
\* came without a method, and is refused with one.
LEMMA NewFacts ==
    ASSUME NEW q, q.version \in Int, q.ext \in Exts, NEW r \in New(q)
    PROVE  /\ r \in Requests /\ New(q) = {r} /\ r.ext = q.ext
           /\ r.version = 1 <=> r.method = "HTTP_REDIRECT"
<1> DEFINE n == IF q.version = Absent THEN 1 ELSE q.version
           v == Int32(n)
           m == IF q.method = "" THEN "HTTP_REDIRECT" ELSE redirectionMethodMap[q.method]
           bad == \/ q.ext = "" \/ q.path = "" \/ n < 1
                  \/ n >= 2 /\ q.method = ""
                  \/ q.method # "" /\ (v = 1 \/ q.method \notin DOMAIN redirectionMethodMap)
<1>1. New(q) = IF bad THEN {} ELSE {[ext |-> q.ext, version |-> v, method |-> m]} BY Zenon DEF New
<1>2. ~bad /\ r = [ext |-> q.ext, version |-> v, method |-> m] BY <1>1
<1>3. n \in Int BY DEF Absent
<1>4. v \in 0..(VersionMod - 1) BY <1>3, VersionModAssumption DEF Int32
<1>5. /\ m \in Method
      /\ v = 1 <=> m = "HTTP_REDIRECT"
  <2>1. CASE q.method = ""
    <3>1. n = 1
      <4>1. ~(n < 1) /\ ~(n >= 2) BY <1>2, <2>1
      <4> HIDE DEF n
      <4> QED BY <1>3, <4>1
    <3>2. v = 1 BY <3>1, VersionModAssumption DEF Int32
    <3> QED BY <2>1, <3>2 DEF Method
  <2>2. CASE q.method # ""
    <3>1. v # 1 /\ q.method \in DOMAIN redirectionMethodMap BY <1>2, <2>2
    <3>2. m \in {"DIRECT", "JS_REDIRECT"} BY <2>2, <3>1 DEF redirectionMethodMap
    <3> QED BY <3>1, <3>2 DEF Method
  <2> QED BY <2>1, <2>2
<1> HIDE DEF n, m, v, bad
<1>6. New(q) = {r} BY <1>1, <1>2
<1> QED BY <1>2, <1>4, <1>5, <1>6 DEF Requests

\* The helper's own query is accepted, for a direct answer.
LEMMA AuthURLFacts ==
    /\ authURL.version \in Int /\ authURL.ext \in Exts
    /\ New(authURL) = {[ext |-> "sshRelayHelper", version |-> 2, method |-> "DIRECT"]}
<1>1. 2 % VersionMod = 2 BY VersionModAssumption
<1>2. redirectionMethodMap["direct"] = "DIRECT" /\ "direct" \in DOMAIN redirectionMethodMap BY DEF redirectionMethodMap
<1> QED BY <1>1, <1>2 DEF authURL, Exts, New, Int32, Absent

\* What Authorize returns: an error, or the relay of the backend's message; the
\* example answers in the method it was asked for.
LEMMA AuthorizeFacts ==
    ASSUME Shape, NEW cs, NEW r \in Requests, NEW a \in Authorize(cs, r)
    PROVE  \/ a = RpcError
           \/ /\ a.err = FALSE /\ a.denied \in BOOLEAN /\ a.redirect \in {"none", "uri", "endpoint"}
              /\ a.method \in Method
              /\ a.to = conf.backend.relayAddr /\ a.to # Nowhere /\ a.to \in Address
              /\ conf.backend.example => a.denied = FALSE /\ a.redirect = "endpoint" /\ a.method = r.method
<1>1. CASE a = RpcError BY <1>1
<1>2. CASE a # RpcError
  <2>1. PICK b \in proc["backend"] :
            a \in IF b.example
                  THEN {[err |-> FALSE, denied |-> FALSE, redirect |-> "endpoint", to |-> b.relayAddr,
                         method |-> r.method]}
                  ELSE {RpcError} \cup [err : {FALSE}, denied : BOOLEAN, redirect : {"none", "uri", "endpoint"},
                                        to : {b.relayAddr}, method : Method]
    BY <1>2 DEF Authorize
  <2>2. /\ b.relayAddr = conf.backend.relayAddr /\ b.example = conf.backend.example
        /\ conf.backend.relayAddr # Nowhere /\ conf.backend.relayAddr \in Address
    BY ProcFacts
  <2>3. CASE b.example
    <3>1. a = [err |-> FALSE, denied |-> FALSE, redirect |-> "endpoint", to |-> b.relayAddr, method |-> r.method]
      BY <2>1, <2>3
    <3> QED BY <2>2, <2>3, <3>1 DEF Requests
  <2>4. CASE ~b.example
    <3>1. a \in [err : {FALSE}, denied : BOOLEAN, redirect : {"none", "uri", "endpoint"}, to : {b.relayAddr},
                 method : Method]
      BY <1>2, <2>1, <2>4
    <3> QED BY <2>2, <2>4, <3>1
  <2> QED BY <2>3, <2>4
<1> QED BY <1>1, <1>2

\* What is written when nothing is to be said.
LEMMA EmptyAnswers ==
    /\ Unwritten \in Answers /\ BadRequest \in Answers /\ NotFound \in Answers
    /\ \A w \in {Unwritten, BadRequest, NotFound} : w.cookies = {} /\ w.to = Nowhere /\ w.body # "json"
<1>1. Unwritten \in Answers /\ Unwritten.cookies = {} /\ Unwritten.to = Nowhere /\ Unwritten.body # "json"
  BY DEF Unwritten, Answers
<1>2. BadRequest \in Answers /\ BadRequest.body = "text" /\ BadRequest.cookies = {} /\ BadRequest.to = Nowhere
  BY DEF BadRequest, Answers
<1>3. NotFound \in Answers /\ NotFound.body = "text" /\ NotFound.cookies = {} /\ NotFound.to = Nowhere
  BY DEF NotFound, Answers
<1> QED BY <1>1, <1>2, <1>3

\* The cookies go into the header of an answer that nothing was written to, and
\* stay there when it is.
LEMMA WriteFacts ==
    ASSUME Shape, NEW cs \in proc["cookie"], NEW r \in Requests, NEW code \in Int,
           NEW body \in {"text", "json", "page"}, NEW to \in Address, NEW link \in {"none", "extension", "uri"}
    PROVE  LET w == Write(setCookies(Unwritten, cs, r), code, body, to, link)
           IN  w \in Answers /\ w.cookies = CookiesFor(r) /\ w.to = to /\ w.body = body
<1> DEFINE k == [name |-> conf.cookie.cookieName, value |-> ExtOrigin(r.ext)]
           v == setCookies(Unwritten, cs, r)
<1>1. cs.cookieName = conf.cookie.cookieName /\ k \in Cookies BY ProcFacts DEF Cookies, Requests
<1>2. k.name = conf.cookie.cookieName OBVIOUS
<1>3. v = IF conf.cookie.cookieName \in Tokens THEN [Unwritten EXCEPT !.cookies = @ \cup {k}] ELSE Unwritten
  BY <1>1, <1>2 DEF setCookies, SetCookie, Unwritten
<1>4. {k} \in SUBSET Cookies /\ {k} = {} \cup {k} BY <1>1
<1> HIDE DEF k
<1>5. v = [code |-> 200, cookies |-> IF conf.cookie.cookieName \in Tokens THEN {k} ELSE {}, body |-> "none",
           to |-> Nowhere, link |-> "none"]
  BY <1>3, <1>4 DEF Unwritten
<1>6. (IF conf.cookie.cookieName \in Tokens THEN {k} ELSE {}) = CookiesFor(r) BY DEF CookiesFor, k
<1>7. CookiesFor(r) \in SUBSET Cookies BY <1>4, <1>6
<1>8. v \in Answers /\ v.cookies = CookiesFor(r) BY <1>5, <1>6, <1>7 DEF Answers
<1> HIDE DEF v
<1> DEFINE w == [v EXCEPT !.code = code, !.body = body, !.to = to, !.link = link]
<1>9. w \in Answers BY <1>8 DEF Answers
<1>10. w.cookies = v.cookies /\ w.to = to /\ w.body = body BY <1>8 DEF Answers
<1> QED BY <1>8, <1>9, <1>10 DEF Write, v

\* Handle writes nothing, or an endpoint with its cookie, when the backend
\* agrees, in the backend's method.
LEMMA HandleFacts ==
    ASSUME Shape, NEW cs \in proc["cookie"], NEW r \in Requests, NEW a \in Authorize(cs, r)
    PROVE  LET w == Handle(cs, r, a)
           IN  /\ w \in Answers
               /\ \/ w = Unwritten
                  \/ /\ Authorized(a)
                     /\ w.cookies = CookiesFor(r)
                     /\ w.to = conf.backend.relayAddr /\ w.to # Nowhere
                     /\ conf.backend.example => w.body = BodyFor(r.method)
               /\ conf.backend.example /\ Authorized(a) /\ r.method # "UNSPECIFIED" => w.to # Nowhere
<1> DEFINE w == Handle(cs, r, a)
<1>0. Authorized(a) =>
        /\ a.redirect \in {"none", "uri", "endpoint"} /\ a.method \in Method
        /\ a.to = conf.backend.relayAddr /\ a.to # Nowhere /\ a.to \in Address
        /\ conf.backend.example => a.redirect = "endpoint" /\ a.method = r.method
  <2>1. a = RpcError => ~Authorized(a) BY DEF RpcError, Authorized
  <2> QED BY <2>1, AuthorizeFacts
<1>1. CASE ~(Authorized(a) /\ a.redirect # "none")
  <2>1. w = Unwritten BY <1>1 DEF Handle
  <2>2. ~(conf.backend.example /\ Authorized(a)) BY <1>0, <1>1
  <2> QED BY <2>1, <2>2, EmptyAnswers
<1>2. CASE Authorized(a) /\ a.redirect # "none"
  <2>1. /\ a.method \in Method /\ a.to = conf.backend.relayAddr /\ a.to # Nowhere /\ a.to \in Address
        /\ conf.backend.example => a.method = r.method
    BY <1>0, <1>2
  <2>2. w = Redirect(cs, r, a) BY <1>2 DEF Handle
  <2>4. CASE a.method = "UNSPECIFIED"
    <3>1. w = Unwritten BY <2>2, <2>4 DEF Redirect
    <3> QED BY <2>1, <2>4, <3>1, EmptyAnswers
  <2>5. CASE a.method # "UNSPECIFIED"
    <3> DEFINE Right(z, body) == z \in Answers /\ z.cookies = CookiesFor(r) /\ z.to = a.to /\ z.body = body
    <3> DEFINE Put(code, body, link) == Write(setCookies(Unwritten, cs, r), code, body, a.to, link)
    <3>0. ASSUME NEW code \in Int, NEW body \in {"text", "json", "page"}, NEW link \in {"none", "extension", "uri"}
          PROVE  Right(Put(code, body, link), body)
      BY <2>1, WriteFacts
    <3> HIDE DEF Right
    <3>1. Right(redirectHTTP(cs, r, a), "text")
      <4>1. (IF a.redirect = "endpoint" THEN "extension" ELSE "uri") \in {"none", "extension", "uri"} OBVIOUS
      <4>2. Right(Put(303, "text", IF a.redirect = "endpoint" THEN "extension" ELSE "uri"), "text") BY <3>0, <4>1
      <4> QED BY <4>2 DEF redirectHTTP
    <3>2. Right(redirectXSSI(cs, r, a), "json")
      <4>1. Right(Put(200, "json", "none"), "json") BY <3>0
      <4> QED BY <4>1 DEF redirectXSSI
    <3>3. Right(redirectJS(cs, r, a), "page")
      <4>1. Right(Put(200, "page", "extension"), "page") BY <3>0
      <4> QED BY <4>1 DEF redirectJS
    <3>4. Right(w, BodyFor(a.method))
      <4>1. CASE a.method = "HTTP_REDIRECT" BY <2>2, <3>1, <4>1 DEF Redirect, BodyFor
      <4>2. CASE a.method = "DIRECT" BY <2>2, <3>2, <4>2 DEF Redirect, BodyFor
      <4>3. CASE a.method = "JS_REDIRECT" BY <2>2, <3>3, <4>3 DEF Redirect, BodyFor
      <4> QED BY <2>1, <2>5, <4>1, <4>2, <4>3 DEF Method
    <3> QED BY <1>2, <2>1, <3>4 DEF Right
  <2> QED BY <2>4, <2>5
<1> QED BY <1>1, <1>2

(***************************************************************************)
(* Requests to the relay.                                                  *)
(***************************************************************************)

\* When a connection can be had, and why it cannot.
LEMMA DiallingFacts ==
    ASSUME Shape, NEW addr, NEW tls
    PROVE  /\ Dialling(addr, tls) \in {"address", "down", "handshake", ErrNone}
           /\ Dialling(addr, tls) = ErrNone =>
                addr.host \in Process /\ \E s \in proc[addr.host] : Handshake(s.tls, tls)
           /\ addr.host \in Process /\ (\A s \in proc[addr.host] : s.port = addr.port /\ Handshake(s.tls, tls)) =>
                Dialling(addr, tls) \in {"down", ErrNone}
<1>1. CASE addr.host \notin Process
  <2>1. Dialling(addr, tls) = "address" BY <1>1 DEF Dialling
  <2> QED BY <1>1, <2>1 DEF ErrNone
<1>2. CASE addr.host \in Process /\ proc[addr.host] = {}
  <2>1. Dialling(addr, tls) = "down" BY <1>2 DEF Dialling
  <2> QED BY <1>2, <2>1 DEF ErrNone
<1>3. CASE addr.host \in Process /\ proc[addr.host] # {}
  <2> DEFINE s == CHOOSE x \in proc[addr.host] : TRUE
  <2>1. s \in proc[addr.host] BY <1>3
  <2>2. Dialling(addr, tls) = CASE s.port # addr.port -> "address"
                                [] s.port = addr.port /\ ~Handshake(s.tls, tls) -> "handshake"
                                [] OTHER -> ErrNone
    BY <1>3 DEF Dialling
  <2> HIDE DEF s
  <2>3. CASE s.port # addr.port BY <1>3, <2>1, <2>2, <2>3 DEF ErrNone
  <2>4. CASE s.port = addr.port /\ ~Handshake(s.tls, tls) BY <1>3, <2>1, <2>2, <2>4 DEF ErrNone
  <2>5. CASE s.port = addr.port /\ Handshake(s.tls, tls) BY <1>3, <2>1, <2>2, <2>5 DEF ErrNone
  <2> QED BY <2>3, <2>4, <2>5
<1> QED BY <1>1, <1>2, <1>3

RelayPaths == {"/proxy", "/connect", "/v4/connect"}

\* A request that gets past its parameters has come to the relay, which serves
\* its path and took one of the settings.
LEMMA RequestFacts ==
    ASSUME Shape, NEW h, NEW path \in RelayPaths, NEW tls, NEW good
    PROVE  LET e == Request(h, path, tls, good)
           IN  /\ e \in Errors
               /\ e = ErrNone =>
                    /\ path \in Paths(conf.relay.versions)
                    /\ \E s \in proc["relay"], t \in tls : Handshake(s.tls, t)
<1> DEFINE e == Request(h, path, tls, good)
           addr == AddDefaultPort(client[h].answer.to)
           t == CHOOSE x \in tls : TRUE
           d == Dialling(addr, t)
<1>1. CASE tls = {} BY <1>1 DEF Request, Errors, ErrConf, ErrNone
<1>2. CASE tls # {}
  <2>1. t \in tls BY <1>2
  <2>2. e = IF d # ErrNone THEN d
            ELSE IF \E s \in proc[addr.host] : path \notin s.paths THEN "404"
            ELSE IF good THEN ErrNone ELSE "400"
    BY <1>2 DEF Request
  <2> HIDE DEF e, addr, t
  <2>3. /\ d \in {"address", "down", "handshake", ErrNone}
        /\ d = ErrNone => addr.host \in Process /\ \E s \in proc[addr.host] : Handshake(s.tls, t)
    BY DiallingFacts
  <2> HIDE DEF d
  <2>4. e \in Errors BY <2>2, <2>3 DEF Errors, ErrConf, ErrOut, ErrNone
  <2>5. ASSUME e = ErrNone
        PROVE  path \in Paths(conf.relay.versions) /\ \E s \in proc["relay"], x \in tls : Handshake(s.tls, x)
    <3>1. d = ErrNone /\ \A s \in proc[addr.host] : path \in s.paths BY <2>2, <2>3, <2>5 DEF ErrNone
    <3>2. PICK s \in proc[addr.host] : Handshake(s.tls, t) /\ addr.host \in Process BY <2>3, <3>1
    <3>3. path \in s.paths BY <3>1, <3>2
    <3>4. addr.host # "cookie" /\ addr.host # "backend" BY <3>2, <3>3, ProcFacts DEF RelayPaths
    <3>5. addr.host = "relay" BY <3>2, <3>4 DEF Process
    <3> QED BY <2>1, <3>2, <3>3, <3>5, ProcFacts
  <2> QED BY <2>4, <2>5 DEF e
<1> QED BY <1>1, <1>2

\* The settings of the WebSocket's dialer have no key pair: a relay that takes
\* them does not insist on one.
LEMMA DialerFacts ==
    ASSUME Shape, NEW s \in proc["relay"], NEW m \in TlsConfig, NEW t \in Config(m), Handshake(s.tls, t)
    PROVE  ~WantsCert(conf.relay.server.tls)
<1>1. s.tls \in Config(conf.relay.server.tls) /\ conf.relay.server.tls \in TlsConfig BY ProcFacts
<1>2. t.cert = FALSE BY ConfigFacts
<1>3. s.tls.auth \notin {"RequireAnyClientCert", "RequireAndVerifyClientCert"} BY <1>2 DEF Handshake
<1>4. conf.relay.server.tls.mode # "DISABLED" =>
        /\ conf.relay.server.tls.auth \in DOMAIN clientAuthMap
        /\ s.tls.auth = clientAuthMap[conf.relay.server.tls.auth]
  BY <1>1, ConfigFacts
<1> QED BY <1>3, <1>4 DEF WantsCert, clientAuthMap

(***************************************************************************)
(* Messages that fit.                                                      *)
(***************************************************************************)

\* An HTTP client whose TLS message fits the server's exists and gets through
\* the handshake.
LEMMA ClientFits ==
    ASSUME NEW m \in TlsConfig, NEW tr \in HttpTransport, TlsAgree(m, tr.tls), tr.timeout >= 0
    PROVE  /\ NewClient(tr) # {}
           /\ \A s \in Config(m), t \in NewClient(tr) : Handshake(s, t)
<1>1. tr.tls \in TlsConfig /\ tr.timeout \in Int BY DEF HttpTransport
<1>2. FromProto(tr.timeout) # {} BY <1>1 DEF FromProto
<1>3. CASE tr.tls.mode = "DISABLED"
  <2>1. ~tr.tls.nil BY <1>1, <1>3 DEF TlsConfig, UnsetTls
  <2>2. NewClient(tr) = {Plain} BY <1>2, <1>3, <2>1 DEF NewClient
  <2>3. m.mode = "DISABLED" BY <1>3 DEF TlsAgree
  <2>4. \A s \in Config(m) : s = Plain BY <2>3, ConfigFacts
  <2>5. Handshake(Plain, Plain) BY DEF Handshake, Plain
  <2> QED BY <2>2, <2>4, <2>5
<1>4. CASE tr.tls.mode # "DISABLED"
  <2>1. /\ m.mode # "DISABLED" /\ ~tr.tls.nil /\ tr.tls.keyPair /\ tr.tls.cas
        /\ tr.tls.auth \in DOMAIN clientAuthMap
    BY <1>4 DEF TlsAgree
  <2>2. NewClient(tr) = CertConfig(tr.tls) BY <1>2, <1>4, <2>1 DEF NewClient
  <2> DEFINE k == [on |-> TRUE, auth |-> clientAuthMap[tr.tls.auth], cert |-> FALSE]
  <2>3. k \in Config(tr.tls) BY <1>4, <2>1 DEF Config, ClientAuthType, loadCerts
  <2>4. Config(tr.tls) = {k} BY <1>1, <2>3, ConfigFacts
  <2>5. CertConfig(tr.tls) = {[k EXCEPT !.cert = TRUE]} BY <2>1, <2>4 DEF CertConfig
  <2>6. \A s \in Config(m) : s.on = TRUE BY <2>1, ConfigFacts
  <2> QED BY <2>2, <2>5, <2>6 DEF Handshake
<1> QED BY <1>3, <1>4

\* So does the WebSocket's dialer, if the server does not insist on a
\* certificate.
LEMMA DialerFits ==
    ASSUME NEW m \in TlsConfig, NEW p \in TlsConfig, TlsAgree(m, p), ~WantsCert(m)
    PROVE  /\ Config(p) # {}
           /\ \A s \in Config(m), t \in Config(p) : Handshake(s, t)
<1>1. CASE p.mode = "DISABLED"
  <2>1. Config(p) = {Plain} BY <1>1 DEF Config
  <2>2. m.mode = "DISABLED" BY <1>1 DEF TlsAgree
  <2>3. \A s \in Config(m) : s = Plain BY <2>2, ConfigFacts
  <2>4. Handshake(Plain, Plain) BY DEF Handshake, Plain
  <2> QED BY <2>1, <2>3, <2>4
<1>2. CASE p.mode # "DISABLED"
  <2>1. m.mode # "DISABLED" /\ p.cas /\ p.auth \in DOMAIN clientAuthMap BY <1>2 DEF TlsAgree
  <2> DEFINE k == [on |-> TRUE, auth |-> clientAuthMap[p.auth], cert |-> FALSE]
  <2>2. k \in Config(p) BY <1>2, <2>1 DEF Config, ClientAuthType, loadCerts
  <2>3. \A t \in Config(p) : t.on = TRUE BY <1>2, ConfigFacts
  <2>4. \A s \in Config(m) :
            s.on = TRUE /\ m.auth \in DOMAIN clientAuthMap /\ s.auth = clientAuthMap[m.auth]
    BY <2>1, ConfigFacts
  <2>5. m.auth \in {"NO_CLIENT_CERT", "REQUEST_CLIENT_CERT", "VERIFY_CLIENT_CERT_IF_GIVEN"} BY <2>1 DEF WantsCert
  <2>6. \A s \in Config(m) : s.auth \notin {"RequireAnyClientCert", "RequireAndVerifyClientCert"}
    BY <2>4, <2>5 DEF clientAuthMap
  <2> QED BY <2>2, <2>3, <2>4, <2>6 DEF Handshake
<1> QED BY <1>1, <1>2

\* "It defaults to 8022" at both ends.
LEMMA PortsFit == ASSUME NEW a, NEW b, SamePort(a, b) PROVE PortOf(a) = PortOf(b)
<1>1. CASE a = b BY <1>1
<1>2. CASE {a, b} = {"", "8022"}
  <2>1. PortOf("") = "8022" /\ PortOf("8022") = "8022" BY DEF PortOf
  <2>2. a \in {"", "8022"} /\ b \in {"", "8022"} BY <1>2
  <2> QED BY <2>1, <2>2
<1> QED BY <1>1, <1>2 DEF SamePort

\* The helper finds the Cookie Server, when it runs.
LEMMA CookieFits ==
    ASSUME Shape, Fits
    PROVE  /\ buildConfig(conf.helper) # {} /\ conf.cookie.maxAge >= 0 /\ cfg.addr.host = "cookie"
           /\ NewClient(cfg.transport) # {}
           /\ \A t \in NewClient(cfg.transport) : Dialling(cfg.addr, t) \in {"down", ErrNone}
<1> DEFINE h == conf.helper  k == conf.cookie
<1>1. /\ h.host # "" /\ h.port # "" /\ h.addr.host = "cookie" /\ SamePort(h.addr.port, k.server.port)
      /\ TlsAgree(k.server.tls, h.transport.tls) /\ h.transport.timeout >= 0 /\ k.maxAge >= 0
  BY DEF Fits, AsDocumented
<1>2. conf \in Deployments /\ h \in HelperConfig /\ k \in CookieConfig BY ConfFacts DEF Shape
<1>3. h.addr \in Address /\ h.transport \in HttpTransport BY <1>2 DEF HelperConfig
<1>4. k.server.tls \in TlsConfig BY <1>2 DEF CookieConfig, HttpServerOptions
<1>5. h.addr # Nowhere
  <2>1. Nowhere.host = "none" BY DEF Nowhere
  <2> QED BY <1>1, <2>1
<1>6. buildConfig(h) # {} BY <1>1, <1>5 DEF buildConfig
<1>7. cfg.transport = h.transport /\ cfg.addr = AddDefaultPort(h.addr) BY <1>2, <1>6, CfgFacts
<1>8. cfg.addr.host = "cookie" /\ cfg.addr.port = PortOf(k.server.port)
  BY <1>1, <1>3, <1>7, AddressFacts, PortsFit
<1>9. /\ NewClient(h.transport) # {}
      /\ \A s \in Config(k.server.tls), t \in NewClient(h.transport) : Handshake(s, t)
  BY <1>1, <1>3, <1>4, ClientFits
<1>10. \A s \in proc["cookie"] : s.port = PortOf(k.server.port) /\ s.tls \in Config(k.server.tls) BY ProcFacts
<1>11. ASSUME NEW t \in NewClient(h.transport) PROVE Dialling(cfg.addr, t) \in {"down", ErrNone}
  <2>1. \A s \in proc[cfg.addr.host] : s.port = cfg.addr.port /\ Handshake(s.tls, t) BY <1>8, <1>9, <1>10
  <2>2. cfg.addr.host \in Process BY <1>8 DEF Process
  <2> QED BY <2>1, <2>2, DiallingFacts
<1> QED BY <1>1, <1>6, <1>7, <1>8, <1>9, <1>11

\* And the relay, with the endpoint of the answer.
LEMMA RelayFits ==
    ASSUME Shape, Fits, NEW h, client[h].answer.to = conf.backend.relayAddr,
           NEW path \in Paths(conf.relay.versions), NEW tls, NEW good \in BOOLEAN, good,
           \/ tls = NewClient(cfg.relayTransport)
           \/ tls = DialerTLS
    PROVE  Request(h, path, tls, good) \in {"down", ErrNone}
<1> DEFINE r == conf.relay
           tr == IF conf.helper.relayTransport.nil THEN conf.helper.transport ELSE conf.helper.relayTransport
           addr == AddDefaultPort(client[h].answer.to)
           t == CHOOSE x \in tls : TRUE
<1>1. /\ conf.backend.relayAddr.host = "relay" /\ SamePort(conf.backend.relayAddr.port, r.server.port)
      /\ TlsAgree(r.server.tls, tr.tls) /\ tr.timeout >= 0 /\ ~WantsCert(r.server.tls)
  BY DEF Fits, AsDocumented
<1>2. conf \in Deployments /\ conf.backend.relayAddr \in Address /\ r.server.tls \in TlsConfig
  BY ConfFacts DEF Shape, BackendConfig, RelayConfig, HttpServerOptions
<1>3. cfg.relayTransport = tr /\ tr \in HttpTransport BY <1>2, CookieFits, CfgFacts
<1> HIDE DEF tr
<1>4. tr.tls \in TlsConfig BY <1>3 DEF HttpTransport
<1>5. tls # {} /\ \A s \in Config(r.server.tls), x \in tls : Handshake(s, x)
  BY <1>1, <1>2, <1>3, <1>4, ClientFits, DialerFits DEF DialerTLS
<1>6. t \in tls BY <1>5
<1>7. addr.host = "relay" /\ addr.port = PortOf(r.server.port) BY <1>1, <1>2, AddressFacts, PortsFit
<1> HIDE DEF t, addr
<1>8. \A s \in proc["relay"] :
        s.port = PortOf(r.server.port) /\ s.tls \in Config(r.server.tls) /\ s.paths = Paths(r.versions)
  BY ProcFacts
<1>9. Dialling(addr, t) \in {"down", ErrNone}
  <2>1. \A s \in proc[addr.host] : s.port = addr.port /\ Handshake(s.tls, t) BY <1>5, <1>6, <1>7, <1>8
  <2>2. addr.host \in Process BY <1>7 DEF Process
  <2> QED BY <2>1, <2>2, DiallingFacts
<1>10. \A s \in proc[addr.host] : path \in s.paths BY <1>7, <1>8
<1>11. Request(h, path, tls, good) = IF Dialling(addr, t) # ErrNone THEN Dialling(addr, t)
                                     ELSE IF \E s \in proc[addr.host] : path \notin s.paths THEN "404"
                                     ELSE IF good THEN ErrNone ELSE "400"
  BY <1>5 DEF Request, addr, t
<1> QED BY <1>9, <1>10, <1>11

-----------------------------------------------------------------------------
(***************************************************************************)
(* One client at a time.                                                   *)
(***************************************************************************)

\* What a client has to say for itself depends on the messages and on its own
\* session.
LEMMA Frame ==
    ASSUME NEW d \in Clients, ClientInv(d), conf' = conf, client'[d] = client[d],
           d \in sessions' \cap Helpers => d \in sessions
    PROVE  ClientInv(d)'
<1>1. Requested(d)' BY DEF ClientInv, Requested
<1>2. Answered(d)' BY DEF ClientInv, Answered, CookiesFor
<1>3. Progress(d)' BY DEF ClientInv, Progress
<1>4. Chosen(d)' BY DEF ClientInv, Chosen, Agreed
<1>5. Fits' <=> Fits BY DEF Fits, AsDocumented
<1>6. Expected(d)' BY <1>5 DEF ClientInv, Expected, NotToBlame
<1> QED BY <1>1, <1>2, <1>3, <1>4, <1>6 DEF ClientInv

\* Client c is the only one that moves, and it stays a client.
Moves(c) ==
    /\ client' \in [Clients -> Client]
    /\ \A d \in Clients \ {c} : client'[d] = client[d]

\* Fail ends the process; its status is 0 only if the connection was lost on
\* the way to a session.
LEMMA FailFacts ==
    ASSUME Shape, NEW c \in Clients, NEW e \in Errors, Fail(c, e)
    PROVE  /\ Moves(c)
           /\ client'[c].pc = "exit" /\ client'[c].err = e /\ client'[c].ran = client[c].ran
           /\ client'[c].req = client[c].req /\ client'[c].answer = client[c].answer
           /\ client'[c].verdict = client[c].verdict
           /\ client'[c].status \in {0, 1}
           /\ client'[c].status = 0 => e = "lost" /\ client[c].pc \in {"proxy", "connect", "v4"}
<1>1. PICK s \in AgentRun(c, e) :
        client' = [client EXCEPT ![c].pc = "exit", ![c].err = e, ![c].status = s]
  BY DEF Fail
<1>2. s \in {0, 1} /\ (s = 0 => e = "lost" /\ client[c].pc \in {"proxy", "connect", "v4"}) BY DEF AgentRun
<1>3. client \in [Clients -> Client] BY DEF Shape
<1> DEFINE x == client[c]
           y == [x EXCEPT !.pc = "exit", !.err = e, !.status = s]
<1>4. x \in Client BY <1>3
<1>5. y \in Client
  <2>1. ASSUME NEW z \in Client, NEW p \in Pc, NEW u \in {-1, 0, 1}
        PROVE  [z EXCEPT !.pc = p, !.err = e, !.status = u] \in Client
    BY DEF Client
  <2>2. "exit" \in Pc BY DEF Pc
  <2> QED BY <1>2, <1>4, <2>1, <2>2
<1>6. client' = [client EXCEPT ![c] = y] BY <1>1, <1>3
<1>7. Moves(c) /\ client'[c] = y BY <1>3, <1>5, <1>6 DEF Moves
<1> QED BY <1>2, <1>4, <1>7 DEF Client

\* A helper that fails for one of the reasons it may have keeps ClientInv.
LEMMA FailKeeps ==
    ASSUME Shape, NEW c \in Clients, ClientInv(c), NEW e \in Errors, Fail(c, e), conf' = conf,
           client[c].pc \notin {"running", "exit", "absent"},
           c \in sessions' => c \in sessions \/ client[c].pc \in {"proxy", "v4"},
           c \in Helpers /\ Fits => e \in ErrOut \/ (e = "answer" /\ client[c].verdict = "refused")
    PROVE  ClientInv(c)'
<1>1. /\ client'[c].pc = "exit" /\ client'[c].err = e /\ client'[c].ran = client[c].ran
      /\ client'[c].req = client[c].req /\ client'[c].answer = client[c].answer
      /\ client'[c].verdict = client[c].verdict
      /\ client'[c].status \in {0, 1}
      /\ client'[c].status = 0 => e = "lost" /\ client[c].pc \in {"proxy", "connect", "v4"}
  BY FailFacts
<1>2. client[c].pc \in {"proxy", "connect", "v4"} => client[c].verdict = "granted"
  BY DEF ClientInv, Progress, Answered
<1>3. Requested(c)' BY <1>1 DEF ClientInv, Requested
<1>4. Answered(c)' BY <1>1 DEF ClientInv, Answered, CookiesFor
<1>5. Progress(c)' BY <1>1, <1>2 DEF ClientInv, Progress
<1>6. Chosen(c)' BY <1>1 DEF ClientInv, Chosen, Agreed
<1>7. Fits' <=> Fits BY DEF Fits, AsDocumented
<1>8. Expected(c)' BY <1>1, <1>7 DEF Expected, NotToBlame
<1> QED BY <1>3, <1>4, <1>5, <1>6, <1>8 DEF ClientInv

\* A step of one client keeps Inv if it keeps that client's part.
LEMMA OneMoves ==
    ASSUME Inv, NEW c \in Clients, Moves(c), ClientInv(c)', UNCHANGED <<conf, proc, crashes>>,
           sessions' \subseteq Clients, \A d \in Clients \ {c} : d \in sessions' => d \in sessions
    PROVE  Inv'
<1>1. \A p \in Process : Main(p)' = Main(p) BY DEF Main
<1>2. Shape' BY <1>1 DEF Inv, Shape, Moves
<1>3. \A d \in Clients \ {c} : ClientInv(d)' BY Frame DEF Inv, Moves
<1> QED BY <1>2, <1>3 DEF Inv

\* Most steps leave the sessions alone.
LEMMA FailStep ==
    ASSUME Inv, NEW c \in Clients, NEW e \in Errors, Fail(c, e), UNCHANGED <<conf, proc, crashes>>,
           client[c].pc \notin {"running", "exit", "absent"},
           \/ sessions' = sessions
           \/ sessions' = sessions \ {c}
           \/ c \in Helpers /\ client[c].pc \in {"proxy", "v4"} /\ sessions' = sessions \cup {c},
           c \in Helpers /\ Fits => e \in ErrOut \/ (e = "answer" /\ client[c].verdict = "refused")
    PROVE  Inv'
<1>1. Shape /\ ClientInv(c) /\ sessions \subseteq Clients BY DEF Inv, Shape
<1>2. c \in sessions' => c \in sessions \/ client[c].pc \in {"proxy", "v4"} OBVIOUS
<1>3. ClientInv(c)' BY <1>1, <1>2, FailKeeps
<1>4. Moves(c) BY <1>1, FailFacts
<1>5. sessions' \subseteq Clients BY <1>1
<1>6. \A d \in Clients \ {c} : d \in sessions' => d \in sessions OBVIOUS
<1> QED BY <1>3, <1>4, <1>5, <1>6, OneMoves

-----------------------------------------------------------------------------
(***************************************************************************)
(* The steps of clients.                                                   *)
(***************************************************************************)

\* The request for /cookie.
LEMMA AskCookieStep ==
    ASSUME Inv, NEW c \in Clients, NEW q, NEW addr, NEW tls, AskCookie(c, q, addr, tls),
           q.version \in Int, q.ext \in Exts,
           c \in Helpers => q = authURL /\ buildConfig(conf.helper) # {},
           c \in Helpers /\ Fits =>
                Dialling(addr, tls) \in {"down", ErrNone} /\ conf.cookie.maxAge >= 0 /\ addr.host = "cookie"
    PROVE  Inv'
<1> DEFINE e == Dialling(addr, tls)
           served == \A s \in proc[addr.host] : "/cookie" \in s.paths
           rs == IF served THEN New(q) ELSE {}
           ok == rs # {} /\ \A cs \in proc["cookie"] : FromProto(cs.maxAge) # {}
           x == client[c]
           p == IF ok THEN "rpc" ELSE "answered"
           w == CASE ok -> Unwritten [] ~ok /\ served -> BadRequest [] OTHER -> NotFound
           y == [x EXCEPT !.pc = p, !.req = rs, !.answer = w]
<1>1. Shape /\ ClientInv(c) /\ sessions \subseteq Clients /\ client \in [Clients -> Client] /\ x \in Client
  BY DEF Inv, Shape
<1>2. x.pc = "start" /\ UNCHANGED <<conf, proc, sessions, crashes>> BY DEF AskCookie
<1>3. e \in {"address", "down", "handshake", ErrNone} BY <1>1, DiallingFacts
<1>4. CASE e # ErrNone
  <2>1. Fail(c, e) BY <1>4 DEF AskCookie
  <2>2. e \in Errors BY <1>3 DEF Errors, ErrOut, ErrConf
  <2>3. c \in Helpers /\ Fits => e \in ErrOut BY <1>4 DEF ErrOut
  <2> QED BY <1>2, <2>1, <2>2, <2>3, FailStep
<1>5. CASE e = ErrNone
  <2>1. client' = [client EXCEPT ![c].pc = p, ![c].req = rs, ![c].answer = w] BY <1>5 DEF AskCookie
  <2>2. client' = [client EXCEPT ![c] = y] BY <1>1, <2>1
  <2>3. /\ rs \subseteq New(q)
        /\ \A r \in rs : r \in Requests /\ rs = {r} /\ (r.version = 1 <=> r.method = "HTTP_REDIRECT")
    BY NewFacts
  <2>4. p \in Pc /\ w \in Answers /\ rs \in SUBSET Requests
    <3>1. w \in {Unwritten, BadRequest, NotFound} OBVIOUS
    <3>2. p \in Pc BY DEF Pc
    <3> HIDE DEF w, p, rs
    <3> QED BY <2>3, <3>1, <3>2, EmptyAnswers
  <2>5. w.cookies = {} /\ w.to = Nowhere /\ w.body # "json" /\ (p = "rpc" => w = Unwritten) BY EmptyAnswers
  <2>6. p \in {"rpc", "answered"} OBVIOUS
  <2>7. c \in Helpers /\ Fits => p = "rpc"
    <3> SUFFICES ASSUME c \in Helpers, Fits PROVE ok OBVIOUS
    <3>1. served BY <1>1, ProcFacts
    <3>3. New(q) # {} BY AuthURLFacts
    <3>2. ASSUME NEW cs \in proc["cookie"] PROVE FromProto(cs.maxAge) # {}
      <4>1. cs.maxAge = conf.cookie.maxAge BY <1>1, ProcFacts
      <4> QED BY <4>1 DEF FromProto
    <3> QED BY <3>1, <3>2, <3>3
  <2> HIDE DEF p, w, rs
  <2>8. y \in Client BY <1>1, <2>4 DEF Client
  <2>9. /\ y.pc = p /\ y.req = rs /\ y.answer = w /\ y.verdict = x.verdict /\ y.ran = x.ran
        /\ y.err = x.err /\ y.status = x.status
    BY <1>1 DEF Client
  <2> HIDE DEF y
  <2>10. Moves(c) /\ client'[c] = y BY <1>1, <2>2, <2>8 DEF Moves
  <2>11. Requested(c)'
    <3>1. c \in Helpers => rs \subseteq New(authURL) BY <2>3
    <3>2. \A r, u \in rs : r = u BY <2>3
    <3> QED BY <1>2, <2>3, <2>5, <2>6, <2>9, <2>10, <3>1, <3>2 DEF Requested
  <2>12. Answered(c)' BY <1>2, <2>5, <2>9, <2>10 DEF Answered
  <2>13. Progress(c)' BY <1>1, <1>2, <2>6, <2>9, <2>10 DEF ClientInv, Progress
  <2>14. Chosen(c)' BY <1>1, <1>2, <2>6, <2>9, <2>10 DEF ClientInv, Chosen, Progress
  <2>15. Expected(c)'
    <3>1. Fits' <=> Fits BY <1>2 DEF Fits, AsDocumented
    <3>2. y.err = ErrNone BY <1>1, <1>2, <2>9 DEF ClientInv, Progress
    <3> QED BY <2>7, <2>9, <2>10, <3>1, <3>2 DEF Expected, NotToBlame
  <2>16. ClientInv(c)' BY <2>11, <2>12, <2>13, <2>14, <2>15 DEF ClientInv
  <2> QED BY <1>1, <1>2, <2>10, <2>16, OneMoves
<1> QED BY <1>4, <1>5

\* main, agent.New and Authenticate.
LEMMA AuthenticateStep == ASSUME Inv, NEW h \in Helpers, Authenticate(h) PROVE Inv'
<1>1. Shape /\ client[h].pc = "start" /\ h \in Clients BY DEF Inv, Authenticate, Clients
<1>2. CASE buildConfig(conf.helper) = {} \/ NewClient(cfg.transport) = {}
  <2>1. Fail(h, "config") /\ UNCHANGED <<conf, proc, sessions, crashes>> BY <1>2 DEF Authenticate
  <2>2. ~Fits BY <1>1, <1>2, CookieFits
  <2>3. "config" \in Errors BY DEF Errors, ErrConf
  <2> QED BY <1>1, <2>1, <2>2, <2>3, FailStep
<1>3. CASE ~(buildConfig(conf.helper) = {} \/ NewClient(cfg.transport) = {})
  <2>1. PICK t \in NewClient(cfg.transport) : AskCookie(h, authURL, cfg.addr, t) BY <1>3 DEF Authenticate
  <2>2. Fits => Dialling(cfg.addr, t) \in {"down", ErrNone} /\ conf.cookie.maxAge >= 0 /\ cfg.addr.host = "cookie"
    BY <1>1, CookieFits
  <2> QED BY <1>1, <1>3, <2>1, <2>2, AskCookieStep, AuthURLFacts
<1> QED BY <1>2, <1>3

\* A browser asks for anything.
LEMMA BrowserAsksStep == ASSUME Inv, NEW b \in Browsers, BrowserAsks(b) PROVE Inv'
<1>1. PICK q \in Queries, cs \in proc["cookie"] :
        AskCookie(b, q, [host |-> "cookie", port |-> cs.port], [on |-> cs.tls.on, auth |-> "NoClientCert", cert |-> TRUE])
  BY DEF BrowserAsks
<1>2. q.version \in Int /\ q.ext \in Exts BY QueryAssumption DEF Exts
<1>3. b \in Clients /\ b \notin Helpers BY BoundAssumption DEF Clients
<1> QED BY <1>1, <1>2, <1>3, AskCookieStep

\* The Cookie Server's handler, once Authorize has returned.
LEMMA CookieRepliesStep == ASSUME Inv, NEW c \in Clients, CookieReplies(c) PROVE Inv'
<1> DEFINE x == client[c]
<1>1. Shape /\ ClientInv(c) /\ sessions \subseteq Clients /\ client \in [Clients -> Client] /\ x \in Client
  BY DEF Inv, Shape
<1>2. x.pc = "rpc" /\ UNCHANGED <<conf, proc, sessions, crashes>> BY DEF CookieReplies
<1>3. PICK cs \in proc["cookie"], r \in x.req : \E a \in Authorize(cs, r) :
        client' = [client EXCEPT ![c].pc = "answered", ![c].answer = Handle(cs, r, a),
                                 ![c].verdict = IF a.err \/ a.denied THEN "refused" ELSE "granted"]
  BY DEF CookieReplies
<1>4. r \in Requests BY <1>1 DEF Client
<1>5. PICK a \in Authorize(cs, r) :
        client' = [client EXCEPT ![c].pc = "answered", ![c].answer = Handle(cs, r, a),
                                 ![c].verdict = IF a.err \/ a.denied THEN "refused" ELSE "granted"]
  BY <1>3
<1> DEFINE w == Handle(cs, r, a)
           v == IF a.err \/ a.denied THEN "refused" ELSE "granted"
           y == [x EXCEPT !.pc = "answered", !.answer = w, !.verdict = v]
<1>6. client' = [client EXCEPT ![c] = y] BY <1>1, <1>5
<1>7. /\ w \in Answers
      /\ \/ w = Unwritten
         \/ /\ Authorized(a)
            /\ w.cookies = CookiesFor(r)
            /\ w.to = conf.backend.relayAddr /\ w.to # Nowhere
            /\ conf.backend.example => w.body = BodyFor(r.method)
      /\ conf.backend.example /\ Authorized(a) /\ r.method # "UNSPECIFIED" => w.to # Nowhere
  BY <1>1, <1>4, HandleFacts
<1>8. v \in {"refused", "granted"} /\ (v = "granted" <=> Authorized(a)) BY DEF Authorized
<1>9. "answered" \in Pc BY DEF Pc
<1> HIDE DEF w, v
<1>10. y \in Client BY <1>1, <1>7, <1>8, <1>9 DEF Client
<1>11. /\ y.pc = "answered" /\ y.req = x.req /\ y.answer = w /\ y.verdict = v /\ y.ran = x.ran
       /\ y.err = x.err /\ y.status = x.status
  BY <1>1 DEF Client
<1> HIDE DEF y
<1>12. Moves(c) /\ client'[c] = y BY <1>1, <1>6, <1>10 DEF Moves
<1>13. Requested(c)' BY <1>1, <1>2, <1>11, <1>12 DEF ClientInv, Requested
<1>14. \A s \in x.req : s = r BY <1>1 DEF ClientInv, Requested
<1>15. Answered(c)'
  <2>1. CASE w = Unwritten BY <1>11, <1>12, <2>1, EmptyAnswers DEF Answered
  <2>2. CASE w # Unwritten
    <3>1. /\ v = "granted" /\ w.cookies = CookiesFor(r)
          /\ w.to = conf.backend.relayAddr /\ w.to # Nowhere
          /\ conf.backend.example => w.body = BodyFor(r.method)
      BY <1>7, <1>8, <2>2
    <3>2. CookiesFor(r)' = CookiesFor(r) BY <1>2 DEF CookiesFor
    <3> QED BY <1>2, <1>11, <1>12, <1>14, <3>1, <3>2 DEF Answered
  <2> QED BY <2>1, <2>2
<1>16. Progress(c)' BY <1>1, <1>2, <1>11, <1>12 DEF ClientInv, Progress
<1>17. Chosen(c)' BY <1>1, <1>2, <1>11, <1>12 DEF ClientInv, Chosen, Progress
<1>18. Expected(c)'
  <2>1. Fits' <=> Fits BY <1>2 DEF Fits, AsDocumented
  <2>2. y.err = ErrNone BY <1>1, <1>2, <1>11 DEF ClientInv, Progress
  <2>3. ASSUME c \in Helpers, Fits PROVE v = "refused" \/ w.to # Nowhere
    <3>1. r.method = "DIRECT" BY <1>1, <1>2, <2>3, AuthURLFacts DEF ClientInv, Requested
    <3>2. conf.backend.example BY <2>3 DEF Fits, AsDocumented
    <3> QED BY <1>7, <1>8, <3>1, <3>2
  <2> QED BY <1>11, <1>12, <2>1, <2>2, <2>3 DEF Expected, NotToBlame
<1>19. ClientInv(c)' BY <1>13, <1>15, <1>16, <1>17, <1>18 DEF ClientInv
<1> QED BY <1>1, <1>2, <1>12, <1>19, OneMoves

\* A client that only goes on.
LEMMA GotoFacts ==
    ASSUME Shape, NEW c \in Clients, NEW l \in Pc, Goto(c, l)
    PROVE  /\ Moves(c)
           /\ client'[c].pc = l /\ client'[c].req = client[c].req /\ client'[c].answer = client[c].answer
           /\ client'[c].verdict = client[c].verdict /\ client'[c].ran = client[c].ran
           /\ client'[c].err = client[c].err /\ client'[c].status = client[c].status
<1> DEFINE x == client[c]
           y == [x EXCEPT !.pc = l]
<1>1. client \in [Clients -> Client] /\ x \in Client BY DEF Shape
<1>2. client' = [client EXCEPT ![c] = y] BY <1>1 DEF Goto
<1>3. y \in Client BY <1>1 DEF Client
<1>4. /\ y.pc = l /\ y.req = x.req /\ y.answer = x.answer /\ y.verdict = x.verdict /\ y.ran = x.ran
      /\ y.err = x.err /\ y.status = x.status
  BY <1>1 DEF Client
<1> HIDE DEF y
<1>5. Moves(c) /\ client'[c] = y BY <1>1, <1>2, <1>3 DEF Moves
<1> QED BY <1>4, <1>5

\* FromReader and the choice of the version.
LEMMA ReadAnswerStep == ASSUME Inv, NEW h \in Helpers, ReadAnswer(h) PROVE Inv'
<1> DEFINE x == client[h]
<1>1. Shape /\ ClientInv(h) /\ sessions \subseteq Clients /\ h \in Clients BY DEF Inv, Shape, Clients
<1>2. x.pc = "answered" /\ UNCHANGED <<conf, proc, sessions, crashes>> BY DEF ReadAnswer
<1>3. buildConfig(conf.helper) # {} /\ conf \in Deployments BY <1>1, <1>2 DEF ClientInv, Requested, Shape
<1>4. cfg.version = conf.helper.version BY <1>3, CfgFacts
<1>5. FromReader(x.answer) # {} => x.answer.to # Nowhere BY <1>1 DEF FromReader, ClientInv, Answered
<1>6. Fits => FromReader(x.answer) # {} \/ x.verdict = "refused"
  <2> SUFFICES ASSUME Fits, x.answer.to # Nowhere PROVE FromReader(x.answer) # {}
    BY <1>1, <1>2 DEF ClientInv, Expected
  <2>1. PICK r \in x.req : x.answer.body = BodyFor(r.method)
    BY <1>1 DEF ClientInv, Answered, Fits, AsDocumented
  <2>2. r.method = "DIRECT" BY <1>1, <1>2, AuthURLFacts DEF ClientInv, Requested
  <2> QED BY <2>1, <2>2 DEF BodyFor, FromReader
<1>7. CASE FromReader(x.answer) = {} /\ Fail(h, "answer")
  <2>1. "answer" \in Errors BY DEF Errors, ErrConf
  <2> QED BY <1>1, <1>2, <1>6, <1>7, <2>1, FailStep
<1>8. CASE cfg.version \notin {"CORP_RELAY", "CORP_RELAY_V4", "UNSPECIFIED"} /\ Fail(h, "version")
  <2>1. "version" \in Errors BY DEF Errors, ErrConf
  <2>2. ~Fits BY <1>4, <1>8 DEF Fits, AsDocumented
  <2> QED BY <1>1, <1>2, <1>8, <2>1, <2>2, FailStep
<1>9. ASSUME NEW l \in {"proxy", "v4"}, Goto(h, l), FromReader(x.answer) # {},
             l = "proxy" => conf.helper.version = "CORP_RELAY",
             l = "v4" => conf.helper.version \in {"CORP_RELAY_V4", "UNSPECIFIED"}
      PROVE  Inv'
  <2>1. l \in Pc BY DEF Pc
  <2>2. /\ Moves(h)
        /\ client'[h].pc = l /\ client'[h].req = x.req /\ client'[h].answer = x.answer
        /\ client'[h].verdict = x.verdict /\ client'[h].ran = x.ran
        /\ client'[h].err = x.err /\ client'[h].status = x.status
    BY <1>1, <1>9, <2>1, GotoFacts
  <2>3. Requested(h)' BY <1>1, <1>2, <2>2 DEF ClientInv, Requested
  <2>4. Answered(h)' BY <1>1, <1>2, <2>2 DEF ClientInv, Answered, CookiesFor
  <2>5. Progress(h)' BY <1>1, <1>2, <1>5, <1>9, <2>2 DEF ClientInv, Progress
  <2>6. Chosen(h)' BY <1>1, <1>2, <1>9, <2>2 DEF ClientInv, Chosen, Progress
  <2>7. Fits' <=> Fits BY <1>2 DEF Fits, AsDocumented
  <2>8. Expected(h)' BY <1>1, <2>2, <2>7 DEF ClientInv, Expected, NotToBlame
  <2>9. ClientInv(h)' BY <2>3, <2>4, <2>5, <2>6, <2>8 DEF ClientInv
  <2> QED BY <1>1, <1>2, <2>2, <2>9, OneMoves
<1>10. \/ FromReader(x.answer) = {} /\ Fail(h, "answer")
       \/ FromReader(x.answer) # {} /\ cfg.version = "CORP_RELAY" /\ Goto(h, "proxy")
       \/ FromReader(x.answer) # {} /\ cfg.version \in {"CORP_RELAY_V4", "UNSPECIFIED"} /\ Goto(h, "v4")
       \/ cfg.version \notin {"CORP_RELAY", "CORP_RELAY_V4", "UNSPECIFIED"} /\ Fail(h, "version")
  BY DEF ReadAnswer
<1> QED BY <1>4, <1>7, <1>8, <1>9, <1>10

\* request.Origin finds the cookie of an answer with an endpoint when the two
\* names are the same and a token, and nothing when they are not.
LEMMA OriginFacts ==
    ASSUME NEW c \in Clients, ClientInv(c), client[c].answer.to # Nowhere
    PROVE  Origin(client[c].answer, conf.relay.cookieName) =
                IF conf.relay.cookieName = conf.cookie.cookieName /\ conf.cookie.cookieName \in Tokens
                THEN {ExtOrigin(r.ext) : r \in client[c].req} ELSE {}
<1> DEFINE w == client[c].answer
           rn == conf.relay.cookieName
           cn == conf.cookie.cookieName
<1>1. PICK r \in client[c].req : w.cookies = CookiesFor(r) BY DEF ClientInv, Answered
<1>2. \A u \in client[c].req : u = r BY <1>1 DEF ClientInv, Requested
<1>3. {ExtOrigin(u.ext) : u \in client[c].req} = {ExtOrigin(r.ext)} BY <1>1, <1>2
<1> DEFINE k == [name |-> cn, value |-> ExtOrigin(r.ext)]
<1>4. w.cookies = IF cn \in Tokens THEN {k} ELSE {} BY <1>1 DEF CookiesFor
<1>5. k.name = cn /\ k.value = ExtOrigin(r.ext) OBVIOUS
<1>6. k.value[1] # "" BY <1>5 DEF ExtOrigin
<1> HIDE DEF k, w
<1>7. Origin(w, rn) = IF rn = cn /\ cn \in Tokens THEN {ExtOrigin(r.ext)} ELSE {}
  BY <1>4, <1>5, <1>6 DEF Origin
<1> QED BY <1>3, <1>7 DEF w

\* So the relay finds the helper's origin.
LEMMA HelperOrigin ==
    ASSUME Shape, NEW h \in Helpers, ClientInv(h), client[h].pc \in {"proxy", "connect", "v4"}, NEW s \in proc["relay"]
    PROVE  /\ Origin(client[h].answer, s.cookieName) # {} => conf.relay.cookieName = conf.cookie.cookieName
           /\ Fits => Origin(client[h].answer, s.cookieName) = {ExtOrigin("sshRelayHelper")}
<1>1. h \in Clients /\ client[h].answer.to # Nowhere BY DEF Clients, ClientInv, Progress
<1>2. s.cookieName = conf.relay.cookieName BY ProcFacts
<1>3. PICK r \in client[h].req : TRUE BY <1>1 DEF ClientInv, Answered
<1>4. \A u \in client[h].req : u.ext = "sshRelayHelper" BY AuthURLFacts DEF ClientInv, Requested
<1>5. {ExtOrigin(u.ext) : u \in client[h].req} = {ExtOrigin("sshRelayHelper")} BY <1>3, <1>4
<1>6. Fits => conf.relay.cookieName = conf.cookie.cookieName /\ conf.cookie.cookieName \in Tokens
  BY DEF Fits, AsDocumented
<1> QED BY <1>1, <1>2, <1>5, <1>6, OriginFacts

\* CheckOrigin: a session that comes to run shows that the messages agree.
LEMMA UpgradeStep ==
    ASSUME Inv, NEW h \in Helpers, Upgrade(h), UNCHANGED <<conf, proc, crashes>>,
           \/ client[h].pc = "connect" /\ "/connect" \in Paths(conf.relay.versions)
           \/ client[h].pc = "v4" /\ "/v4/connect" \in Paths(conf.relay.versions),
           \E s \in proc["relay"], t \in DialerTLS : Handshake(s.tls, t),
           \/ client[h].pc = "v4" /\ sessions' = sessions \cup {h}
           \/ client[h].pc = "connect" /\ sessions' = IF client'[h].pc = "running" THEN sessions ELSE sessions \ {h}
    PROVE  Inv'
<1> DEFINE x == client[h]
           y == [x EXCEPT !.pc = "running", !.ran = TRUE]
<1>1. /\ Shape /\ ClientInv(h) /\ sessions \subseteq Clients /\ h \in Clients
      /\ client \in [Clients -> Client] /\ x \in Client
  BY DEF Inv, Shape, Clients
<1>2. PICK s \in proc["relay"] :
        IF Origin(x.answer, s.cookieName) = {ExtOrigin("sshRelayHelper")}
        THEN client' = [client EXCEPT ![h].pc = "running", ![h].ran = TRUE]
        ELSE Fail(h, "upgrade")
  BY DEF Upgrade
<1>3. CASE Origin(x.answer, s.cookieName) # {ExtOrigin("sshRelayHelper")}
  <2>1. Fail(h, "upgrade") BY <1>2, <1>3
  <2>2. "upgrade" \in Errors BY DEF Errors, ErrConf
  <2>3. ~Fits BY <1>1, <1>3, HelperOrigin
  <2>4. \/ x.pc = "v4" /\ sessions' = sessions \cup {h}
        \/ sessions' = sessions \/ sessions' = sessions \ {h}
    OBVIOUS
  <2> QED BY <1>1, <2>1, <2>2, <2>3, <2>4, FailStep
<1>4. CASE Origin(x.answer, s.cookieName) = {ExtOrigin("sshRelayHelper")}
  <2>1. client' = [client EXCEPT ![h] = y] BY <1>1, <1>2, <1>4
  <2>2. "running" \in Pc BY DEF Pc
  <2>3. y \in Client BY <1>1, <2>2 DEF Client
  <2>4. /\ y.pc = "running" /\ y.req = x.req /\ y.answer = x.answer /\ y.verdict = x.verdict /\ y.ran = TRUE
        /\ y.err = x.err /\ y.status = x.status
    BY <1>1 DEF Client
  <2> HIDE DEF y
  <2>5. Moves(h) /\ client'[h] = y BY <1>1, <2>1, <2>3 DEF Moves
  <2>6. sessions' = sessions \/ sessions' = sessions \cup {h} BY <2>4, <2>5
  <2>7. Agreed
    <3>1. conf.relay.cookieName = conf.cookie.cookieName
      <4>1. Origin(x.answer, s.cookieName) # {} BY <1>4
      <4> QED BY <1>1, <4>1, HelperOrigin
    <3>2. (IF conf.helper.version = "CORP_RELAY" THEN "CORP_RELAY" ELSE "CORP_RELAY_V4") \in conf.relay.versions
      BY <1>1 DEF ClientInv, Chosen, Paths
    <3>3. ~WantsCert(conf.relay.server.tls)
      <4>1. buildConfig(conf.helper) # {} /\ conf \in Deployments BY <1>1 DEF ClientInv, Requested, Shape
      <4>2. cfg.relayTransport.tls \in TlsConfig BY <4>1, CfgFacts DEF HttpTransport
      <4>3. PICK z \in proc["relay"], t \in DialerTLS : Handshake(z.tls, t) OBVIOUS
      <4> QED BY <1>1, <4>2, <4>3, DialerFacts DEF DialerTLS
    <3> QED BY <3>1, <3>2, <3>3 DEF Agreed
  <2>8. x.verdict = "granted" BY <1>1 DEF ClientInv, Progress, Answered
  <2>9. Requested(h)' BY <1>1, <2>4, <2>5 DEF ClientInv, Requested
  <2>10. Answered(h)' BY <1>1, <2>4, <2>5 DEF ClientInv, Answered, CookiesFor
  <2>11. Progress(h)' BY <1>1, <2>4, <2>5, <2>8 DEF ClientInv, Progress
  <2>12. Agreed' BY <2>7 DEF Agreed
  <2>13. Chosen(h)' BY <2>4, <2>5, <2>12 DEF Chosen
  <2>14. Fits' <=> Fits BY DEF Fits, AsDocumented
  <2>15. Expected(h)' BY <1>1, <2>4, <2>5, <2>14 DEF ClientInv, Expected, NotToBlame
  <2>16. ClientInv(h)' BY <2>9, <2>10, <2>11, <2>13, <2>15 DEF ClientInv
  <2>17. sessions' \subseteq Clients /\ \A d \in Clients \ {h} : d \in sessions' => d \in sessions BY <1>1, <2>6
  <2> QED BY <1>1, <2>5, <2>16, <2>17, OneMoves
<1> QED BY <1>3, <1>4

\* When the messages fit, what the helper asks of the relay is in order.
LEMMA HelperRequests ==
    ASSUME Shape, NEW h \in Helpers, ClientInv(h), Fits
    PROVE  /\ client[h].pc = "proxy" =>
                Request(h, "/proxy", NewClient(cfg.relayTransport), ProxyNew(proxyURL)) \in {"down", ErrNone}
           /\ client[h].pc = "connect" =>
                Request(h, "/connect", DialerTLS, ConnectNew(connectURL(h))) \in {"down", ErrNone}
           /\ client[h].pc = "v4" =>
                Request(h, "/v4/connect", DialerTLS, TRUE) \in {"down", ErrNone}
<1>1. client[h].pc \in {"proxy", "connect", "v4"} => client[h].answer.to = conf.backend.relayAddr
  BY DEF ClientInv, Progress, Answered
<1>2. /\ conf.helper.version \in {"CORP_RELAY", "CORP_RELAY_V4"} \cap conf.relay.versions
      /\ conf.helper.host # "" /\ conf.helper.port # ""
  BY DEF Fits, AsDocumented
<1>3. cfg.host = conf.helper.host /\ cfg.port = conf.helper.port BY CookieFits, CfgFacts DEF Shape
<1>4. ProxyNew(proxyURL) = TRUE BY <1>2, <1>3 DEF ProxyNew, proxyURL
<1>5. ConnectNew(connectURL(h)) = TRUE BY DEF ConnectNew, connectURL, Malformed
<1>6. /\ client[h].pc = "proxy" => "/proxy" \in Paths(conf.relay.versions)
      /\ client[h].pc = "connect" => "/connect" \in Paths(conf.relay.versions)
      /\ client[h].pc = "v4" => "/v4/connect" \in Paths(conf.relay.versions)
  BY <1>2 DEF ClientInv, Chosen, Paths
<1> QED BY <1>1, <1>4, <1>5, <1>6, RelayFits

\* What can go wrong before and after Manager.New.
LEMMA OpenSessionFails ==
    ASSUME Inv, NEW h \in Helpers, client[h].pc \in {"proxy", "v4"}, UNCHANGED <<conf, proc, crashes>>,
           NEW e \in Errors, Fits => e \in {"down", ErrNone},
           \/ e # ErrNone /\ Fail(h, e) /\ UNCHANGED sessions
           \/ \E s \in proc["relay"] :
                \/ Origin(client[h].answer, s.cookieName) = {} /\ Fail(h, "origin") /\ UNCHANGED sessions
                \/ Fail(h, "dial") /\ UNCHANGED sessions
                \/ Fail(h, "limit") /\ UNCHANGED sessions
                \/ Fail(h, "lost") /\ sessions' = sessions \cup {h}
    PROVE  Inv'
<1>1. Shape /\ ClientInv(h) /\ h \in Clients BY DEF Inv, Clients
<1>2. "origin" \in Errors /\ \A x \in {"dial", "limit", "lost", "down"} : x \in Errors /\ x \in ErrOut
  BY DEF Errors, ErrOut, ErrConf
<1>3. CASE e # ErrNone /\ Fail(h, e) /\ UNCHANGED sessions
  <2>1. Fits => e \in ErrOut BY <1>2, <1>3
  <2> QED BY <1>1, <1>3, <2>1, FailStep
<1>4. ASSUME NEW s \in proc["relay"], Origin(client[h].answer, s.cookieName) = {}, Fail(h, "origin"), UNCHANGED sessions
      PROVE  Inv'
  <2>1. ~Fits BY <1>1, <1>4, HelperOrigin
  <2> QED BY <1>1, <1>2, <1>4, <2>1, FailStep
<1>5. CASE Fail(h, "dial") /\ UNCHANGED sessions BY <1>1, <1>2, <1>5, FailStep
<1>6. CASE Fail(h, "limit") /\ UNCHANGED sessions BY <1>1, <1>2, <1>6, FailStep
<1>7. CASE Fail(h, "lost") /\ sessions' = sessions \cup {h} BY <1>1, <1>2, <1>7, FailStep
<1> QED BY <1>3, <1>4, <1>5, <1>6, <1>7

\* /proxy.
LEMMA ProxyStep == ASSUME Inv, NEW h \in Helpers, Proxy(h) PROVE Inv'
<1> DEFINE x == client[h]
           e == Request(h, "/proxy", NewClient(cfg.relayTransport), ProxyNew(proxyURL))
<1>1. Shape /\ ClientInv(h) /\ sessions \subseteq Clients /\ h \in Clients BY DEF Inv, Shape, Clients
<1>2. x.pc = "proxy" /\ UNCHANGED <<conf, proc, crashes>> BY DEF Proxy, OpenSession
<1>3. e \in Errors BY <1>1, RequestFacts DEF RelayPaths
<1>4. Fits => e \in {"down", ErrNone} BY <1>1, <1>2, HelperRequests
<1>5. \/ \/ e # ErrNone /\ Fail(h, e) /\ UNCHANGED sessions
         \/ \E s \in proc["relay"] :
                \/ Origin(x.answer, s.cookieName) = {} /\ Fail(h, "origin") /\ UNCHANGED sessions
                \/ Fail(h, "dial") /\ UNCHANGED sessions
                \/ Fail(h, "limit") /\ UNCHANGED sessions
                \/ Fail(h, "lost") /\ sessions' = sessions \cup {h}
      \/ Goto(h, "connect") /\ sessions' = sessions \cup {h}
  BY DEF Proxy, OpenSession
<1> HIDE DEF e
<1>6. CASE Goto(h, "connect") /\ sessions' = sessions \cup {h}
  <2>1. "connect" \in Pc BY DEF Pc
  <2>2. /\ Moves(h)
        /\ client'[h].pc = "connect" /\ client'[h].req = x.req /\ client'[h].answer = x.answer
        /\ client'[h].verdict = x.verdict /\ client'[h].ran = x.ran
        /\ client'[h].err = x.err /\ client'[h].status = x.status
    BY <1>1, <1>6, <2>1, GotoFacts
  <2>3. Requested(h)' BY <1>1, <1>2, <2>2 DEF ClientInv, Requested
  <2>4. Answered(h)' BY <1>1, <1>2, <2>2 DEF ClientInv, Answered, CookiesFor
  <2>5. x.verdict = "granted" BY <1>1, <1>2 DEF ClientInv, Answered, Progress
  <2>6. Progress(h)' BY <1>1, <1>2, <2>2, <2>5 DEF ClientInv, Progress
  <2>7. Chosen(h)' BY <1>1, <1>2, <2>2 DEF ClientInv, Chosen, Progress
  <2>8. Fits' <=> Fits BY <1>2 DEF Fits, AsDocumented
  <2>9. Expected(h)' BY <1>1, <2>2, <2>8 DEF ClientInv, Expected, NotToBlame
  <2>10. ClientInv(h)' BY <2>3, <2>4, <2>6, <2>7, <2>9 DEF ClientInv
  <2>11. sessions' \subseteq Clients /\ \A d \in Clients \ {h} : d \in sessions' => d \in sessions BY <1>1, <1>6
  <2> QED BY <1>1, <1>2, <2>2, <2>10, <2>11, OneMoves
<1> QED BY <1>2, <1>3, <1>4, <1>5, <1>6, OpenSessionFails

\* /v4/connect.
LEMMA ConnectV4Step == ASSUME Inv, NEW h \in Helpers, ConnectV4(h) PROVE Inv'
<1> DEFINE x == client[h]
           e == Request(h, "/v4/connect", DialerTLS, TRUE)
<1>1. Shape /\ ClientInv(h) BY DEF Inv, Clients
<1>2. x.pc = "v4" /\ UNCHANGED <<conf, proc, crashes>> BY DEF ConnectV4, OpenSession
<1>3. /\ e \in Errors
      /\ e = ErrNone =>
            /\ "/v4/connect" \in Paths(conf.relay.versions)
            /\ \E s \in proc["relay"], t \in DialerTLS : Handshake(s.tls, t)
  BY <1>1, RequestFacts DEF RelayPaths
<1>4. Fits => e \in {"down", ErrNone} BY <1>1, <1>2, HelperRequests
<1>5. \/ \/ e # ErrNone /\ Fail(h, e) /\ UNCHANGED sessions
         \/ \E s \in proc["relay"] :
                \/ Origin(x.answer, s.cookieName) = {} /\ Fail(h, "origin") /\ UNCHANGED sessions
                \/ Fail(h, "dial") /\ UNCHANGED sessions
                \/ Fail(h, "limit") /\ UNCHANGED sessions
                \/ Fail(h, "lost") /\ sessions' = sessions \cup {h}
      \/ e = ErrNone /\ Upgrade(h) /\ sessions' = sessions \cup {h}
  BY DEF ConnectV4, OpenSession
<1> HIDE DEF e
<1>6. CASE e = ErrNone /\ Upgrade(h) /\ sessions' = sessions \cup {h} BY <1>2, <1>3, <1>6, UpgradeStep
<1> QED BY <1>2, <1>3, <1>4, <1>5, <1>6, OpenSessionFails

\* /connect.
LEMMA ConnectStep == ASSUME Inv, NEW h \in Helpers, Connect(h) PROVE Inv'
<1> DEFINE x == client[h]
           e == Request(h, "/connect", DialerTLS, ConnectNew(connectURL(h)))
<1>1. Shape /\ ClientInv(h) /\ h \in Clients BY DEF Inv, Clients
<1>2. x.pc = "connect" /\ UNCHANGED <<conf, proc, crashes>> BY DEF Connect
<1>3. /\ e \in Errors
      /\ e = ErrNone =>
            /\ "/connect" \in Paths(conf.relay.versions)
            /\ \E s \in proc["relay"], t \in DialerTLS : Handshake(s.tls, t)
  BY <1>1, RequestFacts DEF RelayPaths
<1>4. Fits => e \in {"down", ErrNone} BY <1>1, <1>2, HelperRequests
<1>5. \/ e # ErrNone /\ Fail(h, e) /\ UNCHANGED sessions
      \/ Fail(h, "expired") /\ UNCHANGED sessions
      \/ /\ e = ErrNone /\ Upgrade(h)
         /\ sessions' = IF client'[h].pc = "running" THEN sessions ELSE sessions \ {h}
      \/ Fail(h, "lost") /\ sessions' = sessions \ {h}
  BY DEF Connect
<1> HIDE DEF e
<1>6. \A y \in {"expired", "lost", "down"} : y \in Errors /\ y \in ErrOut BY DEF Errors, ErrOut, ErrConf
<1>7. CASE e # ErrNone /\ Fail(h, e) /\ UNCHANGED sessions
  <2>1. Fits => e \in ErrOut BY <1>4, <1>6, <1>7
  <2> QED BY <1>1, <1>2, <1>3, <1>7, <2>1, FailStep
<1>8. CASE Fail(h, "expired") /\ UNCHANGED sessions BY <1>1, <1>2, <1>6, <1>8, FailStep
<1>9. CASE /\ e = ErrNone /\ Upgrade(h)
           /\ sessions' = IF client'[h].pc = "running" THEN sessions ELSE sessions \ {h}
  BY <1>2, <1>3, <1>9, UpgradeStep
<1>10. CASE Fail(h, "lost") /\ sessions' = sessions \ {h} BY <1>1, <1>2, <1>6, <1>10, FailStep
<1> QED BY <1>5, <1>7, <1>8, <1>9, <1>10

\* A session ends.
LEMMA RunEndsStep == ASSUME Inv, NEW h \in Helpers, RunEnds(h) PROVE Inv'
<1> DEFINE x == client[h]
<1>1. /\ Shape /\ ClientInv(h) /\ sessions \subseteq Clients /\ h \in Clients
      /\ client \in [Clients -> Client] /\ x \in Client
  BY DEF Inv, Shape, Clients
<1>2. /\ x.pc = "running" /\ UNCHANGED <<conf, proc, crashes>>
      /\ sessions' = sessions \/ sessions' = sessions \ {h}
  BY DEF RunEnds
<1>3. PICK u \in {0, 1} : client' = [client EXCEPT ![h].pc = "exit", ![h].status = u] BY DEF RunEnds
<1> DEFINE y == [x EXCEPT !.pc = "exit", !.status = u]
<1>4. client' = [client EXCEPT ![h] = y] BY <1>1, <1>3
<1>5. "exit" \in Pc BY DEF Pc
<1>6. y \in Client BY <1>1, <1>5 DEF Client
<1>7. /\ y.pc = "exit" /\ y.req = x.req /\ y.answer = x.answer /\ y.verdict = x.verdict /\ y.ran = x.ran
      /\ y.err = x.err /\ y.status = u
  BY <1>1 DEF Client
<1> HIDE DEF y
<1>8. Moves(h) /\ client'[h] = y BY <1>1, <1>4, <1>6 DEF Moves
<1>9. Requested(h)' BY <1>1, <1>2, <1>7, <1>8 DEF ClientInv, Requested
<1>10. Answered(h)' BY <1>1, <1>2, <1>7, <1>8 DEF ClientInv, Answered, CookiesFor
<1>11. Progress(h)' BY <1>1, <1>2, <1>7, <1>8 DEF ClientInv, Progress
<1>12. Chosen(h)' BY <1>1, <1>2, <1>7, <1>8 DEF ClientInv, Chosen, Agreed
<1>13. Fits' <=> Fits BY <1>2 DEF Fits, AsDocumented
<1>14. Expected(h)' BY <1>1, <1>7, <1>8, <1>13 DEF ClientInv, Expected, NotToBlame
<1>15. ClientInv(h)' BY <1>9, <1>10, <1>11, <1>12, <1>14 DEF ClientInv
<1> QED BY <1>1, <1>2, <1>8, <1>15, OneMoves

\* A request or a reply is lost.
LEMMA LoseStep == ASSUME Inv, NEW c \in Clients, Lose(c) PROVE Inv'
<1>1. "lost" \in Errors /\ "lost" \in ErrOut BY DEF Errors, ErrOut
<1> QED BY <1>1, FailStep DEF Lose

-----------------------------------------------------------------------------
(***************************************************************************)
(* The steps of the servers.                                               *)
(***************************************************************************)

\* A session reaches its deadline.
LEMMA ExpireStep == ASSUME Inv, NEW c \in Clients, Expire(c) PROVE Inv'
<1>1. UNCHANGED <<conf, proc, client, crashes>> /\ sessions' = sessions \ {c} BY DEF Expire
<1>2. \A p \in Process : Main(p)' = Main(p) BY <1>1 DEF Main
<1>3. Shape' BY <1>1, <1>2 DEF Inv, Shape
<1>4. \A d \in Clients : ClientInv(d)' BY <1>1, Frame DEF Inv
<1> QED BY <1>3, <1>4 DEF Inv

\* A client that is not a helper opens a session, which is not a helper's.
LEMMA OthersConnectStep == ASSUME Inv, NEW b \in Browsers, OthersConnect(b) PROVE Inv'
<1>1. UNCHANGED <<conf, proc, client, crashes>> /\ sessions' = sessions \cup {b} BY DEF OthersConnect
<1>2. \A p \in Process : Main(p)' = Main(p) BY <1>1 DEF Main
<1>3. b \in Clients /\ b \notin Helpers BY BoundAssumption DEF Clients
<1>4. Shape' BY <1>1, <1>2, <1>3 DEF Inv, Shape
<1>5. \A d \in Clients : d \in sessions' \cap Helpers => d \in sessions BY <1>1, <1>3
<1>6. \A d \in Clients : ClientInv(d)' BY <1>1, <1>5, Frame DEF Inv
<1> QED BY <1>4, <1>6 DEF Inv

\* A server starts, with what it had before, if it ran before.
LEMMA StartStep == ASSUME Inv, NEW p \in Process, Start(p) PROVE Inv'
<1>1. UNCHANGED <<conf, sessions, client, crashes>> /\ proc' = [proc EXCEPT ![p] = Main(p)] BY DEF Start
<1>2. \A z \in Process : Main(z)' = Main(z) BY <1>1 DEF Main
<1>3. Shape' BY <1>1, <1>2 DEF Inv, Shape
<1>4. \A d \in Clients : ClientInv(d)' BY <1>1, Frame DEF Inv
<1> QED BY <1>3, <1>4 DEF Inv

\* A server crashes, with its sessions and the requests under way.
LEMMA CrashStep == ASSUME Inv, NEW p \in Process, Crash(p) PROVE Inv'
<1> DEFINE at == CASE p = "relay" -> "running" [] p = "cookie" -> "rpc" [] OTHER -> "none"
           Gone(x) == [x EXCEPT !.pc = "exit", !.err = "down", !.status = 1]
<1>1. /\ conf' = conf /\ proc' = [proc EXCEPT ![p] = {}] /\ crashes < MaxCrashes /\ crashes' = crashes + 1
      /\ sessions' = sessions \/ sessions' = {}
      /\ client' = [c \in Clients |-> IF client[c].pc = at THEN Gone(client[c]) ELSE client[c]]
  BY DEF Crash
<1>2. at \in {"running", "rpc", "none"} OBVIOUS
<1> HIDE DEF at
<1>3. Shape /\ sessions \subseteq Clients /\ client \in [Clients -> Client] /\ crashes \in 0..MaxCrashes
  BY DEF Inv, Shape
<1>4. "exit" \in Pc /\ "down" \in Errors BY DEF Pc, Errors, ErrOut
<1>5. ASSUME NEW x \in Client
      PROVE  /\ Gone(x) \in Client
             /\ Gone(x).pc = "exit" /\ Gone(x).req = x.req /\ Gone(x).answer = x.answer
             /\ Gone(x).verdict = x.verdict /\ Gone(x).ran = x.ran /\ Gone(x).err = "down" /\ Gone(x).status = 1
  BY <1>4 DEF Client
<1> HIDE DEF Gone
<1>6. client' \in [Clients -> Client] BY <1>1, <1>3, <1>5
<1>7. \A z \in Process : Main(z)' = Main(z) BY <1>1 DEF Main
<1>8. crashes' \in 0..MaxCrashes BY <1>1, <1>3, BoundAssumption
<1>9. Shape' BY <1>1, <1>3, <1>6, <1>7, <1>8 DEF Shape
<1>10. ASSUME NEW c \in Clients PROVE ClientInv(c)'
  <2>1. ClientInv(c) /\ client[c] \in Client /\ (c \in sessions' => c \in sessions) BY <1>1, <1>3 DEF Inv
  <2>2. CASE client[c].pc # at
    <3>1. client'[c] = client[c] BY <1>1, <2>2
    <3> QED BY <1>1, <2>1, <3>1, Frame
  <2>3. CASE client[c].pc = at
    <3>1. client'[c] = Gone(client[c]) BY <1>1, <2>3
    <3>2. /\ client'[c].pc = "exit" /\ client'[c].req = client[c].req /\ client'[c].answer = client[c].answer
          /\ client'[c].verdict = client[c].verdict /\ client'[c].ran = client[c].ran
          /\ client'[c].err = "down" /\ client'[c].status = 1
      BY <1>5, <2>1, <3>1
    <3>3. Requested(c)' BY <2>1, <3>2 DEF ClientInv, Requested
    <3>4. Answered(c)'
      <4>1. conf' = conf BY <1>1
      <4>2. Answered(c) BY <2>1 DEF ClientInv
      <4> QED BY <3>2, <4>1, <4>2 DEF Answered, CookiesFor
    <3>5. Progress(c)' BY <2>1, <3>2 DEF ClientInv, Progress
    <3>6. Chosen(c)' BY <1>1, <2>1, <3>2 DEF ClientInv, Chosen, Agreed
    <3>7. Expected(c)' BY <3>2 DEF Expected, NotToBlame, ErrOut
    <3> QED BY <3>3, <3>4, <3>5, <3>6, <3>7 DEF ClientInv
  <2> QED BY <2>2, <2>3
<1> QED BY <1>9, <1>10 DEF Inv

-----------------------------------------------------------------------------
\* No server runs and no client has done anything.
LEMMA InitInv == Init => Inv
<1> SUFFICES ASSUME Init PROVE Inv OBVIOUS
<1> USE DEF Init
<1>1. Shape
  <2>1. client \in [Clients -> Client]
    <3>1. ASSUME NEW c \in Clients PROVE client[c] \in Client
      <4>1. "start" \in Pc /\ "absent" \in Pc /\ ErrNone \in Errors BY DEF Pc, Errors
      <4>2. client[c].pc \in Pc BY <4>1
      <4>3. client[c] = [pc |-> client[c].pc, req |-> {}, answer |-> Unwritten, verdict |-> "none", ran |-> FALSE,
                         err |-> ErrNone, status |-> -1]
        OBVIOUS
      <4> HIDE DEF Init
      <4>4. ASSUME NEW p \in Pc, NEW e \in Errors, NEW w \in Answers
            PROVE  [pc |-> p, req |-> {}, answer |-> w, verdict |-> "none", ran |-> FALSE, err |-> e, status |-> -1]
                        \in Client
        BY DEF Client
      <4>5. Unwritten \in Answers BY EmptyAnswers
      <4> QED BY <4>1, <4>2, <4>3, <4>4, <4>5
    <3> QED BY <3>1
  <2>2. 0 \in 0..MaxCrashes BY BoundAssumption
  <2> QED BY <2>1, <2>2 DEF Shape
<1>2. ASSUME NEW c \in Clients PROVE ClientInv(c)
  <2>1. /\ client[c].pc \in {"start", "absent"} /\ client[c].req = {} /\ client[c].answer = Unwritten
        /\ client[c].verdict = "none" /\ client[c].ran = FALSE /\ client[c].err = ErrNone
        /\ client[c].status = -1 /\ sessions = {}
    OBVIOUS
  <2> HIDE DEF Init
  <2>2. Requested(c) BY <2>1 DEF Requested
  <2>3. Answered(c) BY <2>1, EmptyAnswers DEF Answered
  <2>4. Progress(c) BY <2>1 DEF Progress
  <2>5. Chosen(c) BY <2>1 DEF Chosen
  <2>6. Expected(c) BY <2>1 DEF Expected, NotToBlame
  <2> QED BY <2>2, <2>3, <2>4, <2>5, <2>6 DEF ClientInv
<1> QED BY <1>1, <1>2 DEF Inv

\* Every step keeps the invariant.
LEMMA NextInv == Inv /\ [Next]_vars => Inv'
<1> SUFFICES ASSUME Inv, [Next]_vars PROVE Inv' OBVIOUS
<1>1. CASE UNCHANGED vars
  <2>1. UNCHANGED <<conf, proc, sessions, client, crashes>> BY <1>1 DEF vars
  <2>2. \A p \in Process : Main(p)' = Main(p) BY <2>1 DEF Main
  <2>3. Shape' BY <2>1, <2>2 DEF Inv, Shape
  <2>4. \A d \in Clients : ClientInv(d)' BY <2>1, Frame DEF Inv
  <2> QED BY <2>3, <2>4 DEF Inv
<1>2. ASSUME NEW h \in Helpers, Helper(h) PROVE Inv'
  BY <1>2, AuthenticateStep, ReadAnswerStep, ProxyStep, ConnectStep, ConnectV4Step DEF Helper
<1>3. ASSUME NEW h \in Helpers, RunEnds(h) PROVE Inv' BY <1>3, RunEndsStep
<1>4. ASSUME NEW b \in Browsers, BrowserAsks(b) \/ OthersConnect(b) PROVE Inv'
  BY <1>4, BrowserAsksStep, OthersConnectStep
<1>5. ASSUME NEW c \in Clients, CookieReplies(c) \/ Lose(c) \/ Expire(c) PROVE Inv'
  BY <1>5, CookieRepliesStep, LoseStep, ExpireStep
<1>6. ASSUME NEW p \in Process, Start(p) \/ Crash(p) PROVE Inv' BY <1>6, StartStep, CrashStep
<1> QED BY <1>1, <1>2, <1>3, <1>4, <1>5, <1>6 DEF Next

\* The inductive invariant holds of every deployment.
THEOREM Invariance == Spec => []Inv
  BY InitInv, NextInv, PTL DEF Spec

\* Every variable has its type: no query gets a version that is no int32, and
\* no main function makes two servers of its messages.
THEOREM TypeCorrect == Spec => []TypeOK
<1>1. Inv => TypeOK
  <2> SUFFICES ASSUME Inv PROVE TypeOK OBVIOUS
  <2>1. Shape /\ client \in [Clients -> Client] /\ conf \in Deployments BY DEF Inv, Shape
  <2>2. conf.clients \subseteq Clients BY <2>1, ConfFacts
  <2>3. ASSUME NEW p \in Process PROVE Cardinality(proc[p]) <= 1 /\ \A s \in proc[p] : s.tls \in Settings
    <3>1. CASE proc[p] = {} BY <3>1, FS_EmptySet
    <3>2. CASE proc[p] # {}
      <4>1. PICK s \in proc[p] : proc[p] = {s} /\ s.tls \in Settings BY <2>1, <3>2, ProcFacts
      <4>2. Cardinality(proc[p]) = 1 BY <4>1, FS_Singleton
      <4> QED BY <4>1, <4>2
    <3> QED BY <3>1, <3>2
  <2>4. ASSUME NEW c \in Clients
        PROVE  /\ client[c].pc \in Pc
               /\ \A r \in client[c].req : r.version \in 0..(VersionMod - 1) /\ r.method \in Method
               /\ client[c].verdict \in {"none", "refused", "granted"} /\ client[c].ran \in BOOLEAN
               /\ client[c].err \in Errors /\ client[c].status \in {-1, 0, 1}
    <3>1. client[c] \in Client BY <2>1
    <3>2. client[c].req \subseteq Requests BY <3>1 DEF Client
    <3> QED BY <3>1, <3>2 DEF Client, Requests
  <2>5. DOMAIN client = Clients BY <2>1
  <2> QED BY <2>1, <2>2, <2>3, <2>4, <2>5 DEF TypeOK, Shape, Pc, Errors
<1> QED BY <1>1, Invariance, PTL

\* A helper has a session at the relay only if the backend has authorized it,
\* whatever sessions other clients open there.
THEOREM SessionsAuthorized == Spec => []SessionWasAuthorized
<1>1. Inv => SessionWasAuthorized BY DEF Inv, ClientInv, Progress, SessionWasAuthorized, Clients
<1> QED BY <1>1, Invariance, PTL

\* Agent.Run's exit status of 0 is earned, or a connection was lost on the way
\* to a session.
THEOREM StatusEarned == Spec => []ZeroMeansRan
<1>1. Inv => ZeroMeansRan BY DEF Inv, ClientInv, Progress, ZeroMeansRan, Clients
<1> QED BY <1>1, Invariance, PTL

\* Whatever the two files say: the relay finds the origin of every client that
\* was sent on, if they give the cookie one name that net/http takes, and no
\* cookie otherwise; a client that is not sent on has none.
THEOREM EndpointsHaveCookies == Spec => []CookieWithEndpoint
<1>1. Inv => CookieWithEndpoint
  <2> SUFFICES ASSUME Inv, NEW c \in Clients
               PROVE  /\ client[c].answer.to = Nowhere => client[c].answer.cookies = {}
                      /\ client[c].answer.to # Nowhere =>
                            Origin(client[c].answer, conf.relay.cookieName) =
                                IF conf.relay.cookieName = conf.cookie.cookieName /\ conf.cookie.cookieName \in Tokens
                                THEN {ExtOrigin(r.ext) : r \in client[c].req} ELSE {}
    BY DEF CookieWithEndpoint
  <2>1. ClientInv(c) BY DEF Inv
  <2>2. client[c].answer.to = Nowhere => client[c].answer.cookies = {} BY <2>1 DEF ClientInv, Answered
  <2> QED BY <2>1, <2>2, OriginFacts
<1> QED BY <1>1, Invariance, PTL

\* Every query is answered in its version and, by the example backend, in its
\* method, for any width of the version.
THEOREM AnswersFit == Spec => []AnswerFits
<1>1. Inv => AnswerFits
  <2> SUFFICES ASSUME Inv, NEW c \in Clients, NEW r \in client[c].req
               PROVE  /\ r.version = 1 <=> r.method = "HTTP_REDIRECT"
                      /\ conf.backend.example /\ client[c].answer.cookies # {} =>
                            client[c].answer.body = BodyFor(r.method)
    BY DEF AnswerFits, BodyFor
  <2> QED BY DEF Inv, ClientInv, Requested, Answered
<1> QED BY <1>1, Invariance, PTL

\* A session that came to run shows that the operators' files agree.
THEOREM RunningAgrees == Spec => []RanMeansAgreed
<1>1. Inv => RanMeansAgreed BY DEF Inv, ClientInv, Chosen, Agreed, RanMeansAgreed, Clients
<1> QED BY <1>1, Invariance, PTL

\* Configurations that fit, as their comments describe it, connect: whatever
\* the deployment, no helper fails for a reason that lies in them.
THEOREM FittingConnects == Spec => []DocumentedConnects
<1>1. Inv => DocumentedConnects BY DEF Inv, ClientInv, Expected, Fits, DocumentedConnects, Clients
<1> QED BY <1>1, Invariance, PTL
=============================================================================
