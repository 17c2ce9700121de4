---------------------------- MODULE MCDeployment ----------------------------
(***************************************************************************)
(* Deployment for TLC: one deployment that works, and what operators       *)
(* change about it.                                                        *)
(***************************************************************************)
EXTENDS Deployment

CONSTANTS h1, h2, b1

Tls      == [nil |-> FALSE, mode |-> "UNSPECIFIED", auth |-> "CLIENT_AUTH_TYPE_UNSPECIFIED",
             keyPair |-> TRUE, cas |-> TRUE]
NoTls    == UnsetTls
TlsOff   == [Tls EXCEPT !.mode = "DISABLED", !.keyPair = FALSE]
TlsOpen  == [Tls EXCEPT !.auth = "NO_CLIENT_CERT"]
TlsBad   == {[Tls EXCEPT !.auth = "7"], [Tls EXCEPT !.keyPair = FALSE], [Tls EXCEPT !.cas = FALSE], NoTls}

Addr(h, p)   == [host |-> h, port |-> p]
Options(t)   == [nil |-> FALSE, addrHasPort |-> FALSE, port |-> "", tls |-> t, durations |-> {0}]
Transport(t) == [nil |-> FALSE, tls |-> t, timeout |-> 0]
Unset        == [Transport(NoTls) EXCEPT !.nil = TRUE]

Base ==
    [clients |-> {h1},
     relay   |-> [server |-> Options(TlsOpen), maxAge |-> 1, cookieName |-> "origin",
                  versions |-> {"CORP_RELAY", "CORP_RELAY_V4"}, maxSessions |-> 1],
     cookie  |-> [server |-> Options(Tls), cookieName |-> "origin", maxAge |-> 1,
                  grpc |-> [addr |-> Addr("backend", "50051"), tls |-> Tls]],
     backend |-> [grpc |-> [nil |-> FALSE, addr |-> Addr("backend", "50051"), tls |-> Tls],
                  example |-> TRUE, relayAddr |-> Addr("relay", "")],
     helper  |-> [host |-> "host", port |-> "22", addr |-> Addr("cookie", ""), transport |-> Transport(Tls),
                  relayTransport |-> Unset, version |-> "CORP_RELAY"]]

Version == {"UNSPECIFIED", "CORP_RELAY", "CORP_RELAY_V4", "SSH_FE"}

RelayVariants(d) ==
    {[d EXCEPT !.relay.server = o] : o \in
        {Options(t) : t \in {Tls, TlsOff} \cup TlsBad}
            \cup {[Options(TlsOpen) EXCEPT !.nil = TRUE], [Options(TlsOpen) EXCEPT !.addrHasPort = TRUE],
                  [Options(TlsOpen) EXCEPT !.port = "443"], [Options(TlsOpen) EXCEPT !.durations = {0, -1}]}}
    \cup {[d EXCEPT !.relay.maxAge = -1], [d EXCEPT !.relay.cookieName = "other"], [d EXCEPT !.relay.cookieName = ""],
          [d EXCEPT !.relay.maxSessions = 0]}
    \cup {[d EXCEPT !.relay.versions = v] : v \in {{}, {"UNSPECIFIED"}, {"CORP_RELAY"}, {"CORP_RELAY_V4"}}}

CookieVariants(d) ==
    {[d EXCEPT !.cookie.server = Options(t)] : t \in {TlsOpen, TlsOff, NoTls}}
    \cup {[d EXCEPT !.cookie.cookieName = ""], [d EXCEPT !.cookie.cookieName = "no token"],
          [d EXCEPT !.cookie.cookieName = "no token", !.relay.cookieName = "no token"], [d EXCEPT !.cookie.maxAge = -1]}
    \cup {[d EXCEPT !.cookie.grpc.tls = t] : t \in {TlsOff, NoTls}}

BackendVariants(d) ==
    {[d EXCEPT !.backend.example = FALSE], [d EXCEPT !.backend.grpc.nil = TRUE],
     [d EXCEPT !.backend.grpc.tls = TlsOff, !.cookie.grpc.tls = TlsOff]}
    \cup {[d EXCEPT !.backend.relayAddr = a] : a \in {Nowhere, Addr("elsewhere", ""), Addr("relay", "443"), Addr("cookie", "")}}

HelperVariants(d) ==
    {[d EXCEPT !.helper.version = v] : v \in Version}
    \cup {[d EXCEPT !.helper.transport = t] : t \in {Unset, Transport(TlsOff), [Transport(Tls) EXCEPT !.timeout = -1]}}
    \cup {[d EXCEPT !.helper.relayTransport = t] : t \in {Transport(Tls), Transport(TlsOff), Transport(NoTls)}}
    \cup {[d EXCEPT !.helper.host = ""]}
    \cup {[d EXCEPT !.helper.addr = a] : a \in {Nowhere, Addr("cookie", "443"), Addr("relay", "")}}

\* One variant of a server with one of the helper; two helpers, or a helper and
\* a browser, where everything fits; a browser where the Cookie Server differs.
MCDeployments ==
    LET V1 == Base
        V4 == [Base EXCEPT !.helper.version = "CORP_RELAY_V4"]
    IN  UNION {HelperVariants(d) : d \in RelayVariants(V1) \cup CookieVariants(V1) \cup BackendVariants(V1)}
            \cup HelperVariants(V4)
            \cup {[d EXCEPT !.clients = {h1, h2}] : d \in {V1, V4}}
            \cup {[V1 EXCEPT !.clients = {h1, b1}]}
            \cup {[d EXCEPT !.clients = {b1}] : d \in CookieVariants(V1) \cup BackendVariants(V1)}

\* Everything as the documentation has it, and the default client_auth_type.
DefaultAuth == {[Base EXCEPT !.relay.server = Options(Tls), !.helper.version = v] : v \in {"CORP_RELAY", "CORP_RELAY_V4"}}

\* Versions about the largest int32, and every method.
MCQueries ==
    {[ext |-> "", path |-> "/", version |-> 1, method |-> ""], [ext |-> "ext", path |-> "", version |-> 1, method |-> ""]}
    \cup [ext : {"ext"}, path : {"/"},
          version : {Absent, Malformed} \cup 0..3 \cup {VersionMod, VersionMod + 1, VersionMod + 2},
          method : {"", "direct", "js-redirect", "http-redirect"}]
=============================================================================
