------------------------------ MODULE Transport ------------------------------
(***************************************************************************)
(* How the programs turn configuration messages into listeners and         *)
(* clients: packages tls, http and duration.                               *)
(*                                                                         *)
(* What may fail returns a set: one result, or none for an error.  A field *)
(* of a message that is not there (nil) has its defaults, which is what    *)
(* the getters give, and nil = TRUE.  keyPair says whether cert_file and   *)
(* key_file can be loaded, cas whether all CA files can.                   *)
(***************************************************************************)
EXTENDS Integers

UnsetTls  == [nil |-> TRUE, mode |-> "UNSPECIFIED", auth |-> "CLIENT_AUTH_TYPE_UNSPECIFIED", keyPair |-> FALSE,
              cas |-> TRUE]
TlsConfig ==
    {m \in [nil : BOOLEAN, mode : STRING, auth : STRING, keyPair : BOOLEAN, cas : BOOLEAN] : m.nil => m = UnsetTls}
HttpServerOptions ==
    [nil : BOOLEAN, addrHasPort : BOOLEAN, port : STRING, tls : TlsConfig, durations : SUBSET Int]
HttpTransport == [nil : BOOLEAN, tls : TlsConfig, timeout : Int]

clientAuthMap ==
    [CLIENT_AUTH_TYPE_UNSPECIFIED   |-> "RequireAndVerifyClientCert",
     NO_CLIENT_CERT                 |-> "NoClientCert",
     REQUEST_CLIENT_CERT            |-> "RequestClientCert",
     REQUIRE_ANY_CLIENT_CERT        |-> "RequireAnyClientCert",
     VERIFY_CLIENT_CERT_IF_GIVEN    |-> "VerifyClientCertIfGiven",
     REQUIRE_AND_VERIFY_CLIENT_CERT |-> "RequireAndVerifyClientCert"]

ClientAuthType(t) == IF t \in DOMAIN clientAuthMap THEN {clientAuthMap[t]} ELSE {}

\* One side's settings of a connection; Plain is a nil *tls.Config.
Settings == [on : BOOLEAN, auth : {clientAuthMap[t] : t \in DOMAIN clientAuthMap}, cert : BOOLEAN]
Plain    == [on |-> FALSE, auth |-> "NoClientCert", cert |-> FALSE]

\* loadCerts, for the client CAs and for the root CAs.
loadCerts(m) == m.cas

\* tls.Config does not look at the key pair.
Config(m) ==
    IF m.mode = "DISABLED" THEN {Plain}
    ELSE {[on |-> TRUE, auth |-> a, cert |-> FALSE] : a \in {t \in ClientAuthType(m.auth) : loadCerts(m)}}

\* Never called with TLS disabled.
CertConfig(m) == {[c EXCEPT !.cert = TRUE] : c \in {d \in Config(m) : m.keyPair}}

\* For an unset message LoadX509KeyPair's arguments dereference nil.
TransportCreds(m) == IF m.mode = "DISABLED" THEN {Plain} ELSE CertConfig(m)

FromProto(d) == {t \in {d} : t >= 0}

\* NewServer.  durations has the four timeouts and the HSTS age; those that are
\* not set are 0.
NewServer(o) ==
    {[port |-> o.port, tls |-> c] : c \in
        {d \in Config(o.tls) : /\ ~o.addrHasPort
                               /\ o.port # ""
                               /\ ~o.tls.nil
                               /\ \A t \in o.durations : FromProto(t) # {}}}

\* Server.Run stays in ListenAndServe or ListenAndServeTLS.
Run(o, s) == s.tls.on => o.tls.keyPair

\* http.DefaultClient verifies servers and has no certificate of its own.
DefaultClient == [on |-> TRUE, auth |-> "NoClientCert", cert |-> FALSE]

\* NewClient's settings; a client with Plain settings is one whose Transport
\* has no TLSClientConfig.
NewClient(t) ==
    IF t.tls.nil THEN {DefaultClient}
    ELSE IF FromProto(t.timeout) = {} THEN {}
    ELSE IF t.tls.mode = "DISABLED" THEN {Plain} ELSE CertConfig(t.tls)

\* Both sides use TLS or none does, and a certificate that is required is
\* there.  All certificates there are verify.
Handshake(server, client) ==
    /\ server.on = client.on
    /\ server.auth \in {"RequireAnyClientCert", "RequireAndVerifyClientCert"} => client.cert
=============================================================================
