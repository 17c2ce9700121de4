# A TLA+ verification of ssh-relay

`ssh-relay` carries SSH over WebSockets. A client authenticates against the
**Cookie Server**, is redirected to an **SSH Relay**, and the relay connects it
to an SSH server; the **helper** is a client for ssh's `ProxyCommand`. Two
versions of the relay protocol are spoken, `corp-relay@google.com` ("version 1")
and `corp-relay-v4@google.com` ("version 4").

## Inventory

| Component | State | Operations | What makes it correct |
|---|---|---|---|
| Session manager (`relay/session/manager`) | map of sessions, limit, lifetime | `New`, `Get`, `Delete`, a watcher goroutine per session | the limit holds; every slot comes back; a finished session is gone |
| Deadline (`session.SetDeadline`) | a timer goroutine per session | fires, or hears of the end | every session ends; nobody is told too early |
| Relay handlers (`relay/runner`, `relay/request/.../handler`) | one goroutine per request | `/proxy`, `/connect`, `/v4/connect` | they release what they took on every path |
| Version 1 session (`session/corprelay`) | counter `c`, mutex, SSH connection, WebSocket | `Run`, `runSSH`, `runWS`, `Close` | bytes arrive in order; the counter is right until an error; the error ack is sent |
| Version 4 session (`session/corprelayv4`) | `sid`, `rCount`, `wCount`, mutex | the same, and `wsWriter`, `recvCmd`, `readAck`, ... | bytes arrive in order; acks are true; one writer at a time |
| In-band commands (`.../command`) | none | constructors, `Write`, `Unmarshal` | `Unmarshal` inverts `Write` and accepts nothing else |
| Request parsing (`request`, `relay/request`) | none | `Origin`, `connect.New`, `proxy.New` | malformed requests leave no trace |
| Helper (`helper/...`) | configuration, cookies, one session | authenticate, `/proxy`, `/connect`, `/v4/connect`, `Run`, exit | it connects when the configurations fit, settles otherwise, and its exit status is earned |
| Cookie Server (`cookie-server/...`, `response`) | a gRPC client; one handler per request | parse, Authorize, redirect by method | the endpoint comes with the cookie that the relay looks for, in the client's protocol version, and only when authorized |
| Example backend (`cookie-server/backend/example`) | configuration | `Authorize` | it answers in the method it was asked for |
| HTTP, TLS, durations (`http`, `tls`, `duration`) | none | messages to listeners and clients | bad configurations are refused, two ends that fit connect |
| Commands (`*/cmd`) | configuration | `loadConfig`, `buildConfig`, `main` | defaults agree with those of the other programs |

**How they interact.** A handler dials the SSH server, asks the manager for a
session and (version 4, or after `/connect`) calls its `Run`. `Run` starts two
goroutines that report their first error on the unbuffered channel `errc`, and
ends with `Close`, which closes the SSH connection and sends one value on the
unbuffered channel `done`. The deadline goroutine and the manager's watcher
both receive on `done`; the deadline goroutine also calls `Close`. The handler
deletes the session afterwards, in some cases. The helper asks the Cookie Server,
which asks the backend over gRPC, and takes the relay's address and the origin
cookie out of the answer; the relay never talks to either of them, and believes
the cookie. What joins the four programs are their configurations.

**What is hard.** Who meets whom on `done`; two clients on one SID; the goroutine
that is left over after `Run`; the limit under concurrent registrations; two
goroutines (three in version 1) and one WebSocket writer; full connections; a
write that fails half way; counters that wrap, and version 1's that is loaded and
stored without a lock; a helper's second or third request
that meets another relay process, an expired session or other TLS settings than
the first. `PROJECT.json` lists each hazard at its line. Nothing is persisted: a
relay that crashes loses its sessions, and what is to be verified is that clients
notice.

## Modules

| Module | Models |
|---|---|
| `RelaySessions` | one relay process: manager, deadline and watcher goroutines, the three handlers, `Run` and `Close` of both session types, without the bytes |
| `SessionRegistry` | what the manager promises, without goroutines |
| `MCRelaySessions`, `MCCorpRelay`, `MCCorpRelayV4`, `MCDeployment` | the constants of the runs of these modules |
| `RelaySessions_proofs`, `CorpRelayV4_proofs`, `CorpRelay_proofs`, `Command_proofs`, `Deployment_proofs` | theorems about these modules |
| `CorpRelayV4` | one version 4 session, byte by byte: relay, helper, WebSocket |
| `BytePipe` | what a session promises for one direction |
| `CorpRelay` | one version 1 session, byte by byte |
| `Command` | the wire format of version 4's commands |
| `Transport` | packages `tls`, `http` and `duration`: operators, no state |
| `CookieServer` | what one `/cookie` request is answered: operators, no state |
| `Deployment` | all four programs, composed: configurations, crashes, helpers from flags to exit status |

### RelaySessions

A request `r` is a handler; its program counter `pc[r]` walks through
`connectHandle`, `proxyHandle` or `connectHandleV4`. A session is named by the
request that created it. Each lock-protected operation of the manager is one
action (`MgrNew`, `MgrNewLimit`, `MgrGet`, `ConnectDelete`, `V4Delete`,
`WatcherDelete`); a deferred call is a step of its own, in Go's order
(`ConnectCloseWs` before `ConnectDelete`, `V4Delete` before `V4CloseWs`). `Close`
is two steps, `RunClose`/`DeadlineClose` and then the rendezvous on `done`:
`HandlerToDeadline`, `HandlerToWatcher` or `DeadlineToWatcher`. The goroutines
`runSSH` and `runWS` appear as `sshG` and `wsG`: what they copy is left to the
other modules, how they end is not. `Session.ws` is a field, so a goroutine left
over from an earlier `Run` uses the latest WebSocket (`Current`). `Reject`
stands for every early return that leaves no state behind; `Refused` lists them,
each a choice, because what a request contains is not modelled. A bad origin
cookie on `/connect` is not among them: it is found after `Manager.Get`, and the
deferred `Delete` then removes the session (`UpgradeFail`).

`SessionRegistry` says: a name is registered at most once and only when there is
room; it may leave and never returns; the SSH connection of a session is open
from then on until somebody had attached to it or it was `MaxAge` old.

### CorpRelayV4 and CorpRelay

A byte is its position in the stream; a payload is an interval of positions; so
"in order, nothing lost, nothing repeated" is `out[i] = i`. `wire[e]` is what the
connection holds of what `e` has sent; a flush blocks while it holds `ChanCap`
messages. `Foreign` is a set of sets of endpoints, one of which a behaviour
chooses: with `{}` both ends run this code, an endpoint in the set may be any
peer that sends any command (`ForeignSend`) and has at most `ForeignCap`
messages under way. `Faults` says what may fail: the WebSocket at any time
(`"link"`), the SSH connection of an endpoint, which may end or fail half way
through a write (the endpoint's name), and the relay's SSH connection when its
deadline closes it (`"deadline"`).

In version 4 every message is sent under `mu` (`Lock`, then `Send`). In version 1
`Run` sends its error ack with no lock while `runSSH` may be sending: gorilla's
`NextWriter` closes the message that is open (`NextWriter`, `Flush`,
`CloseMessage` are gorilla's, modelled from its use here), and panics when it
finds a flush under way (`SshPanics` ends the process, `RunPanics` runs the
deferred calls). The atomic steps are gorilla's calls and each load and each
store of `c`: `incCounter` is `CountLoad` and `CountStore`, `Run`'s `|=` is
`RunLoad` and `RunMask`, and no lock is taken around them, so that either
goroutine may overwrite what the other has stored in between.

`Close` is two steps here, too: `RunClose` closes the SSH connection and
`RunSend` waits until somebody receives on `done`. At the relay these are the
deadline's goroutine and the manager's watcher, each once (`deadline`,
`watcher`). The deadline may instead fire (`DeadlineClose`, `DeadlineSend`) and
take the watcher, and then `Run` never gets past its `Close` (`CloseBlocked`) and
its caller never closes the WebSocket. At the helper a goroutine of the agent
receives, and nobody else sends.

Both show each direction to implement `BytePipe`; a version 1 sender is never
told what has come out, because `readAck` only looks at the error bits.

### Command

All messages up to a length, and all commands, for small field sizes; the sizes
are constants, the tags are the real ones. Acks are two bytes wide, so that the
order of bytes matters. `Uint` and `PutUint` are encoding/binary's big endian,
as recursive functions on the bytes.

### Transport, CookieServer and Deployment

An operation that may fail with an error returns a set, empty for the error.
`Transport` reduces a TLS configuration to what decides a handshake: is TLS on,
which client certificate does the server want, does the client have one
(`Settings`). `tls.Config` never loads the key pair, `CertConfig` does.
`TlsConfig`, `HttpTransport`, `RelayConfig` and the other message types say which
fields a message has and which values they take; a message that is not set
(`UnsetTls`) reads as its defaults, as protobuf's getters do on nil.

`CookieServer` follows `/cookie` through `cookie.New` (the version is compared
as a `uint` and then kept as an `int32`, `Int32`), `handler.New`, and the three
ways to redirect. An answer is a record of its code, the cookies, the kind of
body and where it sends the client; an error after the call of Authorize writes
nothing, which net/http makes a 200 with an empty body (`Unwritten`). The record
is made in the order of the handler's calls on its `ResponseWriter`: `SetCookie`
before `Write`, because after the first byte of the body a cookie is lost, as it
is under a name that net/http does not take (`Tokens`; `loadConfig` refuses only
the empty one). What net/http does to a value with characters that a cookie may
not hold is left out: extension IDs in the queries have none.

`Deployment` has one `conf`, the four configuration messages, chosen initially
and never changed; `Deployments` may be any set of such messages
(`MessageAssumption`). `Start` runs a server's `main` (`relayMain`, `cookieMain`,
`backendMain`), which either fails or listens with what it made of its
configuration. A helper is one process with a program counter: `Authenticate`
(flags, `buildConfig`, `agent.New`, the request), `CookieReplies` (the Cookie
Server's handler when the call of Authorize has come back), `ReadAnswer`,
`Proxy` and `Connect`, or `ConnectV4`, and `RunEnds`. Each request to the relay
is one step: `RelaySessions` has what happens inside. Faults: a server crashes
(`Crash`) and may start again; a request or a reply is lost, the reply also
after the session was registered (`Lose`, `OpenSession`, `Connect`); a session
reaches its deadline (`Expire`). A `/cookie` request may go to a server that is
not the Cookie Server (404). Browsers ask `/cookie` for anything, and they also
stand for clients that come to the relay with a cookie of any making
(`OthersConnect`): they take up its sessions, and nothing is claimed of them.

`AsDocumented` collects what the comments of the configuration messages ask of an
operator; `DocumentedConnects` says that this is enough.

## Runs

Passing:

| Run | Bounds | Checks |
|---|---|---|
| `sessions` | 2 requests to any endpoint, both versions, 1 slot, lifetime 1 | `TypeOK`, `SessionLimit`, `DoneMeansClosed`, `FinishedMeansDeregistered`, `ImplementsRegistry`, `ImplementsFairRegistry` |
| `sessions_v1` | 1 session, 2 clients of it | `RunExclusive`, `V1SlotHasReclaimer`, `StuckHasCause`, `V1SlotReclaimed`, `RunStops` |
| `v4_pair` | 1 byte up, 3 down, messages of up to 2, 1 under way each way; the WebSocket and the helper's SSH connection may fail; both ends this code, or a foreign relay | `TypeOK`, `OneWriter`, `AckSound`, `NoProtocolError`, `StreamIntegrity`, `SidSetOnce`, `ImplementsUp`, `ImplementsDown` |
| `v4_live` | 1 byte each way, a connection that holds all messages, every failure | `AllDelivered`, `BothEnd` |
| `v1_pair` | 1 byte up, 2 down, messages of up to 2, 1 under way each way, the counter wraps at 2; the WebSocket and either SSH connection may fail; both ends this code, or a foreign relay | `TypeOK`, `StreamIntegrity`, `CounterExact`, `ErrorHasCause`, `ImplementsPipes` |
| `v1_live` | 1 byte down, 1 message under way each way, every failure | `AllDelivered`, `BothEnd`, `ErrorEndsRun` |
| `command` | bytes below 8, messages of up to 5 | `TypeOK`, `RoundTrip`, `Canonical` |
| `deployment` | 509 deployments, 2 crashes, up to 2 clients, versions modulo 4 | `TypeOK`, `DocumentedConnects`, `RanMeansAgreed`, `CookieWithEndpoint`, `AnswerFits`, `SessionWasAuthorized`, `ZeroMeansRan`, `HelperSettles` |

*What they show.* The limit holds for handlers that dial and register at the same
time. Nobody hears of the end of a session before its connection is closed. The
slot of a version 1 session survives every order of `Close` calls by deadline
and handlers. The bytes of both protocols arrive as a prefix of what was sent,
whatever breaks; version 4's acks cover only bytes that were written, while
version 1's counter runs ahead of the write; between messages it is exact until
`Run` stores its error bits, and not to be relied on afterwards (`CounterExact`,
`EveryIncrementCounts` below).
`Unmarshal` accepts exactly what `Write` produces. Of all callers of `Close` the
first two find a receiver unless the deadline is one of them (`StuckHasCause`);
an error ends version 1's `Run`, and the end of one side ends the other, with
exceptions that `ErrorEndsRun` and `BothEnd` name: both ends have stopped reading,
and then no error ack can be flushed; or, at the relay, the deadline's `Close` has
used up the receivers on `done`, and then `Run` closes the SSH connection and
blocks in its own `Close`. Configurations that fit, as their comments describe
it, connect whatever crashes in between, provided that the relay does not insist
on client certificates. A client is sent on to the relay only with the backend's
consent, and the relay then finds the origin it asked as exactly when both files
give the cookie one name that net/http takes (`CookieWithEndpoint`); otherwise the
Cookie Server sends it on all the same, and the relay refuses it. A helper has a
session only with the backend's consent (`SessionWasAuthorized`); of other clients
the relay does not ask for it.

*Why these bounds.* The races on `done` involve a deadline, a watcher and two
senders, hence one session and two further clients in `sessions_v1`; the limit
and the registry need two creators, in `sessions`. In `v4_pair` three
bytes are the least in which one can be lost inside a message of two that was
read ahead; they make one to three messages. In `v1_pair`, which has more steps
to a message, two bytes make two messages, with a counter that wraps in them, or
one that fails half way; a byte that is lost is the first of two. One message
under way each way is the tightest connection, and lets every flush block. The
other direction carries one byte, enough for its messages to cross the first.
The liveness runs, whose streams are short,
have every failure; in the others those are left out that only end a `Run` which
another failure ends as well (the deadline, and in `v4_pair` the relay's SSH
connection, on whose side one byte arrives). The theorems hold with any of them.
Liveness is about control, not about bytes: in `v4_live` one byte each way lets
every goroutine send, receive and acknowledge, and in `v1_live` one byte down is
enough, because version 1 acknowledges only with data and its other direction
still has its EOF and its error ack. Nothing in
`CorpRelayV4` depends on counters reaching `2^64`, which is why `CountMod` need
only exceed twice the stream (the sign in `readAck`). A
foreign peer has one message under way: each of its messages is a free choice,
so a second one adds no reaction that the first does not show. In `deployment`
one thing is changed about a server and one about the helper of a deployment that
works (`MCDeployments`), so that every check of every `main` and every request
fails somewhere, and any two disagree somewhere; among them are cookie names that
net/http does not take, in one file or in both, and a helper whose Cookie Server
is the relay. Two crashes let a server
come back between two requests and a second one go; two helpers meet at a limit
of one session; `VersionMod` 4 leaves room for a version that is neither 1 nor 2
and for those that wrap to 0, 1 and 2. Deadlock is not checked: requests and
streams are finite and the system stops.

## Divergences

Four runs end in a violation; each contradicts a line of the repository, quoted
in `PROJECT.json` under "findings".

| Run | What TLC shows |
|---|---|
| `unset_age` | an unset `max_session_age` is a deadline of zero, and every session is closed at once |
| `v4_slot` | the deadline goroutine receives the only value on `done`; the watcher waits for ever and the version 4 slot is lost |
| `v4_wedged` | both `runWS` wait to send an `ACK` into a connection that is full in both directions |
| `default_auth` | a relay with the default `client_auth_type` answers the helper's `/proxy` and refuses its `/connect` (and `/v4/connect`): the WebSocket dialer uses `tls.Config`, which leaves out the key pair |

The modules state seven more, under "What the documentation says and the code
does not do". TLC refutes each when it is named in the configuration given here:

| Property | Configuration | What happens |
|---|---|---|
| `RelaySessions!OpenWithinLimit` | `RelaySessions_all.cfg` with `Req = {r1, r2, r3}` | `Delete` does not close: a `/connect` that fails to upgrade gives the slot away, and two SSH connections are open with `max_sessions` 1 |
| `RelaySessions!HandlerReturns` | `RelaySessions_v1.cfg` | after the deadline has closed a session, the `Close` at the end of `Run` blocks for ever |
| `CorpRelayV4!ConnectFirst` | `CorpRelayV4_pair.cfg` | an `ACK` precedes `CONNECT_SUCCESS` |
| `CorpRelay!OneWriter` | `CorpRelay_pair.cfg` | `Run` and `runSSH` have a message open at the same time |
| `CorpRelayV4!DeadlineTerminates` | `CorpRelayV4_live.cfg` | `session.go:65` has the session terminated after its deadline; once the deadline's `Close` has taken the watcher, `Run`'s `Close` blocks before the WebSocket is closed, and nothing tells the helper |
| `CorpRelay!EveryIncrementCounts` | `CorpRelay_pair.cfg` | `incCounter` "increments the counter by n" (`corprelay.go:82`); an increment between `Run`'s load and store of `c` is lost |
| `CorpRelay!ErrorAckMarked` | `CorpRelay_pair.cfg` | `incCounter` clears the error bits before they are sent |

Met while reading, and not stated as properties:

* a helper without `protocol_version` speaks version 4 (`agent.go:56`), where
  `proto/v1/protocol_version.proto` has version 1 as the default; a relay with
  `protocol_versions: PROTOCOL_VERSION_UNSPECIFIED` starts and serves nothing;
* the HSTS header is always sent (`http/server.go:95`; the comment above it and
  `http.proto` say only if `hsts_max_age` is set);
* `connect.New` says that `try` must be 0 and does not look at it; the helper
  sends 1;
* a Cookie Server without `origin_cookie` dereferences nil in `loadConfig`;
* a cookie name that is not a token passes `loadConfig` and is never set, without
  an error;
* the relay takes any cookie whose value has `://` for an origin (the TODO at
  `request.go:17` says so): the backend's consent is not in it;
* `version=4294967296` is accepted as version 0; `max_age` below a second makes a
  cookie without `Max-Age`;
* a request that the backend denies is answered 200 with an empty body, and
  `Handler.err` and `FromError`, which would say so, are only reached when
  `json.Marshal` fails;
* a connection to the relay that is lost with `io.EOF` during `/proxy` or the TLS
  handshake makes the helper exit with status 0 (the exception in `ZeroMeansRan`).

Each property of a passing run has a *faulty variant* of an operation (the
definitions with an underscore, in a section of their own) under which TLC finds
it violated.

## Fairness

`RelaySessions!Fairness`: the Go scheduler runs goroutines that can run, time
passes, a send that meets a receiver completes, a read from a closed connection
and a write to a broken one return. Clients, SSH servers and the garbage
collector are not assumed to do anything; in particular a client that does not
read blocks version 1's error ack (`RunUnlock`) until its WebSocket breaks.
`CorpRelay!FairSpec` and `CorpRelayV4!FairSpec` also assume that the SSH
connections supply their bytes and take what is written to them: what is asked
there is whether the relay delivers what it is given. The connection itself
moves messages only when the other end reads.

`Deployment!FairSpec`: a helper takes its next step, and the Cookie Server's
handler goes on while its process runs (a gRPC call fails at once when the
backend cannot be reached: the code does not set `WaitForReady`). Nobody has to
start a server, and a session may run for ever.

## Proofs

Every invariant and action property of a passing run, and every refinement that
does not speak of fairness, is also a theorem, for every value of the constants
that meets the assumptions the modules state. `PROJECT.json` lists the theorems;
here is what each rests on. Each module has one inductive invariant `Inv`, with
`Init => Inv` and `Inv /\ [Next]_vars => Inv'` proved action by action
(`Invariance`), and none of the properties is inductive alone.

**`RelaySessions_proofs`**, for finitely many requests (any number), both
versions, any limit and any lifetime: `TypeCorrect`, `LimitHolds`,
`DoneIsTruthful`, `SlotsAreReclaimable`, `FinishedIsGone`, `RunsAreExclusive`,
`StuckIsExplained` and `Refinement` (the relay implements `SessionRegistry`). `Inv`
adds

* `Lifecycle`: which endpoint a handler serves in which state, that a session
  exists exactly when its two goroutines do, and that only `/connect` works on
  the session of another request. Without it `ConnectDelete` could delete, and
  `RunStart` attach to, a session that was never made;
* `SendMeansClosed`: a handler that is about to send on `done` has closed the
  SSH connection. `DoneMeansClosed` needs it at each rendezvous;
* `Progress`: which handlers have started goroutines, that a `/v4/connect` that
  saw `io.EOF` is out of the registry, and that a mutex belongs to a session.
  `FinishedMeansDeregistered` and the refinement need it;
* `Receivers`: as long as the deadline has not fired, each of the two receivers on
  `done` that is gone was met by a `Run` of its own. `StuckHasCause` needs it.

`SlotsAreReclaimable` is the argument that matters: the reclaimer of a slot
changes (the deadline goroutine, the watcher, a handler on its way to `Delete`)
and `ReclaimerNext` shows, action by action, that the last one is never lost. It
is false for version 4, which is what `v4_slot` shows.

**`CorpRelayV4_proofs`**, for streams, payloads, buffers and connections of any
size, with any faults, either endpoint foreign or both; the counters must
hold twice the longest stream (`CountAssumption`): `TypeCorrect`,
`WriterExclusion`, `StreamCorrect`, `AcksAreSound`, `OursAgree`, `SidOnce`,
`UpRefinement`, `DownRefinement`. The argument is about one direction. `Base(e)` is
what `runWS` of `e` has counted; `End(e)` is the first byte that `runSSH` of `e`
still holds. The payloads on the wire lie end to end between `Base(Peer(e))` and
`End(e)`, and a connection that breaks cuts them off at the end only. The acks on
the wire, and the counter of the sender, are in order and below what the peer has
written: the sign that `readAck` computes is therefore right. One
`CONNECT_SUCCESS` is ever under way, which is why `sid` is set once.

**`CorpRelay_proofs`**, in the same generality, for every modulus of the counter:
`TypeCorrect`, `StreamCorrect`, `CounterIsExact`, `ErrorsHaveCauses`,
`Refinement`. The argument is the same with two complications. There is no lock: a message that `runSSH` has open is sent by `runSSH` or by `Run`'s
`NextWriter`, with or without its data, and lemma `Closed` shows that either way
what is sent are the bytes at which the stream stands, or none. And the counter
is loaded and stored in separate steps by two goroutines: `Counting` says that
until `Run` stores its error bits `c` is the number of bytes counted, modulo
`CountMod`, and that the copy `runWS` has loaded is still current, because nobody
else stores before that (`UnmarkedOnce`). `CounterExact` follows; after that store
either goroutine may overwrite the other's, and `Inv` claims nothing of `c`. That a
wrap never looks like an error is a separate part of `Inv`: until `Run` has had an
error no ack has error bits anywhere on its way (`AckClean`).

**`Command_proofs`**, for every base above 7 and all field sizes, provided that the
limits of SID and payload fit into their length field (`FieldAssumption`):
`TypeCorrect`, `ReadsBack`, `OneEncoding`. This is an induction over data. The
library's induction theorems take an operator as a parameter and cannot be used,
but its theorem that the natural numbers are well founded can: lemmas
`LeastElement` and `Induction` state induction with sets, `ValueExists` and
`ShiftExists` show that the recursive functions in `Uint` and `PutUint` exist, and
`UintOfPutUint` and `PutUintOfUint` that they invert each other: the value of the
first `i` bytes is what is left of the number when the others are shifted out.

**`Deployment_proofs`**, for any configurations of the four programs, any queries,
any number of clients and any number of crashes: `TypeCorrect`, `FittingConnects`,
`RunningAgrees`, `EndpointsHaveCookies`, `AnswersFit`, `SessionsAuthorized`,
`StatusEarned`. What a server runs with is a function of its messages, so one that
has crashed and come back is the one a client had spoken to; the invariant is
then about one client and the messages (`ClientInv`). `OriginFacts` and
`HelperOrigin` say what the relay finds in the cookies of an answer, from which
follow both `EndpointsHaveCookies` and that a helper which got into a session had
the backend's consent; the sessions of other clients (`OthersConnectStep`) change
neither. Assumed are the types of
messages and queries, that versions wrap beyond 2, and that net/http takes some
set of names, of which the empty one is none (`TokenAssumption`). The first attempt at
`FittingConnects` failed on a TLS message that is absent and yet has fields of its
own; no program can meet one, and the types of the messages say so since.

*Only model-checked.* Liveness: `V1SlotReclaimed`, `RunStops`,
`ImplementsFairRegistry`, `AllDelivered`, `BothEnd`, `ErrorEndsRun` and
`HelperSettles`. Fairness and `ENABLED` are out of the prover's reach.

## Not modelled

Reconnection (`/v4/reconnect`, `SSHFE`) is not implemented in the code. The
headers `HandleFunc` and the handlers add, templates, logging and flag parsing
have no influence on control. Which certificate verifies against which CA, and
what the timeouts of net/http cut off, are crypto/tls's and net/http's. The
queries of `/connect` and `/proxy` are those of the helper (`connectURL`,
`proxyURL` against `ConnectNew`, `ProxyNew`); for other clients each refusal is a
choice in `RelaySessions`. The time an SSH
server takes to accept a connection is not bounded in the code (`dial_timeout`
is unused) nor in the model, where `Dial` is one step. The helper's `Wrapper`
around stdin and stdout is the SSH connection of the client endpoint.

## Plan

1. Done: `RelaySessions`, `SessionRegistry`; `CorpRelayV4` and `BytePipe`;
   `CorpRelay`; `Command`; `Transport`, `CookieServer`, `Deployment`; proofs of all
   their safety properties.
2. Left: theorems about the promises that fail. Under which restrictions on the
   constants or on the clients `OpenWithinLimit` and `ConnectFirst` hold, for every
   value of the constants.
