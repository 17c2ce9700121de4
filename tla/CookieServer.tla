---------------------------- MODULE CookieServer ----------------------------
(***************************************************************************)
(* What the Cookie Server does with one /cookie request: cookie.New,       *)
(* handler.New, the answer of Authorize, and what is written to the        *)
(* ResponseWriter.  The server keeps no state between requests.            *)
(*                                                                         *)
(* An origin is its prefix and the extension's ID; a response has a code,  *)
(* the cookies set, the body, the place named in it (to) and the place the *)
(* client is sent to by itself (link).  It is made in the order of the     *)
(* handler's calls on its ResponseWriter.                                  *)
(***************************************************************************)
EXTENDS Transport

CONSTANTS
    VersionMod,   \* a version is an int32 in requestpb: VersionMod stands for 2^32
    Tokens        \* the names of cookies that net/http takes

ASSUME VersionModAssumption == VersionMod \in Nat /\ VersionMod > 2
ASSUME TokenAssumption == Tokens \subseteq STRING /\ "" \notin Tokens

Absent    == -1       \* no version in the query
Malformed == -2       \* one that is not a number

Nowhere      == [host |-> "none", port |-> ""]
ExtOrigin(x) == <<"chrome-extension://", x>>

redirectionMethodMap ==
    [m \in {"direct", "js-redirect"} |-> IF m = "direct" THEN "DIRECT" ELSE "JS_REDIRECT"]

Method == {"UNSPECIFIED", "HTTP_REDIRECT", "DIRECT", "JS_REDIRECT"}

(***************************************************************************)
(* Faulty variants of operations below.                                    *)
(***************************************************************************)

\* The version is compared with 2 after it was converted, and a missing method
\* is only refused then.
New_ConvertFirst(q) ==
    LET n == IF q.version = Absent THEN 1 ELSE q.version
        v == n % VersionMod
    IN  IF \/ q.ext = "" \/ q.path = "" \/ n < 1
           \/ v >= 2 /\ q.method = ""
           \/ q.method # "" /\ (v = 1 \/ q.method \notin DOMAIN redirectionMethodMap)
        THEN {}
        ELSE {[ext |-> q.ext, version |-> v,
               method |-> IF q.method = "" THEN "HTTP_REDIRECT" ELSE redirectionMethodMap[q.method]]}

\* The version is kept as it was parsed.
Int32_Identity(n) == n

\* Handle looks at the error of the call and not at the status in the answer.
Authorized_NoStatus(a) == ~a.err

(***************************************************************************)
(* Requests.                                                               *)
(***************************************************************************)

Int32(n) == n % VersionMod

\* cookie.New.  The query's version is compared as an uint, then as an int32.
New(q) ==
    LET n == IF q.version = Absent THEN 1 ELSE q.version
        v == Int32(n)
    IN  IF \/ q.ext = "" \/ q.path = ""
           \/ n < 1
           \/ n >= 2 /\ q.method = ""
           \/ q.method # "" /\ (v = 1 \/ q.method \notin DOMAIN redirectionMethodMap)
        THEN {}
        ELSE {[ext |-> q.ext, version |-> v,
               method |-> IF q.method = "" THEN "HTTP_REDIRECT" ELSE redirectionMethodMap[q.method]]}

(***************************************************************************)
(* Responses.                                                              *)
(***************************************************************************)

\* Nothing is written: net/http sends 200 without a body.
Unwritten  == [code |-> 200, cookies |-> {}, body |-> "none", to |-> Nowhere, link |-> "none"]
BadRequest == [code |-> 400, cookies |-> {}, body |-> "text", to |-> Nowhere, link |-> "none"]
NotFound   == [code |-> 404, cookies |-> {}, body |-> "text", to |-> Nowhere, link |-> "none"]

\* http.SetCookie adds to the header, without a word if the name is not a token
\* or if the header has gone out with the first byte of the body.
SetCookie(w, k) ==
    IF w.body = "none" /\ k.name \in Tokens THEN [w EXCEPT !.cookies = @ \cup {k}] ELSE w

\* http.Redirect, Write and Execute.
Write(w, code, body, to, link) ==
    [w EXCEPT !.code = code, !.body = body, !.to = to, !.link = link]

setCookies(w, cs, r) == SetCookie(w, [name |-> cs.cookieName, value |-> ExtOrigin(r.ext)])

\* To the next URI as it is, or to the extension with the endpoint as fragment.
redirectHTTP(cs, r, a) ==
    Write(setCookies(Unwritten, cs, r), 303, "text", a.to, IF a.redirect = "endpoint" THEN "extension" ELSE "uri")

\* Faulty: the JSON is written before the cookies are set.
redirectXSSI_LateCookies(cs, r, a) == setCookies(Write(Unwritten, 200, "json", a.to, "none"), cs, r)

\* MarshalXSSI.
redirectXSSI(cs, r, a) == Write(setCookies(Unwritten, cs, r), 200, "json", a.to, "none")

\* writeResponse: a page that goes to the extension, with Encode's fragment.
redirectJS(cs, r, a) == Write(setCookies(Unwritten, cs, r), 200, "page", a.to, "extension")

\* redirectURI and redirectEndpoint; errBadMethod is only logged.
Redirect(cs, r, a) ==
    CASE a.method = "HTTP_REDIRECT" -> redirectHTTP(cs, r, a)
      [] a.method = "DIRECT"        -> redirectXSSI(cs, r, a)
      [] a.method = "JS_REDIRECT"   -> redirectJS(cs, r, a)
      [] OTHER                      -> Unwritten

Authorized(a) == ~a.err /\ ~a.denied

\* Handle, whose error handleCookie only logs.
Handle(cs, r, a) ==
    IF Authorized(a) /\ a.redirect # "none" THEN Redirect(cs, r, a) ELSE Unwritten

\* FromReader: only a body with the XSSI header has a Response.
FromReader(w) == IF w.body = "json" THEN {w.to} ELSE {}
=============================================================================
