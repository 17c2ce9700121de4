-------------------------- MODULE MCRelaySessions --------------------------
(***************************************************************************)
(* RelaySessions for TLC: requests are model values.                       *)
(***************************************************************************)
EXTENDS RelaySessions

CONSTANTS r1, r2, r3

\* Any request may go to any endpoint.
AnyEndpoint == [r \in Req |-> {"proxy", "connect", "v4"}]

\* One session; all others come for it, in any order and at the same time.
OneSession == [r \in Req |-> IF r = r1 THEN {"proxy", "v4"} ELSE {"connect"}]
=============================================================================
