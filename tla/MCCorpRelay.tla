----------------------------- MODULE MCCorpRelay ----------------------------
(***************************************************************************)
(* CorpRelay for TLC: how many bytes the SSH connections supply.           *)
(***************************************************************************)
EXTENDS CorpRelay

NoneOne == [client |-> 0, server |-> 1]
OneTwo  == [client |-> 1, server |-> 2]
=============================================================================
