---------------------------- MODULE MCCorpRelayV4 ---------------------------
(***************************************************************************)
(* CorpRelayV4 for TLC: how many bytes the SSH connections supply.         *)
(***************************************************************************)
EXTENDS CorpRelayV4

OneEach  == [e \in Endpoint |-> 1]
OneThree == [client |-> 1, server |-> 3]
FourEach == [e \in Endpoint |-> 4]
=============================================================================
