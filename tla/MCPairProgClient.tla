---------------------------- MODULE MCPairProgClient ---------------------------
(* Instances of PairProgClient for TLC. *)
EXTENDS PairProgClient
===============================================================================
