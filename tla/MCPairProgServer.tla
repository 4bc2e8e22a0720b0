--------------------------- MODULE MCPairProgServer ---------------------------
(* Instances of PairProgServer for TLC. *)
EXTENDS PairProgServer
===============================================================================
