--------------------------- MODULE MCSharedDocument ---------------------------
(* Instances of SharedDocument for TLC. *)
EXTENDS SharedDocument
===============================================================================
