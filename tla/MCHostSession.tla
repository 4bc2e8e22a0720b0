----------------------------- MODULE MCHostSession -----------------------------
(* Instances of HostSession for TLC. *)
EXTENDS HostSession, TLC

\* No definition tells connections apart, and no run has a liveness property.
ConnSymmetry == Permutations(Conn)
===============================================================================
