------------------------------- MODULE Partners -------------------------------
(* The two sides of a session, for the features that are the same on both. *)

Party == {"host", "client"}

Partner(s) == IF s = "host" THEN "client" ELSE "host"
===============================================================================
