------------------------------- MODULE Requests -------------------------------
(***************************************************************************)
(* What VS Code may expect of a request that the extension forwards to the *)
(* partner: it is refused at once, or it waits and then ends, once.  When  *)
(* the session is over, every request that waits is abandoned with it; its *)
(* promise stays open until VS Code cancels it.  Nothing else may leave a  *)
(* request without an end.                                                 *)
(***************************************************************************)
CONSTANT Request

VARIABLES phase, open

reqVars == <<phase, open>>

Init ==
    /\ phase = [r \in Request |-> "idle"]
    /\ open = TRUE

Move(r, from, to) ==
    /\ phase[r] = from
    /\ phase' = [phase EXCEPT ![r] = to]
    /\ UNCHANGED open

Refuse(r) == open /\ Move(r, "idle", "ended")

Ask(r) == open /\ Move(r, "idle", "waiting")

Settle(r) == open /\ Move(r, "waiting", "ended")

Cancel(r) == Move(r, "abandoned", "ended")

Close ==
    /\ open
    /\ open' = FALSE
    /\ phase' = [r \in Request |-> IF phase[r] = "waiting" THEN "abandoned" ELSE phase[r]]

Reopen ==
    /\ ~open
    /\ open' = TRUE
    /\ UNCHANGED phase

Next ==
    \/ \E r \in Request : Refuse(r) \/ Ask(r) \/ Settle(r) \/ Cancel(r)
    \/ Close \/ Reopen

Spec == Init /\ [][Next]_reqVars

FairSpec == Spec /\ \A r \in Request : WF_reqVars(Settle(r))
===============================================================================
