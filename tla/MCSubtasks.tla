----------------------------- MODULE MCSubtasks -----------------------------
(* The sub-tasks of a main session on a small instance where no write      *)
(* fails: the barrier, and the calls that start a sub-session or wake it.  *)
(* The two models share no state and are checked one at a time: focus says *)
(* which.                                                                  *)
EXTENDS SubtaskBarrier, Delegation

VARIABLE focus

MCInit == Init /\ DelInit /\ focus \in {"barrier", "delegation"}

MCNext == \/ focus = "barrier" /\ Next /\ UNCHANGED <<del_vars, focus>>
          \/ focus = "delegation" /\ DelNext /\ UNCHANGED <<vars, focus>>

MCSpec == MCInit /\ [][MCNext]_<<vars, del_vars, focus>> /\ Fairness /\ DelFairness
=============================================================================
