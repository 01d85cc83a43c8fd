---------------------------- MODULE MCTimerJobs ----------------------------
(* TimerJobs with model values for the jobs, which are interchangeable.    *)
EXTENDS TimerJobs, TLC

Symmetry == Permutations(Job)
=============================================================================
