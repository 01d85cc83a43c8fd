-------------------------- MODULE MCSubtaskBarrier --------------------------
(* SubtaskBarrier on small instances.                                      *)
EXTENDS SubtaskBarrier, TLC

Symmetry == Permutations(Task)
=============================================================================
