--------------------------- MODULE MCFailureCount ---------------------------
(* FailureCount for TLC: tasks are interchangeable.                         *)
EXTENDS FailureCount, TLC

TaskSymmetry == Permutations(Tasks)
=============================================================================
