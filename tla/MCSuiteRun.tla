----------------------------- MODULE MCSuiteRun -----------------------------
(* SuiteRun on small instances: goroutines are interchangeable, and so are   *)
(* the ids of tasks, which are handed out in no order.                       *)
EXTENDS SuiteRun, TLC

Symmetry == Permutations(Worker) \cup Permutations(Task)
=============================================================================
