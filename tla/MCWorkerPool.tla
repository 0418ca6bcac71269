---------------------------- MODULE MCWorkerPool ----------------------------
(***************************************************************************)
(* Instances of WorkerPool for TLC; tasks and workers are interchangeable, *)
(* where no liveness property is checked.                                  *)
(***************************************************************************)
EXTENDS WorkerPool, TLC

Symmetry == Permutations(Tasks) \cup Permutations(Workers)

=============================================================================
