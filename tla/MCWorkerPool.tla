---------------------------- MODULE MCWorkerPool ----------------------------
(***************************************************************************)
(* Model-checking instances of WorkerPool.                                  *)
(***************************************************************************)
EXTENDS WorkerPool, TLC

Symmetry == Permutations(Calls) \cup Permutations(Workers) \cup Permutations(Stoppers)
=============================================================================
