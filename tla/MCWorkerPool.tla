---------------------------- MODULE MCWorkerPool ----------------------------
(***************************************************************************)
(* Symmetry for model checking WorkerPool: requests and WorkerInfo objects *)
(* are interchangeable.  Only used by runs without liveness properties.    *)
(***************************************************************************)
EXTENDS WorkerPool, TLC

Symmetry == Permutations(Request) \union Permutations(Worker)
=============================================================================
