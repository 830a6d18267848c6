---------------------------- MODULE MCWorkerPool ----------------------------
(* Instances of WorkerPool for TLC.                                        *)
EXTENDS WorkerPool, TLC

\* Calls are told apart by nothing but their names.
Symmetric == Permutations(Calls)
=============================================================================
