----------------------------- MODULE MCWorkerPool -----------------------------
(* WorkerPool for TLC: request uuids are interchangeable.                   *)
EXTENDS WorkerPoolInv, TLC

Symmetry == Permutations(Req)
=============================================================================
