----------------------------- MODULE MCRemoteLock ------------------------------
(* RemoteLock for TLC: operations are interchangeable, hosts are not.       *)
EXTENDS RemoteLockInv, TLC

Symmetry == Permutations(Op)
=============================================================================
