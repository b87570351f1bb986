-------------------------- MODULE ClusterRegistryInv ---------------------------
(***************************************************************************)
(* The inductive invariant of the cluster lock when requests for one       *)
(* cluster start one after the other, keys match only themselves and no    *)
(* command is let through beside another.                                  *)
(***************************************************************************)
EXTENDS ClusterRegistry

\* The conditions under which the rows are a lock at all.
SerialStarts ==
    /\ ~Overlapping
    /\ \A k, l \in Key : <<k, l>> \in Overlap => k = l
    /\ \A c \in Cmd : Tags[c] \cap {"concurrent_operation", "concurrent_cmds_set1",
                                    "concurrent_cmds_set2"} = {}

\* Requests for one cluster start one after the other.
OneStarts ==
    \A r, q \in Req : pc[r] \in Starting /\ pc[q] \in Starting /\ key[r] = key[q]
                      => r = q

\* A running command has its row, and its worker is in table workers.
HolderInv == \A r \in Req : Running(r) => r \in registry /\ wrow[r] = "here"

\* There is one row per cluster, of a running command or of a dead worker.
RowInv ==
    /\ \A r, q \in registry : key[r] = key[q] => r = q
    /\ \A r \in registry : ~NoLock(r) /\ (Running(r) \/ pc[r] = "dead")

\* A worker leaves table workers only when it is dead.
WorkerInv ==
    /\ \A r \in Req : wrow[r] # "here" => pc[r] = "dead"
    /\ clean.pc \in {"clear", "unreg"} => pc[clean.uuid] \notin Active
    /\ clean.pc # "idle" => status[clean.uuid] = "Done"

\* What a starting worker has found out about the row of its cluster.
StartInv ==
    \A r \in Req :
        /\ pc[r] = "worker" => \A q \in registry : key[q] = key[r] => q \in seen[r]
        /\ pc[r] = "stale" => \A q \in registry : key[q] = key[r] => pc[q] = "dead"
        /\ pc[r] = "insert" => \A q \in registry : key[q] # key[r]
        /\ pc[r] \in Starting \ {"check"} => ~NoLock(r)
        /\ pc[r] # "pass"

RegistryInv ==
    /\ TypeOK /\ OneStarts /\ HolderInv /\ RowInv /\ WorkerInv /\ StartInv
=============================================================================
