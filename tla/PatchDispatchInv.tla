---------------------------- MODULE PatchDispatchInv ----------------------------
(***************************************************************************)
(* The inductive invariants behind the lock of the fabric, for masters     *)
(* which read and write the fabric's row one after the other: TableInv,    *)
(* and PatchInv, if at most one works on a cluster at a time.              *)
(***************************************************************************)
EXTENDS PatchDispatch

OneByOne == ~Shared /\ ~Races /\ Parallel = {}

\* The part of the type invariant the argument needs.
Rows == [clusters : SUBSET Cluster, lockedfor : {"none", "ibswitch", "non_ibswitch"},
         count : Int, doSwitch : BOOLEAN]
TableTypes ==
    /\ fabric \in Rows /\ row \in [Proc -> Rows]
    /\ DOMAIN pc = Proc /\ entry \in [Master -> {"none", "error", "sent"}]
    /\ ops \subseteq Master

ChildAlive(m) == pc[C(m)] \notin {"idle", "done"}

\* A master on its way to the lock, or with a child that may have it.
Engaged(m) == pc[M(m)] \notin {"idle", "relend", "ended"} \/ ChildAlive(m)
OnePerCluster ==
    \A m, q \in Master : Engaged(m) /\ Engaged(q) /\ ClusterOf[m] = ClusterOf[q]
                         => m = q

\* The master of a child that is under way leaves the lock to the child.
ChildInv ==
    \A m \in Master :
        ChildAlive(m) => entry[m] = "sent" /\ pc[M(m)] \in {"relcmd", "poll", "ended"}

\* What a process has read for its transaction is still in the table.
ReadInv ==
    \A p \in Proc : pc[p] \in Locking =>
        /\ row[p].clusters = fabric.clusters /\ row[p].lockedfor = fabric.lockedfor
        /\ row[p].count = fabric.count
        /\ \A q \in Proc : pc[q] \in Locking => p = q

\* A switch task has locked at most one cluster.
FabricInv ==
    /\ CountAgrees /\ IsFiniteSet(fabric.clusters)
    /\ fabric.lockedfor = "ibswitch" =>
         \A c, d \in fabric.clusters : c = d

\* From the master's lock until the child releases it the cluster is in the
\* row, locked for what the master patches.
Held(m) == pc[M(m)] \in {"insertops", "send"} \/ pc[C(m)] \in {"check", "lock2", "exec"}
HeldInv ==
    \A m \in Master : Held(m) => /\ ClusterOf[m] \in fabric.clusters
                                 /\ fabric.lockedfor = LockedFor(m)

\* What holds of the row whatever requests are under way, and what holds when
\* the requests of a cluster follow each other.
TableInv == TableTypes /\ ReadInv /\ FabricInv
PatchInv == TableInv /\ OnePerCluster /\ ChildInv /\ HeldInv

-----------------------------------------------------------------------------
(* The other variables, and what is in the lists of clusters *)

FaultKind == {"early", "send", "raise", "kill", "master", "timeout"}
LocalTypes ==
    /\ registry \subseteq Master
    /\ \A m \in Master : /\ pc[M(m)] \in MasterPcs \cup Shares
                         /\ pc[C(m)] \in ChildPcs \cup Shares
    /\ acquire \in [Master -> BOOLEAN] /\ setLock \in [Master -> BOOLEAN]
    /\ faults \in [FaultKind -> Nat]

\* Nobody locks a cluster no master patches.
Named == {ClusterOf[m] : m \in Master}
NamedInv == /\ fabric.clusters \subseteq Named
            /\ \A p \in Proc : row[p].clusters \subseteq Named
=============================================================================
