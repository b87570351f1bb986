--------------------------- MODULE PatchDispatchProofs ---------------------------
(* Theorems about the lock of the InfiniBand fabric for every set of masters,*)
(* clusters and faults.                                                     *)
EXTENDS PatchDispatchInv, FiniteSetTheorems, TLAPS

-----------------------------------------------------------------------------
(* Masters and their children are different processes.                      *)

LEMMA Procs ==
    /\ \A m \in Master : /\ M(m) \in Proc /\ C(m) \in Proc
                         /\ M(m)[1] = "master" /\ C(m)[1] = "child"
                         /\ M(m)[2] = m /\ C(m)[2] = m
    /\ \A m, q \in Master : /\ M(m) # C(q)
                            /\ M(m) = M(q) => m = q
                            /\ C(m) = C(q) => m = q
    /\ \A p \in Proc : p[2] \in Master /\ (p = M(p[2]) \/ p = C(p[2]))
<1> QED
  BY DEF M, C, Proc

LEMMA Masters ==
    \A m \in Master : /\ ClusterOf[m] \in Cluster
                      /\ LockedFor(m) \in {"ibswitch", "non_ibswitch"}
                      /\ LockedFor(m) = "ibswitch" <=> m \in Switch
<1> QED
  BY PatchAssumption DEF PatchAssumption, LockedFor, Switch

-----------------------------------------------------------------------------
(* Types                                                                    *)

LEMMA LockUpdate ==
    ASSUME NEW f \in Rows, NEW c \in SUBSET Cluster, NEW n \in Int,
           NEW l \in {"none", "ibswitch", "non_ibswitch"}
    PROVE  [f EXCEPT !.clusters = c, !.lockedfor = l, !.count = n] \in Rows
<1> QED
  BY DEF Rows

LEMMA SwitchUpdate ==
    ASSUME NEW f \in Rows, NEW b \in BOOLEAN
    PROVE  [f EXCEPT !.doSwitch = b] \in Rows
<1> QED
  BY DEF Rows

LEMMA FabricRows ==
    ASSUME TableTypes, NEW p \in Proc
    PROVE  /\ WriteLock(p) => fabric' \in Rows
           /\ WriteUnlock(p) => fabric' \in Rows
           /\ Refresh(p) => fabric' \in Rows /\ row' \in [Proc -> Rows]
<1>0. /\ fabric \in Rows /\ fabric.count + 1 \in Int /\ fabric.count - 1 \in Int
      /\ row[p].clusters \cup {ClusterOf[p[2]]} \in SUBSET Cluster
      /\ Rest(p) \in SUBSET Cluster
      /\ row[p].lockedfor \in {"none", "ibswitch", "non_ibswitch"}
      /\ LockedFor(p[2]) \in {"none", "ibswitch", "non_ibswitch"}
  BY Procs, Masters DEF TableTypes, Rows, Rest
<1>1. ASSUME WriteLock(p) PROVE fabric' \in Rows
  <2> DEFINE c == row[p].clusters \cup {ClusterOf[p[2]]}
             l == LockedFor(p[2])
             n == fabric.count + 1
  <2>1. fabric' = [fabric EXCEPT !.clusters = c, !.lockedfor = l, !.count = n]
    BY <1>1 DEF WriteLock
  <2>2. /\ c \in SUBSET Cluster /\ n \in Int
        /\ l \in {"none", "ibswitch", "non_ibswitch"}
    BY <1>0
  <2> HIDE DEF c, l, n
  <2> QED
    BY <1>0, <2>1, <2>2, LockUpdate
<1>2. ASSUME WriteUnlock(p) PROVE fabric' \in Rows
  <2> DEFINE c == Rest(p)
             l == IF Rest(p) = {} THEN "none" ELSE row[p].lockedfor
             n == fabric.count - 1
  <2>1. fabric' = [fabric EXCEPT !.clusters = c, !.lockedfor = l, !.count = n]
        \/ fabric' = fabric
    BY <1>2 DEF WriteUnlock
  <2>2. /\ c \in SUBSET Cluster /\ n \in Int
        /\ l \in {"none", "ibswitch", "non_ibswitch"}
    BY <1>0
  <2> HIDE DEF c, l, n
  <2>3. [fabric EXCEPT !.clusters = c, !.lockedfor = l, !.count = n] \in Rows
    BY <1>0, <2>2, LockUpdate
  <2> QED
    BY <1>0, <2>1, <2>3
<1>3. ASSUME Refresh(p) PROVE fabric' \in Rows /\ row' \in [Proc -> Rows]
  <2> DEFINE f == [fabric EXCEPT !.doSwitch = @ /\ ~StaleSession(fabric)]
  <2>1. (fabric.doSwitch /\ ~StaleSession(fabric)) \in BOOLEAN
    BY Zenon
  <2>2. f \in Rows
    BY <1>0, <2>1, SwitchUpdate
  <2>3. fabric' = f /\ row' = [row EXCEPT ![p] = f]
    BY <1>3 DEF Refresh
  <2> HIDE DEF f
  <2> QED
    BY <2>2, <2>3 DEF TableTypes
<1> QED
  BY <1>1, <1>2, <1>3

LEMMA TypesProc ==
    ASSUME TableTypes, NEW p \in Proc,
           ReadFabric(p, "unlock", "unlock2") \/ ReadFabric(p, "lock", "lock2")
           \/ ReadFabric(p, "check", "lock2") \/ Unswitch(p) \/ mRelease(p)
           \/ DeleteOps(p)
    PROVE  TableTypes'
<1> USE Procs DEF TableTypes, tables, flags, Goto, Set
<1>1. CASE ReadFabric(p, "unlock", "unlock2") \/ ReadFabric(p, "lock", "lock2")
           \/ ReadFabric(p, "check", "lock2")
  BY <1>1 DEF ReadFabric
<1>2. CASE Unswitch(p)
  <2>1. [fabric EXCEPT !.doSwitch = FALSE] \in Rows
    BY DEF Rows
  <2> QED
    BY <1>2, <2>1 DEF Unswitch
<1>3. CASE mRelease(p)
  BY <1>3, FabricRows DEF mRelease
<1>4. CASE DeleteOps(p)
  BY <1>4 DEF DeleteOps
<1> QED
  BY <1>1, <1>2, <1>3, <1>4

LEMMA TypesNext == ASSUME TableTypes, [Next]_vars PROVE TableTypes'
<1> USE Procs DEF TableTypes, tables, flags, Goto, Set
<1>1. ASSUME NEW m \in Master, \/ mPopulatePatchTables(m) \/ mMonitorPatchRequest(m)
                               \/ mUpdatePendingCalls(m)
      PROVE  TableTypes'
  BY <1>1, FabricRows DEF mPopulatePatchTables, mMonitorPatchRequest,
     mUpdatePendingCalls
<1>2. ASSUME NEW m \in Master, SetDoSwitch(m) PROVE TableTypes'
  <2>1. /\ [row[M(m)] EXCEPT !.doSwitch = TRUE] \in Rows
        /\ [fabric EXCEPT !.doSwitch = TRUE] \in Rows
    <3>1. row[M(m)] \in Rows /\ fabric \in Rows /\ TRUE \in BOOLEAN
      OBVIOUS
    <3> QED
      BY <3>1, SwitchUpdate
  <2>2. row' = [row EXCEPT ![M(m)] = [row[M(m)] EXCEPT !.doSwitch = TRUE]]
    BY <1>2 DEF SetDoSwitch
  <2>3. row' \in [Proc -> Rows]
    BY <2>1, <2>2
  <2>4. fabric' \in Rows
    BY <1>2, <2>1 DEF SetDoSwitch
  <2> QED
    BY <1>2, <2>3, <2>4 DEF SetDoSwitch
<1>3. ASSUME NEW m \in Master,
             \/ Start(m) \/ StartFails(m) \/ CheckPatchCmd(m) \/ mLockPatchCmd(m)
             \/ mGetCountOfRequests(m) \/ mReleasePatchCmd(m) \/ mDispatchCall(m)
             \/ InsertOps(m) \/ mIssueRequest(m) \/ SendFails(m) \/ SendRaises(m)
             \/ Finish(m) \/ MonitorTimesOut(m) \/ Patch(m)
             \/ KillChild(m) \/ KillMaster(m)
      PROVE  TableTypes'
  BY <1>3 DEF Start, StartFails, CheckPatchCmd, mLockPatchCmd, mGetCountOfRequests,
     mReleasePatchCmd, mDispatchCall, InsertOps, mIssueRequest, SendFails,
     SendRaises, Finish, MonitorTimesOut, Patch, KillChild, KillMaster
<1>4. ASSUME NEW m \in Master, MasterLocks(m) \/ mAcquireLock(m) PROVE TableTypes'
  BY <1>4, FabricRows DEF MasterLocks, mAcquireLock
<1>5. CASE UNCHANGED vars
  BY <1>5 DEF vars
<1> QED
  BY <1>1, <1>2, <1>3, <1>4, <1>5, TypesProc DEF Next, MasterStep, ChildStep, Release

-----------------------------------------------------------------------------
(* Who is at work on a cluster                                              *)

\* Steps that begin no work on a cluster.
LEMMA ControlKept ==
    ASSUME OnePerCluster, ChildInv,
           \A m \in Master : /\ Engaged(m)' => Engaged(m)
                             /\ ChildAlive(m)' =>
                                   /\ ChildAlive(m) /\ entry'[m] = entry[m]
                                   /\ pc'[M(m)] = pc[M(m)]
                                      \/ pc'[M(m)] \in {"relcmd", "poll", "ended"}
    PROVE  (OnePerCluster /\ ChildInv)'
<1> QED
  BY DEF OnePerCluster, ChildInv

LEMMA ControlMaster ==
    ASSUME TableTypes, OnePerCluster, ChildInv, NEW m \in Master, MasterStep(m)
    PROVE  (OnePerCluster /\ ChildInv)'
<1> USE Procs DEF TableTypes, tables, flags, Goto, Set, Engaged, ChildAlive
<1>1. CASE \/ CheckPatchCmd(m) \/ mLockPatchCmd(m) \/ mPopulatePatchTables(m)
           \/ SetDoSwitch(m) \/ mGetCountOfRequests(m) \/ ReadFabric(M(m), "lock", "lock2")
           \/ InsertOps(m) \/ mMonitorPatchRequest(m) \/ Finish(m)
  <2>1. ~ChildAlive(m)
    BY <1>1 DEF ChildInv, CheckPatchCmd, mLockPatchCmd, mPopulatePatchTables,
       SetDoSwitch, mGetCountOfRequests, ReadFabric, InsertOps,
       mMonitorPatchRequest, Finish
  <2>2. /\ UNCHANGED entry /\ \A p \in Proc \ {M(m)} : pc'[p] = pc[p]
        /\ pc[M(m)] \notin {"idle", "relend", "ended"}
    BY <1>1 DEF CheckPatchCmd, mLockPatchCmd, mPopulatePatchTables, SetDoSwitch,
       mGetCountOfRequests, ReadFabric, InsertOps, mMonitorPatchRequest, Finish
  <2> QED
    BY <2>1, <2>2, ControlKept
<1>2. CASE mReleasePatchCmd(m)
  <2>1. ChildAlive(m) => pc[M(m)] = "relcmd" /\ entry[m] = "sent"
    BY <1>2 DEF mReleasePatchCmd, ChildInv
  <2>2. /\ UNCHANGED entry /\ \A p \in Proc \ {M(m)} : pc'[p] = pc[p]
        /\ pc[M(m)] \in {"relcmd", "relend"}
        /\ pc[M(m)] = "relend" => pc'[M(m)] = "ended"
        /\ pc[M(m)] = "relcmd" /\ entry[m] = "sent" => pc'[M(m)] = "poll"
    BY <1>2 DEF mReleasePatchCmd
  <2> QED
    BY <2>1, <2>2, ControlKept
<1>3. CASE mDispatchCall(m) \/ MasterLocks(m)
  <2>1. ~ChildAlive(m)
    BY <1>3 DEF ChildInv, mDispatchCall, MasterLocks
  <2> QED
    BY <1>3, <2>1, ControlKept DEF mDispatchCall, MasterLocks
<1>4. CASE mIssueRequest(m)
  <2>1. Engaged(m)
    BY <1>4 DEF mIssueRequest
  <2>2. /\ \A q \in Master : Engaged(q)' => Engaged(q)
        /\ entry'[m] = "sent" /\ pc'[M(m)] \in {"relcmd", "poll", "ended"}
        /\ \A q \in Master \ {m} : /\ ChildAlive(q)' <=> ChildAlive(q)
                                   /\ pc'[M(q)] = pc[M(q)] /\ entry'[q] = entry[q]
    BY <1>4, <2>1 DEF mIssueRequest, Back
  <2> QED
    BY <2>2 DEF OnePerCluster, ChildInv
<1>5. CASE ReadFabric(M(m), "unlock", "unlock2") \/ Unswitch(M(m)) \/ mRelease(M(m))
           \/ DeleteOps(M(m))
  <2>1. ~ChildAlive(m)
    BY <1>5 DEF ChildInv, ReadFabric, Unswitch, mRelease, DeleteOps
  <2> QED
    BY <1>5, <2>1, ControlKept DEF ReadFabric, Unswitch, mRelease, DeleteOps
<1>6. CASE mUpdatePendingCalls(m)
  <2>1. ~ChildAlive(m)
    BY <1>6 DEF ChildInv, mUpdatePendingCalls
  <2> QED
    BY <1>6, <2>1, ControlKept DEF mUpdatePendingCalls
<1> QED
  BY <1>1, <1>2, <1>3, <1>4, <1>5, <1>6 DEF MasterStep, Release

LEMMA ControlNext ==
    ASSUME TableTypes, OnePerCluster, ChildInv, OneByOne, [Next]_vars
    PROVE  (OnePerCluster /\ ChildInv)'
<1> USE Procs DEF TableTypes, tables, flags, Goto, Set, Engaged, ChildAlive
<1>1. ASSUME NEW m \in Master, ChildStep(m) PROVE (OnePerCluster /\ ChildInv)'
  <2>1. ChildAlive(m) /\ UNCHANGED entry /\ pc' = [pc EXCEPT ![C(m)] = pc'[C(m)]]
    BY <1>1 DEF ChildStep, Release, ReadFabric, mAcquireLock, Patch, Unswitch,
       mRelease, DeleteOps
  <2> QED
    BY <2>1, ControlKept
<1>2. ASSUME NEW m \in Master, Start(m) PROVE (OnePerCluster /\ ChildInv)'
  <2>1. \A q \in Master : Engaged(q) => ClusterOf[q] # ClusterOf[m]
    BY <1>2 DEF Start, OneByOne, UnderWay
  <2>2. ~ChildAlive(m)
    BY <1>2 DEF Start, ChildInv
  <2>3. \A q \in Master : /\ Engaged(q)' => Engaged(q) \/ q = m
                          /\ ChildAlive(q)' => /\ ChildAlive(q) /\ q # m
                                               /\ pc'[M(q)] = pc[M(q)]
                                               /\ entry'[q] = entry[q]
    BY <1>2, <2>2 DEF Start
  <2> QED
    BY <2>1, <2>3 DEF OnePerCluster, ChildInv
<1>3. ASSUME NEW m \in Master, StartFails(m) \/ SendFails(m) \/ SendRaises(m)
      PROVE (OnePerCluster /\ ChildInv)'
  <2>1. ~ChildAlive(m)
    BY <1>3 DEF ChildInv, StartFails, SendFails, SendRaises
  <2> QED
    BY <1>3, <2>1, ControlKept DEF StartFails, SendFails, SendRaises
<1>4. ASSUME NEW m \in Master, MonitorTimesOut(m) \/ KillChild(m) \/ KillMaster(m)
      PROVE (OnePerCluster /\ ChildInv)'
  BY <1>4, ControlKept DEF MonitorTimesOut, KillChild, KillMaster
<1>5. CASE UNCHANGED vars
  BY <1>5, ControlKept DEF vars
<1> QED
  BY <1>1, <1>2, <1>3, <1>4, <1>5, ControlMaster DEF Next

-----------------------------------------------------------------------------
(* The fabric's row                                                         *)

\* Steps that neither lock nor unlock, nor read the row for it.
LEMMA QuietStep ==
    ASSUME ReadInv, FabricInv,
           fabric'.clusters = fabric.clusters, fabric'.lockedfor = fabric.lockedfor,
           fabric'.count = fabric.count,
           \A p \in Proc : pc'[p] \in Locking => pc[p] \in Locking /\ row'[p] = row[p]
    PROVE  /\ ReadInv' /\ FabricInv'
           /\ HeldInv /\ (\A m \in Master : Held(m)' => Held(m)) => HeldInv'
<1>1. ReadInv'
  BY DEF ReadInv
<1>2. FabricInv'
  BY DEF FabricInv, CountAgrees
<1>3. HeldInv /\ (\A m \in Master : Held(m)' => Held(m)) => HeldInv'
  BY DEF HeldInv, LockedFor
<1> QED
  BY <1>1, <1>2, <1>3

LEMMA ReadStep ==
    ASSUME TableInv, ~Races, NEW p \in Proc, NEW from, NEW to \in Locking,
           ReadFabric(p, from, to)
    PROVE  /\ ReadInv' /\ FabricInv'
           /\ HeldInv /\ (\A m \in Master : Held(m)' => Held(m)) => HeldInv'
<1>1. UNCHANGED fabric /\ row' = [row EXCEPT ![p] = fabric]
      /\ pc' = [pc EXCEPT ![p] = to]
      /\ \A q \in Proc : pc[q] \notin Locking
  BY DEF ReadFabric, tables, Goto
<1>2. ReadInv'
  BY <1>1 DEF TableInv, ReadInv, TableTypes
<1>3. FabricInv'
  BY <1>1 DEF TableInv, FabricInv, CountAgrees
<1>4. HeldInv /\ (\A m \in Master : Held(m)' => Held(m)) => HeldInv'
  BY <1>1 DEF HeldInv, LockedFor
<1> QED
  BY <1>2, <1>3, <1>4

\* A process that writes the row leaves its transaction.
LEMMA WriteRead ==
    ASSUME TableTypes, ReadInv, NEW p \in Proc, pc[p] \in Locking,
           \A q \in Proc \ {p} : pc'[q] = pc[q],
           pc'[p] \notin Locking
    PROVE  ReadInv'
<1>1. \A q \in Proc : pc'[q] \notin Locking
  BY DEF ReadInv
<1> QED
  BY <1>1 DEF ReadInv

LEMMA LockStep ==
    ASSUME TableInv, NEW p \in Proc, pc[p] \in Locking,
           CanLock(p), WriteLock(p)
    PROVE  /\ FabricInv'
           /\ ClusterOf[p[2]] \in fabric'.clusters
           /\ fabric'.lockedfor = LockedFor(p[2])
           /\ \A m \in Master : /\ ClusterOf[m] \in fabric.clusters
                                /\ fabric.lockedfor = LockedFor(m)
                                => /\ ClusterOf[m] \in fabric'.clusters
                                   /\ fabric'.lockedfor = LockedFor(m)
<1> DEFINE c == ClusterOf[p[2]]
<1>1. /\ c \notin fabric.clusters /\ fabric.lockedfor # "ibswitch"
      /\ p[2] \in Switch => fabric.lockedfor = "none"
  BY DEF CanLock, TableInv, ReadInv
<1>2. /\ fabric'.clusters = fabric.clusters \cup {c}
      /\ fabric'.lockedfor = LockedFor(p[2])
      /\ fabric'.count = fabric.count + 1
  BY DEF WriteLock, TableInv, ReadInv, TableTypes, Rows
<1>3. /\ IsFiniteSet(fabric.clusters) /\ fabric.count = Cardinality(fabric.clusters)
      /\ fabric.lockedfor = "none" <=> fabric.clusters = {}
      /\ fabric.lockedfor \in {"none", "ibswitch", "non_ibswitch"}
  BY DEF TableInv, FabricInv, CountAgrees, TableTypes, Rows
<1>4. LockedFor(p[2]) \in {"ibswitch", "non_ibswitch"}
      /\ (LockedFor(p[2]) = "ibswitch" <=> p[2] \in Switch)
  BY Procs, Masters
<1>5. IsFiniteSet(fabric'.clusters)
      /\ Cardinality(fabric'.clusters) = Cardinality(fabric.clusters) + 1
  <2> DEFINE S == fabric.clusters
  <2>1. IsFiniteSet(S) /\ c \notin S /\ fabric'.clusters = S \cup {c}
    BY <1>1, <1>2, <1>3
  <2> HIDE DEF c, S
  <2>2. IsFiniteSet(S \cup {c}) /\ Cardinality(S \cup {c}) = Cardinality(S) + 1
    BY <2>1, FS_AddElement
  <2>3. /\ IsFiniteSet(fabric'.clusters)
        /\ Cardinality(fabric'.clusters) = Cardinality(S) + 1
    BY <2>1, <2>2
  <2> QED
    BY <2>3 DEF S
<1>6. FabricInv'
  <2>1. fabric'.lockedfor = "ibswitch" => \A a, b \in fabric'.clusters : a = b
    BY <1>1, <1>2, <1>3, <1>4
  <2> QED
    BY <1>2, <1>3, <1>4, <1>5, <2>1 DEF FabricInv, CountAgrees
<1>7. ASSUME NEW m \in Master, ClusterOf[m] \in fabric.clusters,
             fabric.lockedfor = LockedFor(m)
      PROVE  /\ ClusterOf[m] \in fabric'.clusters
             /\ fabric'.lockedfor = LockedFor(m)
  BY <1>1, <1>2, <1>3, <1>4, <1>7, Masters
<1> QED
  BY <1>2, <1>6, <1>7

LEMMA UnlockStep ==
    ASSUME TableInv, NEW p \in Proc, pc[p] \in Locking, WriteUnlock(p)
    PROVE  /\ FabricInv'
           /\ \A m \in Master : /\ ClusterOf[m] \in fabric.clusters
                                /\ ClusterOf[m] # ClusterOf[p[2]]
                                /\ fabric.lockedfor = LockedFor(m)
                                => /\ ClusterOf[m] \in fabric'.clusters
                                   /\ fabric'.lockedfor = LockedFor(m)
<1> DEFINE c == ClusterOf[p[2]]
           rest == fabric.clusters \ {c}
<1>1. row[p].clusters = fabric.clusters /\ row[p].lockedfor = fabric.lockedfor
  BY DEF TableInv, ReadInv
<1>2. CASE c \notin fabric.clusters
  <2>1. UNCHANGED fabric
    BY <1>1, <1>2 DEF WriteUnlock, Unlocked
  <2> QED
    BY <2>1 DEF TableInv, FabricInv, CountAgrees
<1>3. CASE c \in fabric.clusters
  <2>1. /\ fabric'.clusters = rest
        /\ fabric'.lockedfor = IF rest = {} THEN "none" ELSE fabric.lockedfor
        /\ fabric'.count = fabric.count - 1
    <3> DEFINE f == IF rest = {} THEN "none" ELSE fabric.lockedfor
               n == fabric.count - 1
    <3>1. fabric' = [fabric EXCEPT !.clusters = rest, !.lockedfor = f, !.count = n]
      BY <1>1, <1>3 DEF WriteUnlock, Unlocked, Rest
    <3>2. fabric \in Rows
      BY DEF TableInv, TableTypes
    <3> HIDE DEF f, n, rest
    <3>3. fabric'.clusters = rest /\ fabric'.lockedfor = f /\ fabric'.count = n
      BY <3>1, <3>2 DEF Rows
    <3> QED
      BY <3>3 DEF f, n
  <2>2. /\ IsFiniteSet(fabric.clusters) /\ fabric.count = Cardinality(fabric.clusters)
        /\ fabric.lockedfor = "none" <=> fabric.clusters = {}
        /\ fabric.lockedfor = "ibswitch" => \A a, b \in fabric.clusters : a = b
    BY DEF TableInv, FabricInv, CountAgrees
  <2>3. IsFiniteSet(rest) /\ Cardinality(rest) = Cardinality(fabric.clusters) - 1
    BY <1>3, <2>2, FS_RemoveElement
  <2>4. FabricInv'
    BY <1>3, <2>1, <2>2, <2>3 DEF FabricInv, CountAgrees
  <2>5. \A m \in Master : /\ ClusterOf[m] \in fabric.clusters
                          /\ ClusterOf[m] # c /\ fabric.lockedfor = LockedFor(m)
                          => /\ ClusterOf[m] \in rest
                             /\ fabric'.lockedfor = LockedFor(m)
    BY <2>1
  <2> QED
    BY <2>1, <2>4, <2>5
<1> QED
  BY <1>2, <1>3

\* mDispatchCall leaves its master before the lock, at the insert of a guest,
\* or where an answered call goes; the fabric and what was read of it stay.
LEMMA DispatchSteps ==
    ASSUME NEW m \in Master, DOMAIN pc = Proc, mDispatchCall(m)
    PROVE  /\ UNCHANGED fabric /\ UNCHANGED row
           /\ \A p \in Proc \ {M(m)} : pc'[p] = pc[p]
           /\ pc'[M(m)] \in {"poll", "relcmd", "lock", "insertops"}
           /\ Parallel = {} => pc'[M(m)] # "insertops"
<1>1. UNCHANGED fabric /\ UNCHANGED row
  BY DEF mDispatchCall, tables
<1>2. \/ Goto(M(m), Back(m)) \/ Goto(M(m), "lock")
      \/ Goto(M(m), "insertops") /\ \E q \in Master : <<q, m>> \in Parallel
  <2> DEFINE rows == IF m \in Switch THEN {} ELSE SameCluster(m)
             guest == Cardinality(rows) = 1 /\ \E q \in rows : <<q, m>> \in Parallel
  <2>1. \/ Goto(M(m), Back(m))
        \/ Goto(M(m), IF guest THEN "insertops" ELSE "lock")
    BY Zenon DEF mDispatchCall
  <2>2. CASE guest
    <3>1. \E q \in rows : <<q, m>> \in Parallel
      BY <2>2
    <3>2. \E q \in Master : <<q, m>> \in Parallel
      BY <3>1, PatchAssumption DEF PatchAssumption
    <3> HIDE DEF guest
    <3> QED
      BY <2>1, <2>2, <3>2
  <2>3. CASE ~guest
    <3> HIDE DEF guest
    <3> QED
      BY <2>1, <2>3
  <2> QED
    BY <2>2, <2>3
<1>3. Back(m) \in {"poll", "relcmd"}
  BY DEF Back
<1>4. M(m) \in Proc /\ \A pcs \in {"poll", "relcmd", "lock", "insertops"} :
         Goto(M(m), pcs) => pc'[M(m)] = pcs /\ \A p \in Proc \ {M(m)} : pc'[p] = pc[p]
  BY Procs DEF Goto
<1>5. PICK to \in {"poll", "relcmd", "lock", "insertops"} :
         Goto(M(m), to) /\ (Parallel = {} => to # "insertops")
  BY <1>2, <1>3
<1> QED
  BY <1>1, <1>4, <1>5

LEMMA LockMaster ==
    ASSUME TableInv, ~Races, NEW m \in Master, MasterStep(m)
    PROVE  /\ ReadInv' /\ FabricInv'
           /\ PatchInv /\ OneByOne => HeldInv'
<1> USE Procs DEF TableInv, PatchInv, TableTypes, tables, flags, Goto, Set, Locking, Held
<1>1. CASE \/ CheckPatchCmd(m) \/ mLockPatchCmd(m) \/ mGetCountOfRequests(m)
           \/ mReleasePatchCmd(m) \/ Finish(m) \/ DeleteOps(M(m))
  <2>1. UNCHANGED fabric /\ UNCHANGED row /\ (\A p \in Proc \ {M(m)} : pc'[p] = pc[p])
    BY <1>1 DEF CheckPatchCmd, mLockPatchCmd, mGetCountOfRequests, mReleasePatchCmd,
       Finish, DeleteOps
  <2>2. pc'[M(m)] \notin Locking \cup {"insertops", "send"}
    BY <1>1 DEF CheckPatchCmd, mLockPatchCmd, mGetCountOfRequests, mReleasePatchCmd,
       Finish, DeleteOps, Back
  <2> QED
    BY <2>1, <2>2, QuietStep
<1>2. CASE mPopulatePatchTables(m) \/ mMonitorPatchRequest(m) \/ mUpdatePendingCalls(m)
  <2>1. Refresh(M(m)) /\ (\A p \in Proc \ {M(m)} : pc'[p] = pc[p])
        /\ pc'[M(m)] \notin Locking \cup {"insertops", "send"}
    BY <1>2 DEF mPopulatePatchTables, mMonitorPatchRequest, mUpdatePendingCalls
  <2>2. /\ fabric'.clusters = fabric.clusters /\ fabric'.lockedfor = fabric.lockedfor
        /\ fabric'.count = fabric.count
        /\ \A p \in Proc \ {M(m)} : row'[p] = row[p]
    BY <2>1 DEF Refresh, Rows
  <2> QED
    BY <2>1, <2>2, QuietStep
<1>3. CASE SetDoSwitch(m)
  <2>1. /\ fabric'.clusters = fabric.clusters /\ fabric'.lockedfor = fabric.lockedfor
        /\ fabric'.count = fabric.count
        /\ \A p \in Proc \ {M(m)} : row'[p] = row[p] /\ pc'[p] = pc[p]
        /\ pc'[M(m)] = "count"
    BY <1>3 DEF SetDoSwitch, Rows
  <2> QED
    BY <2>1, QuietStep
<1>4. CASE mDispatchCall(m)
  <2>1. UNCHANGED fabric /\ UNCHANGED row /\ (\A p \in Proc \ {M(m)} : pc'[p] = pc[p])
    BY <1>4, DispatchSteps
  <2>2. /\ pc'[M(m)] \in {"poll", "relcmd", "lock", "insertops"}
        /\ OneByOne => pc'[M(m)] # "insertops"
    BY <1>4, DispatchSteps DEF OneByOne
  <2>3. /\ pc'[M(m)] \notin Locking
        /\ OneByOne => pc'[M(m)] \in {"poll", "relcmd", "lock"}
    BY <2>2
  <2> QED
    BY <2>1, <2>3, QuietStep
<1>5. CASE InsertOps(m) \/ mIssueRequest(m)
  <2>1. UNCHANGED fabric /\ UNCHANGED row
        /\ (\A p \in Proc \ {M(m), C(m)} : pc'[p] = pc[p])
        /\ pc'[M(m)] \in {"send", "poll", "relcmd"} /\ pc'[C(m)] \in {pc[C(m)], "check"}
        /\ pc[M(m)] \in {"insertops", "send"}
    BY <1>5 DEF InsertOps, mIssueRequest, Back
  <2> QED
    BY <2>1, QuietStep
<1>6. CASE \/ ReadFabric(M(m), "lock", "lock2") \/ ReadFabric(M(m), "unlock", "unlock2")
  <2>1. \A q \in Master : Held(q)' => Held(q)
    BY <1>6 DEF ReadFabric
  <2> QED
    BY <1>6, <2>1, ReadStep
<1>7. CASE Unswitch(M(m))
  <2>1. /\ fabric'.clusters = fabric.clusters /\ fabric'.lockedfor = fabric.lockedfor
        /\ fabric'.count = fabric.count /\ UNCHANGED row
        /\ \A p \in Proc \ {M(m)} : pc'[p] = pc[p]
        /\ pc'[M(m)] \in {"unlock", "delops"}
    BY <1>7 DEF Unswitch, Rows
  <2> QED
    BY <2>1, QuietStep
<1>8. CASE MasterLocks(m)
  <2>1. /\ pc[M(m)] = "lock2" /\ \A p \in Proc \ {M(m)} : pc'[p] = pc[p]
        /\ pc'[M(m)] \in {"insertops", "poll", "relcmd"}
    BY <1>8 DEF MasterLocks, Back
  <2>2. ReadInv'
    BY <2>1, WriteRead
  <2>3. CASE CanLock(M(m)) /\ WriteLock(M(m))
    BY <2>1, <2>2, <2>3, LockStep DEF HeldInv, LockedFor
  <2>4. CASE UNCHANGED fabric /\ pc'[M(m)] # "insertops"
    BY <2>1, <2>2, <2>4 DEF FabricInv, CountAgrees, HeldInv, LockedFor
  <2> QED
    BY <1>8, <2>3, <2>4 DEF MasterLocks, Back
<1>9. CASE mRelease(M(m))
  <2>1. /\ pc[M(m)] = "unlock2" /\ \A p \in Proc \ {M(m)} : pc'[p] = pc[p]
        /\ pc'[M(m)] = "delops" /\ WriteUnlock(M(m))
    BY <1>9 DEF mRelease
  <2>2. ReadInv'
    BY <2>1, WriteRead
  <2>3. PatchInv => \A q \in Master : Held(q)' => Held(q) /\ ClusterOf[q] # ClusterOf[m]
    BY <2>1 DEF OnePerCluster, Engaged, ChildAlive, ChildInv
  <2> QED
    BY <2>1, <2>2, <2>3, UnlockStep DEF HeldInv, LockedFor
<1> QED
  BY <1>1, <1>2, <1>3, <1>4, <1>5, <1>6, <1>7, <1>8, <1>9 DEF MasterStep, Release

LEMMA LockChild ==
    ASSUME TableInv, ~Races, NEW m \in Master, ChildStep(m)
    PROVE  /\ ReadInv' /\ FabricInv'
           /\ PatchInv /\ OneByOne => HeldInv'
<1> USE Procs DEF TableInv, PatchInv, TableTypes, tables, flags, Goto, Set, Locking, Held
<1>1. CASE \/ ReadFabric(C(m), "check", "lock2") \/ ReadFabric(C(m), "unlock", "unlock2")
  <2>1. \A q \in Master : Held(q)' => Held(q)
    BY <1>1 DEF ReadFabric
  <2> QED
    BY <1>1, <2>1, ReadStep
<1>2. CASE mAcquireLock(m)
  <2>1. /\ pc[C(m)] = "lock2" /\ \A p \in Proc \ {C(m)} : pc'[p] = pc[p]
        /\ pc'[C(m)] = "exec"
    BY <1>2 DEF mAcquireLock
  <2>2. ReadInv'
    BY <2>1, WriteRead
  <2>3. CASE CanLock(C(m)) /\ WriteLock(C(m))
    BY <2>1, <2>2, <2>3, LockStep DEF HeldInv, LockedFor
  <2>4. CASE UNCHANGED fabric
    BY <2>1, <2>2, <2>4 DEF FabricInv, CountAgrees, HeldInv, LockedFor
  <2> QED
    BY <1>2, <2>3, <2>4 DEF mAcquireLock
<1>3. CASE Patch(m) \/ DeleteOps(C(m))
  <2>1. UNCHANGED fabric /\ UNCHANGED row /\ (\A p \in Proc \ {C(m)} : pc'[p] = pc[p])
        /\ pc'[C(m)] \in {"unswitch", "delops", "done"}
    BY <1>3 DEF Patch, DeleteOps
  <2> QED
    BY <2>1, QuietStep
<1>4. CASE Unswitch(C(m))
  <2>1. /\ fabric'.clusters = fabric.clusters /\ fabric'.lockedfor = fabric.lockedfor
        /\ fabric'.count = fabric.count /\ UNCHANGED row
        /\ \A p \in Proc \ {C(m)} : pc'[p] = pc[p]
        /\ pc'[C(m)] \in {"unlock", "delops"}
    BY <1>4 DEF Unswitch, Rows
  <2> QED
    BY <2>1, QuietStep
<1>5. CASE mRelease(C(m))
  <2>1. /\ pc[C(m)] = "unlock2" /\ \A p \in Proc \ {C(m)} : pc'[p] = pc[p]
        /\ pc'[C(m)] = "delops" /\ WriteUnlock(C(m))
    BY <1>5 DEF mRelease
  <2>2. ReadInv'
    BY <2>1, WriteRead
  <2>3. PatchInv => \A q \in Master : Held(q)' => Held(q) /\ ClusterOf[q] # ClusterOf[m]
    BY <2>1 DEF OnePerCluster, Engaged, ChildAlive, ChildInv
  <2> QED
    BY <2>1, <2>2, <2>3, UnlockStep DEF HeldInv, LockedFor
<1> QED
  BY <1>1, <1>2, <1>3, <1>4, <1>5 DEF ChildStep, Release

LEMMA LockNext ==
    ASSUME TableInv, ~Races, [Next]_vars
    PROVE  /\ ReadInv' /\ FabricInv'
           /\ PatchInv /\ OneByOne => HeldInv'
<1> USE Procs DEF TableInv, PatchInv, TableTypes, tables, flags, Goto, Locking, Held
<1>1. ASSUME NEW m \in Master,
             \/ Start(m) \/ StartFails(m) \/ SendFails(m) \/ SendRaises(m)
             \/ MonitorTimesOut(m) \/ KillMaster(m)
      PROVE  /\ ReadInv' /\ FabricInv'
             /\ PatchInv => HeldInv'
  <2>1. UNCHANGED fabric /\ UNCHANGED row /\ (\A p \in Proc \ {M(m)} : pc'[p] = pc[p])
        /\ pc'[M(m)] \in {"checkcmd", "relend", "unswitch", "ended"}
    BY <1>1 DEF Start, StartFails, SendFails, SendRaises, MonitorTimesOut, KillMaster
  <2> QED
    BY <2>1, QuietStep
<1>2. ASSUME NEW m \in Master, KillChild(m)
      PROVE  /\ ReadInv' /\ FabricInv'
             /\ PatchInv => HeldInv'
  <2>1. UNCHANGED fabric /\ UNCHANGED row /\ (\A p \in Proc \ {C(m)} : pc'[p] = pc[p])
        /\ pc'[C(m)] = "done"
    BY <1>2 DEF KillChild
  <2> QED
    BY <2>1, QuietStep
<1>3. CASE UNCHANGED vars
  BY <1>3, QuietStep DEF vars
<1> QED
  BY <1>1, <1>2, <1>3, LockMaster, LockChild DEF Next

-----------------------------------------------------------------------------

LEMMA InitPatch == ASSUME Init PROVE PatchInv
<1>1. NoFabric \in Rows /\ NoFabric.clusters = {} /\ NoFabric.count = 0
      /\ NoFabric.lockedfor = "none"
  BY DEF NoFabric, Rows
<1>2. TableTypes
  BY <1>1 DEF Init, TableTypes
<1>3. FabricInv
  BY <1>1, FS_EmptySet DEF Init, FabricInv, CountAgrees
<1>4. OnePerCluster /\ ChildInv /\ ReadInv /\ HeldInv
  BY Procs DEF Init, OnePerCluster, ChildInv, ReadInv, HeldInv, Engaged, ChildAlive,
               Held, Locking
<1> QED
  BY <1>2, <1>3, <1>4 DEF PatchInv, TableInv

LEMMA PatchNext == ASSUME PatchInv, OneByOne, [Next]_vars PROVE PatchInv'
<1> QED
  BY TypesNext, ControlNext, LockNext DEF PatchInv, TableInv, OneByOne

\* When the row does not change between read and transaction, it is consistent,
\* and each process writes what it has read: with any requests under way on a
\* cluster, with guests, and with any fault.
THEOREM TableInvariant == ~Races => (Spec => []TableInv)
<1> SUFFICES ASSUME ~Races PROVE Spec => []TableInv
  OBVIOUS
<1>1. TableInv /\ [Next]_vars => TableInv'
  BY TypesNext, LockNext DEF TableInv
<1>2. Init => TableInv
  BY InitPatch DEF PatchInv
<1> QED
  BY <1>1, <1>2, PTL DEF Spec

\* One request per cluster, with its reads and writes of the fabric's row in
\* order: the row says at every moment who may patch, whatever requests the
\* agent refuses, whatever workers are killed and whatever masters give up.
THEOREM FabricInvariant == OneByOne => (Spec => []PatchInv)
<1> SUFFICES ASSUME OneByOne PROVE Spec => []PatchInv
  OBVIOUS
<1>1. PatchInv /\ [Next]_vars => PatchInv'
  BY PatchNext
<1> QED
  BY <1>1, InitPatch, PTL DEF Spec

\* While switches are patched no other cluster of the fabric is patched, whoever
\* of masters and children locks and releases.
THEOREM SwitchesPatchedAlone == OneByOne => (Spec => []SwitchAlone)
<1>1. PatchInv => SwitchAlone
  <2> SUFFICES ASSUME PatchInv, NEW m \in Master, NEW q \in Master, Patching(m),
                      Patching(q), m \in Switch
               PROVE  m = q
    BY DEF SwitchAlone
  <2>1. ClusterOf[m] = ClusterOf[q]
    BY DEF PatchInv, TableInv, HeldInv, FabricInv, Held, Patching, LockedFor
  <2> QED
    BY <2>1 DEF PatchInv, OnePerCluster, Engaged, ChildAlive, Patching
<1> QED
  BY <1>1, FabricInvariant, PTL

\* Nothing is patched without the lock of its cluster, although the master takes
\* it and the child, or a monitor that found the child dead, releases it.
THEOREM PatchedUnderLock == OneByOne => (Spec => []PatchedIsLocked)
<1>1. PatchInv => PatchedIsLocked
  BY DEF PatchInv, HeldInv, Held, PatchedIsLocked, Patching
<1> QED
  BY <1>1, FabricInvariant, PTL

\* The number of locked clusters, their list and what the fabric is locked for
\* agree, although three statements compute them; also when two requests work on
\* one cluster, or patch beside each other.
THEOREM RowConsistent == ~Races => (Spec => []CountAgrees)
<1>1. TableInv => CountAgrees
  BY DEF TableInv, FabricInv
<1> QED
  BY <1>1, TableInvariant, PTL

-----------------------------------------------------------------------------
(* Type correctness                                                         *)

LEMMA LocalsProc ==
    ASSUME TableTypes, LocalTypes, NEW p \in Proc,
           ReadFabric(p, "unlock", "unlock2") \/ Unswitch(p) \/ mRelease(p)
           \/ DeleteOps(p)
    PROVE  LocalTypes'
<1> USE Procs DEF TableTypes, LocalTypes, tables, flags, Goto, Set, MasterPcs, ChildPcs,
                  Shares, Locking
<1>1. pc' = [pc EXCEPT ![p] = pc'[p]]
      /\ UNCHANGED <<registry, acquire, setLock, faults>>
  BY DEF ReadFabric, Unswitch, mRelease, DeleteOps
<1>2. \/ pc'[p] \in {"unlock2", "unlock", "delops"}
      \/ p[1] = "child" /\ pc'[p] = "done"
      \/ p[1] = "master" /\ pc'[p] \in {"relcmd", "poll", "finish"}
  BY DEF ReadFabric, Unswitch, mRelease, DeleteOps, Back
<1> QED
  BY <1>1, <1>2

LEMMA LocalsNext == ASSUME TableTypes, LocalTypes, [Next]_vars PROVE LocalTypes'
<1> USE Procs DEF TableTypes, LocalTypes, tables, flags, Goto, Set, MasterPcs, ChildPcs,
                  Shares, Locking
<1>1. ASSUME NEW m \in Master,
             \/ CheckPatchCmd(m) \/ mLockPatchCmd(m) \/ mPopulatePatchTables(m)
             \/ SetDoSwitch(m) \/ mGetCountOfRequests(m) \/ mReleasePatchCmd(m)
             \/ ReadFabric(M(m), "lock", "lock2") \/ MasterLocks(m) \/ InsertOps(m)
             \/ mMonitorPatchRequest(m) \/ mUpdatePendingCalls(m) \/ Finish(m)
             \/ Start(m)
      PROVE  LocalTypes'
  <2>1. UNCHANGED pc \/ \E l \in MasterPcs \cup Shares : pc' = [pc EXCEPT ![M(m)] = l]
    BY <1>1 DEF CheckPatchCmd, mLockPatchCmd, mPopulatePatchTables, SetDoSwitch,
       mGetCountOfRequests, mReleasePatchCmd, ReadFabric, MasterLocks, InsertOps,
       mMonitorPatchRequest, mUpdatePendingCalls, Finish, Start, Back
  <2>2. registry' \subseteq Master /\ UNCHANGED <<acquire, setLock, faults>>
    BY <1>1 DEF CheckPatchCmd, mLockPatchCmd, mPopulatePatchTables, SetDoSwitch,
       mGetCountOfRequests, mReleasePatchCmd, ReadFabric, MasterLocks, InsertOps,
       mMonitorPatchRequest, mUpdatePendingCalls, Finish, Start
  <2> QED
    BY <2>1, <2>2
<1>2. ASSUME NEW m \in Master, mDispatchCall(m) PROVE LocalTypes'
  <2>1. \E l \in MasterPcs : pc' = [pc EXCEPT ![M(m)] = l]
    BY <1>2 DEF mDispatchCall, Back
  <2>2. \E b \in BOOLEAN : acquire' = [acquire EXCEPT ![m] = b]
    BY <1>2, Zenon DEF mDispatchCall
  <2>3. UNCHANGED <<registry, setLock, faults>>
    BY <1>2 DEF mDispatchCall
  <2> QED
    BY <2>1, <2>2, <2>3
<1>3. ASSUME NEW m \in Master, mIssueRequest(m) PROVE LocalTypes'
  BY <1>3 DEF mIssueRequest, Back
<1>4. ASSUME NEW m \in Master, mAcquireLock(m) PROVE LocalTypes'
  <2>1. \E b \in BOOLEAN : setLock' = [setLock EXCEPT ![m] = b]
    BY <1>4, Zenon DEF mAcquireLock
  <2> QED
    BY <1>4, <2>1 DEF mAcquireLock
<1>5. ASSUME NEW m \in Master, ReadFabric(C(m), "check", "lock2") \/ Patch(m)
      PROVE  LocalTypes'
  BY <1>5 DEF ReadFabric, Patch
<1>6. ASSUME NEW m \in Master,
             StartFails(m) \/ SendFails(m) \/ SendRaises(m) \/ MonitorTimesOut(m)
             \/ KillChild(m) \/ KillMaster(m)
      PROVE  LocalTypes'
  <2>1. \E f \in FaultKind : faults' = [faults EXCEPT ![f] = @ + 1]
    BY <1>6 DEF StartFails, SendFails, SendRaises, MonitorTimesOut, KillChild,
       KillMaster, Fault, FaultKind
  <2>2. faults' \in [FaultKind -> Nat]
    BY <2>1
  <2>3. registry' \subseteq Master /\ UNCHANGED <<acquire, setLock>>
    BY <1>6 DEF StartFails, SendFails, SendRaises, MonitorTimesOut, KillChild,
       KillMaster
  <2>4. \/ \E l \in MasterPcs \cup Shares : pc' = [pc EXCEPT ![M(m)] = l]
        \/ pc' = [pc EXCEPT ![C(m)] = "done"]
    BY <1>6 DEF StartFails, SendFails, SendRaises, MonitorTimesOut, KillChild,
       KillMaster
  <2> QED
    BY <2>2, <2>3, <2>4
<1>7. CASE UNCHANGED vars
  BY <1>7 DEF vars
<1> QED
  BY <1>1, <1>2, <1>3, <1>4, <1>5, <1>6, <1>7, LocalsProc
     DEF Next, MasterStep, ChildStep, Release

\* A release takes one cluster off the list its process has read, or nothing.
LEMMA UnlockClusters ==
    ASSUME fabric \in Rows, NEW p \in Proc, WriteUnlock(p)
    PROVE  \/ fabric'.clusters = fabric.clusters
           \/ fabric'.clusters = row[p].clusters \ {ClusterOf[p[2]]}
<1>1. CASE Unlocked(p)
  <2> DEFINE f == IF Rest(p) = {} THEN "none" ELSE row[p].lockedfor
             n == fabric.count - 1
  <2>1. fabric' = [fabric EXCEPT !.clusters = Rest(p), !.lockedfor = f, !.count = n]
    BY <1>1 DEF WriteUnlock
  <2> HIDE DEF f, n
  <2>2. fabric'.clusters = Rest(p)
    BY <2>1 DEF Rows
  <2> QED
    BY <2>2 DEF Rest
<1>2. CASE ~Unlocked(p)
  BY <1>2 DEF WriteUnlock
<1> QED
  BY <1>1, <1>2

LEMMA NamedNext == ASSUME TableTypes, NamedInv, [Next]_vars PROVE NamedInv'
<1> USE Procs DEF TableTypes, NamedInv, tables, flags, Rows
<1>1. CASE fabric'.clusters = fabric.clusters /\ UNCHANGED row
  BY <1>1
<1>2. ASSUME NEW p \in Proc, NEW from, NEW to, ReadFabric(p, from, to) PROVE NamedInv'
  BY <1>2 DEF ReadFabric
<1>3. ASSUME NEW p \in Proc, Refresh(p) PROVE NamedInv'
  BY <1>3 DEF Refresh
<1>4. ASSUME NEW p \in Proc, WriteLock(p) \/ WriteUnlock(p), UNCHANGED row
      PROVE  NamedInv'
  <2>1. p[2] \in Master /\ ClusterOf[p[2]] \in Named
    BY DEF Named
  <2>2. CASE WriteLock(p)
    <3>1. fabric'.clusters = row[p].clusters \cup {ClusterOf[p[2]]}
      BY <2>2 DEF WriteLock
    <3>2. fabric'.clusters \subseteq Named
      BY <2>1, <3>1
    <3> QED
      BY <1>4, <3>2
  <2>3. CASE WriteUnlock(p)
    <3>1. \/ fabric'.clusters = fabric.clusters
          \/ fabric'.clusters = row[p].clusters \ {ClusterOf[p[2]]}
      BY <2>3, UnlockClusters
    <3>2. fabric'.clusters \subseteq Named
      BY <3>1
    <3> QED
      BY <1>4, <3>2
  <2> QED
    BY <1>4, <2>2, <2>3
<1>5. ASSUME NEW m \in Master, MasterLocks(m) \/ mAcquireLock(m) PROVE NamedInv'
  BY <1>1, <1>4, <1>5 DEF MasterLocks, mAcquireLock
<1>6. ASSUME NEW p \in Proc, mRelease(p) PROVE NamedInv'
  BY <1>4, <1>6 DEF mRelease
<1>7. ASSUME NEW m \in Master,
             mPopulatePatchTables(m) \/ mMonitorPatchRequest(m) \/ mUpdatePendingCalls(m)
      PROVE  NamedInv'
  BY <1>3, <1>7 DEF mPopulatePatchTables, mMonitorPatchRequest, mUpdatePendingCalls
<1>8. ASSUME NEW m \in Master, SetDoSwitch(m) PROVE NamedInv'
  <2>1. /\ fabric'.clusters = fabric.clusters
        /\ \A p \in Proc : row'[p].clusters = row[p].clusters
    BY <1>8 DEF SetDoSwitch
  <2> QED
    BY <2>1
<1>9. ASSUME NEW p \in Proc, Unswitch(p) PROVE NamedInv'
  BY <1>1, <1>9 DEF Unswitch
<1>10. CASE UNCHANGED <<fabric, row>>
  BY <1>1, <1>10
<1>11. ASSUME NEW p \in Proc, Release(p) PROVE NamedInv'
  BY <1>2, <1>6, <1>9, <1>10, <1>11 DEF Release, DeleteOps
<1>12. ASSUME NEW m \in Master, MasterStep(m) PROVE NamedInv'
  <2>1. CASE \/ CheckPatchCmd(m) \/ mLockPatchCmd(m) \/ mGetCountOfRequests(m)
             \/ mReleasePatchCmd(m) \/ mDispatchCall(m) \/ InsertOps(m)
             \/ mIssueRequest(m) \/ Finish(m)
    BY <1>10, <2>1 DEF CheckPatchCmd, mLockPatchCmd, mGetCountOfRequests,
       mReleasePatchCmd, mDispatchCall, InsertOps, mIssueRequest, Finish
  <2> QED
    BY <1>2, <1>5, <1>7, <1>8, <1>11, <1>12, <2>1 DEF MasterStep
<1>13. ASSUME NEW m \in Master, ChildStep(m) PROVE NamedInv'
  BY <1>2, <1>5, <1>10, <1>11, <1>13 DEF ChildStep, Patch
<1>14. ASSUME NEW m \in Master,
              \/ Start(m) \/ StartFails(m) \/ SendFails(m) \/ SendRaises(m)
              \/ MonitorTimesOut(m) \/ KillChild(m) \/ KillMaster(m)
       PROVE  NamedInv'
  BY <1>10, <1>14 DEF Start, StartFails, SendFails, SendRaises, MonitorTimesOut,
     KillChild, KillMaster
<1>15. CASE UNCHANGED vars
  BY <1>10, <1>15 DEF vars
<1> QED
  BY <1>12, <1>13, <1>14, <1>15 DEF Next

\* The variables keep their types.  The column count is the hard part: it is
\* counted up and down on its own, by masters and children, and still never
\* goes below zero or above the number of clusters.
THEOREM DispatchTypes == ~Races => (Spec => []TypeOK)
<1>1. Init => LocalTypes /\ NamedInv
  BY Procs DEF Init, LocalTypes, NamedInv, MasterPcs, ChildPcs, FaultKind, NoFabric
<1>2. TableInv /\ LocalTypes /\ NamedInv /\ [Next]_vars => LocalTypes' /\ NamedInv'
  BY LocalsNext, NamedNext DEF TableInv
<1>3. TableInv /\ LocalTypes /\ NamedInv => TypeOK
  <2> SUFFICES ASSUME TableInv, LocalTypes, NamedInv PROVE TypeOK
    OBVIOUS
  <2>1. fabric.count \in 0..Cardinality(Named)
    <3>1. IsFiniteSet(Named)
      BY Masters, PatchAssumption, FS_Subset DEF PatchAssumption, Named
    <3>2. /\ Cardinality(fabric.clusters) \in Nat /\ Cardinality(Named) \in Nat
          /\ Cardinality(fabric.clusters) <= Cardinality(Named)
      BY <3>1, FS_Subset, FS_CardinalityType DEF NamedInv
    <3> QED
      BY <3>2 DEF TableInv, FabricInv, CountAgrees
  <2>2. /\ fabric.clusters \subseteq Cluster /\ fabric.doSwitch \in BOOLEAN
        /\ fabric.lockedfor \in {"none", "ibswitch", "non_ibswitch"}
        /\ ops \subseteq Master /\ entry \in [Master -> {"none", "error", "sent"}]
    BY DEF TableInv, TableTypes, Rows
  <2>3. \A f \in DOMAIN faults : faults[f] \in Nat
    BY DEF LocalTypes
  <2> QED
    BY <2>1, <2>2, <2>3 DEF LocalTypes, TypeOK, Named
<1> QED
  BY <1>1, <1>2, <1>3, TableInvariant, PTL DEF Spec
=============================================================================
