----------------------------- MODULE PatchDispatch -----------------------------
(***************************************************************************)
(* Infrastructure patching: master requests, which patch one target of one *)
(* cluster each, share an InfiniBand fabric.  Many clusters may be patched *)
(* at a time, or the switches of the fabric, never both.  The row of the   *)
(* fabric in table ibfabriclocks says what is going on.                    *)
(*                                                                         *)
(* A master takes the lock of its cluster and sends a child request to the *)
(* agent; the child, in another worker, checks the lock, patches and       *)
(* releases it; the master polls the child and cleans up what is left.     *)
(* Every SQL statement is an action of its own.                            *)
(***************************************************************************)
EXTENDS Integers, FiniteSets

CONSTANTS Master,     \* master patch requests
          Cluster,    \* clusters attached to the fabric
          TargetOf,   \* master -> its target: "ibswitch", "dom0", "domu", "cell"
          ClusterOf,  \* master -> its cluster
          Parallel,   \* (running, incoming): allowed beside each other, no lock
          Shared,     \* may two requests for one cluster be under way at once
          Races,      \* may the fabric's row change between read and transaction
          MaxEarly,   \* masters that fail before they have taken the master lock
          MaxSend,    \* child requests the agent does not accept
          MaxRaise,   \* exceptions while a child request is sent
          MaxKill,    \* workers killed that execute a child request
          MaxKillMaster, \* ... or a master request
          MaxTimeout, \* monitors that time out
          MaxFaults   \* all of these together

ASSUME PatchAssumption ==
    /\ TargetOf \in [Master -> {"ibswitch", "dom0", "domu", "cell"}] /\ ClusterOf \in [Master -> Cluster]
    /\ IsFiniteSet(Cluster)
    /\ Parallel \subseteq Master \X Master
    /\ Shared \in BOOLEAN /\ Races \in BOOLEAN
    /\ MaxEarly \in Nat /\ MaxSend \in Nat /\ MaxRaise \in Nat /\ MaxKill \in Nat
    /\ MaxKillMaster \in Nat /\ MaxTimeout \in Nat /\ MaxFaults \in Nat

VARIABLES registry, \* masters with a row of the master lock in table registry
          fabric,   \* the row of table ibfabriclocks
          ops,      \* masters with a row in table clusterpatchoperations
          pc,       \* where the master and the child of a request are
          row,      \* the fabric's row as they have read it
          acquire,  \* master -> __acquire_lock
          entry,    \* master -> its element of __pending_requests
          setLock,  \* master -> __set_lock of its child
          faults    \* what the environment has used up

tables == <<registry, fabric, ops>>
flags == <<acquire, entry, setLock>>
vars == <<tables, pc, row, flags, faults>>

Switch == {m \in Master : TargetOf[m] = "ibswitch"}

Proc == {"master", "child"} \X Master
M(m) == <<"master", m>>
C(m) == <<"child", m>>

Goto(p, l) == pc' = [pc EXCEPT ![p] = l]
Set(f, m, v) == [f EXCEPT ![m] = v]

\* The environment does something it can do only so often.
Spent == faults.early + faults.send + faults.raise + faults.kill + faults.master
         + faults.timeout
Fault(f, max) == /\ faults[f] < max /\ Spent < MaxFaults
                 /\ faults' = [faults EXCEPT ![f] = @ + 1]

NoFabric == [clusters |-> {}, lockedfor |-> "none", count |-> 0, doSwitch |-> FALSE]

Init ==
    /\ registry = {} /\ fabric = NoFabric /\ ops = {}
    /\ pc = [p \in Proc |-> "idle"]
    /\ row = [p \in Proc |-> NoFabric]
    /\ acquire = [m \in Master |-> FALSE]
    /\ entry = [m \in Master |-> "none"]
    /\ setLock = [m \in Master |-> FALSE]
    /\ faults = [early |-> 0, send |-> 0, raise |-> 0, kill |-> 0, master |-> 0,
               timeout |-> 0]

UnderWay(m) == pc[M(m)] \notin {"idle", "ended"} \/ pc[C(m)] \notin {"idle", "done"}

-----------------------------------------------------------------------------
(* Table ibfabriclocks.                                                     *)

LockedFor(m) == IF m \in Switch THEN "ibswitch" ELSE "non_ibswitch"

\* mManageIBFabricLock reads the row before it begins its transaction ...
Locking == {"lock2", "unlock2"}
ReadFabric(p, from, to) ==
    /\ pc[p] = from
    /\ Races \/ \A q \in Proc : pc[q] \notin Locking
    /\ row' = [row EXCEPT ![p] = fabric]
    /\ Goto(p, to)
    /\ UNCHANGED <<tables, flags, faults>>

\* ... and decides and computes the list of clusters from what it has read.
CanLockShared(p) == /\ ClusterOf[p[2]] \notin row[p].clusters
                    /\ row[p].lockedfor # "ibswitch"
CanLock(p) ==
    /\ ClusterOf[p[2]] \notin row[p].clusters
    /\ row[p].lockedfor # "ibswitch"
    /\ p[2] \in Switch => row[p].lockedfor = "none" /\ row[p].count = 0

WriteLock(p) ==
    fabric' = [fabric EXCEPT !.clusters = row[p].clusters \cup {ClusterOf[p[2]]},
                             !.lockedfor = LockedFor(p[2]),
                             !.count = @ + 1]

\* Releasing a cluster that is not in the list changes nothing.
Rest(p) == row[p].clusters \ {ClusterOf[p[2]]}
Unlocked(p) == ClusterOf[p[2]] \in row[p].clusters
WriteUnlockKeepsFor(p) ==
    IF Unlocked(p)
    THEN fabric' = [fabric EXCEPT !.clusters = Rest(p), !.lockedfor = row[p].lockedfor,
                                  !.count = @ - 1]
    ELSE UNCHANGED fabric
WriteUnlockNoCount(p) ==
    IF Unlocked(p)
    THEN fabric' = [fabric EXCEPT !.clusters = Rest(p),
                                  !.lockedfor = IF Rest(p) = {} THEN "none"
                                                ELSE row[p].lockedfor]
    ELSE UNCHANGED fabric
WriteUnlock(p) ==
    IF Unlocked(p)
    THEN fabric' = [fabric EXCEPT !.clusters = Rest(p),
                                  !.lockedfor = IF Rest(p) = {} THEN "none"
                                                ELSE row[p].lockedfor,
                                  !.count = @ - 1]
    ELSE UNCHANGED fabric

\* mRefreshData reads the row; do_switch of a session that looks stale is reset.
StaleSession(f) == f.doSwitch /\ f.clusters = {} /\ f.count > 0
Refresh(p) ==
    LET f == [fabric EXCEPT !.doSwitch = @ /\ ~StaleSession(fabric)]
    IN fabric' = f /\ row' = [row EXCEPT ![p] = f]

-----------------------------------------------------------------------------
(* mStartPatchRequestExecution: under the master lock.                      *)

\* Log directory, JSON file and disk space are fine.
Start(m) ==
    /\ pc[M(m)] = "idle"
    /\ Shared \/ \A q \in Master : UnderWay(q) => ClusterOf[q] # ClusterOf[m]
    /\ Goto(M(m), "checkcmd")
    /\ UNCHANGED <<tables, row, flags, faults>>

\* They are not: the finally clause releases the master lock all the same.
StartFails(m) ==
    /\ pc[M(m)] = "idle"
    /\ Fault("early", MaxEarly)
    /\ Goto(M(m), "relend")
    /\ UNCHANGED <<tables, row, flags>>

\* mLockPatchCmd waits until there is no row, or gives up.
CheckPatchCmd(m) ==
    /\ pc[M(m)] = "checkcmd"
    /\ IF registry = {} THEN Goto(M(m), "setcmd") ELSE Goto(M(m), "ended")
    /\ UNCHANGED <<tables, row, flags, faults>>
mLockPatchCmd(m) ==
    /\ pc[M(m)] = "setcmd"
    /\ registry' = registry \cup {m}
    /\ Goto(M(m), "populate")
    /\ UNCHANGED <<fabric, ops, row, flags, faults>>

\* mPopulatePatchTables: the fabric is registered; do_switch for a switch task.
mPopulatePatchTables(m) ==
    /\ pc[M(m)] = "populate"
    /\ Refresh(M(m))
    /\ Goto(M(m), IF m \in Switch THEN "setswitch" ELSE "count")
    /\ UNCHANGED <<registry, ops, flags, faults>>
SetDoSwitch(m) ==
    /\ pc[M(m)] = "setswitch"
    /\ row' = [row EXCEPT ![M(m)].doSwitch = TRUE]
    /\ fabric' = IF row[M(m)].doSwitch THEN fabric
                                       ELSE [fabric EXCEPT !.doSwitch = TRUE]
    /\ Goto(M(m), "count")
    /\ UNCHANGED <<registry, ops, flags, faults>>

\* mGetCountOfRequests is 0 beside a switch task, or for one beside others.
Refused(m) ==
    LET f == row[M(m)] IN
    /\ f.clusters # {}
    /\ \/ f.doSwitch /\ f.lockedfor = "ibswitch"
       \/ m \in Switch /\ f.lockedfor = "non_ibswitch"
mGetCountOfRequests(m) ==
    /\ pc[M(m)] = "count"
    /\ Goto(M(m), IF Refused(m) THEN "relend"
                  ELSE IF m \in Switch THEN "relcmd" ELSE "dispatch")
    /\ UNCHANGED <<tables, row, flags, faults>>

\* finally: mReleasePatchCmd deletes every row of the master lock.
mReleasePatchCmd(m) ==
    /\ pc[M(m)] \in {"relcmd", "relend"}
    /\ registry' = {}
    /\ Goto(M(m), IF pc[M(m)] = "relend" THEN "ended"
                  ELSE IF entry[m] = "none" THEN "monitor" ELSE "poll")
    /\ UNCHANGED <<fabric, ops, row, flags, faults>>

-----------------------------------------------------------------------------
(* mDispatchCall                                                            *)

\* Where mDispatchCall returns to: it is called under the master lock, or by
\* the monitor for a switch task.
Back(m) == IF m \in Switch THEN "poll" ELSE "relcmd"

SameCluster(m) == {q \in ops : ClusterOf[q] = ClusterOf[m]}

\* The rows of the cluster decide whether a lock is needed.
mDispatchCall(m) ==
    /\ pc[M(m)] = "dispatch"
    /\ LET rows == IF m \in Switch THEN {} ELSE SameCluster(m)
           guest == Cardinality(rows) = 1 /\ \E q \in rows : <<q, m>> \in Parallel
       IN /\ acquire' = Set(acquire, m, ~guest)
          /\ IF Cardinality(rows) >= 2
             THEN entry' = Set(entry, m, "error") /\ Goto(M(m), Back(m))
             ELSE UNCHANGED entry /\ Goto(M(m), IF guest THEN "insertops" ELSE "lock")
    /\ UNCHANGED <<tables, row, setLock, faults>>

\* mLock fails: "The request will be ignored".
MasterLocks(m) ==
    /\ pc[M(m)] = "lock2"
    /\ \/ CanLock(M(m)) /\ WriteLock(M(m)) /\ Goto(M(m), "insertops") /\ UNCHANGED entry
       \/ /\ ~CanLock(M(m)) /\ UNCHANGED fabric
          /\ entry' = Set(entry, m, "error")
          /\ Goto(M(m), Back(m))
    /\ UNCHANGED <<registry, ops, row, acquire, setLock, faults>>

InsertOps(m) ==
    /\ pc[M(m)] = "insertops"
    /\ ops' = ops \cup {m}
    /\ Goto(M(m), "send")
    /\ UNCHANGED <<registry, fabric, row, flags, faults>>

mIssueRequest(m) ==
    /\ pc[M(m)] = "send"
    /\ pc' = [pc EXCEPT ![M(m)] = Back(m), ![C(m)] = "check"]
    /\ entry' = Set(entry, m, "sent")
    /\ UNCHANGED <<tables, row, acquire, setLock, faults>>

\* The agent answers with an error: the lock is released.
SendFails(m) ==
    /\ pc[M(m)] = "send"
    /\ Fault("send", MaxSend)
    /\ Goto(M(m), "unswitch")
    /\ UNCHANGED <<tables, row, flags>>

\* An exception: the monitor is not started, or ends.
SendRaises(m) ==
    /\ pc[M(m)] = "send"
    /\ Fault("raise", MaxRaise)
    /\ Goto(M(m), IF m \in Switch THEN "ended" ELSE "relend")
    /\ UNCHANGED <<tables, row, flags>>

-----------------------------------------------------------------------------
(* Releasing, by a master whose request was not sent or has left its lock,  *)
(* and by a child at its end.                                               *)

\* do_switch is reset first, if it was a switch task.
Unswitch(p) ==
    /\ pc[p] = "unswitch"
    /\ fabric' = IF p[2] \in Switch THEN [fabric EXCEPT !.doSwitch = FALSE] ELSE fabric
    /\ Goto(p, IF p[1] = "child" \/ acquire[p[2]] THEN "unlock" ELSE "delops")
    /\ UNCHANGED <<registry, ops, row, flags, faults>>

mRelease(p) ==
    /\ pc[p] = "unlock2"
    /\ WriteUnlock(p)
    /\ Goto(p, "delops")
    /\ UNCHANGED <<registry, ops, row, flags, faults>>

\* The rows of this cluster and target, whichever master inserted them.
SameTarget(m) == {q \in SameCluster(m) : TargetOf[q] = TargetOf[m]}
DeleteOps(p) ==
    /\ pc[p] = "delops"
    /\ ops' = ops \ SameTarget(p[2])
    /\ IF p[1] = "child" THEN Goto(p, "done") /\ UNCHANGED entry
       ELSE IF entry[p[2]] = "none"
       THEN Goto(p, Back(p[2])) /\ entry' = Set(entry, p[2], "error")
       ELSE Goto(p, "finish") /\ UNCHANGED entry
    /\ UNCHANGED <<registry, fabric, row, acquire, setLock, faults>>

-----------------------------------------------------------------------------
(* mMonitorPatchRequest                                                     *)

\* A switch task is sent when no cluster of the fabric is locked.
mMonitorPatchRequest(m) ==
    /\ pc[M(m)] = "monitor"
    /\ Refresh(M(m))
    /\ IF row'[M(m)].count = 0 /\ row'[M(m)].doSwitch
       THEN Goto(M(m), "dispatch") ELSE UNCHANGED pc
    /\ UNCHANGED <<registry, ops, flags, faults>>

\* mUpdatePendingCalls: the request is Done; "Lock stuck in db" if its cluster
\* is still in the list.
UpdateNeverStuck(m) ==
    /\ pc[M(m)] = "poll"
    /\ entry[m] = "error" \/ pc[C(m)] = "done"
    /\ Refresh(M(m))
    /\ Goto(M(m), "finish")
    /\ UNCHANGED <<registry, ops, flags, faults>>
UpdateAnyStatus(m) ==
    /\ pc[M(m)] = "poll"
    /\ Refresh(M(m))
    /\ Goto(M(m), IF ClusterOf[m] \in fabric.clusters THEN "unswitch" ELSE "finish")
    /\ UNCHANGED <<registry, ops, flags, faults>>
mUpdatePendingCalls(m) ==
    /\ pc[M(m)] = "poll"
    /\ entry[m] = "error" \/ pc[C(m)] = "done"
    /\ Refresh(M(m))
    /\ Goto(M(m), IF ClusterOf[m] \in fabric.clusters THEN "unswitch" ELSE "finish")
    /\ UNCHANGED <<registry, ops, flags, faults>>

\* mDumpCallInformation: the row of this master.
Finish(m) ==
    /\ pc[M(m)] = "finish"
    /\ ops' = ops \ {m}
    /\ Goto(M(m), "ended")
    /\ UNCHANGED <<registry, fabric, row, flags, faults>>

\* No request is done, and nothing is cleaned.
MonitorTimesOut(m) ==
    /\ pc[M(m)] \in {"monitor", "poll"}
    /\ Fault("timeout", MaxTimeout)
    /\ Goto(M(m), "ended")
    /\ UNCHANGED <<tables, row, flags>>

-----------------------------------------------------------------------------
(* The child request: mExecuteTask.                                         *)

\* mAcquireLock tries to take the lock.  That it cannot means to it that the
\* master has the lock, and that it is to be released at the end.
mAcquireLock(m) ==
    /\ pc[C(m)] = "lock2"
    /\ IF CanLock(C(m)) THEN WriteLock(C(m)) ELSE UNCHANGED fabric
    /\ setLock' = Set(setLock, m, ~CanLock(C(m)))
    /\ Goto(C(m), "exec")
    /\ UNCHANGED <<registry, ops, row, acquire, entry, faults>>

\* Patching ends, with success or with an error, and mReleaseLock begins.
Patch(m) ==
    /\ pc[C(m)] = "exec"
    /\ Goto(C(m), IF setLock[m] THEN "unswitch" ELSE "delops")
    /\ UNCHANGED <<tables, row, flags, faults>>

\* The worker is killed; the worker manager fails the request, and deletes the
\* rows of the request in table registry.
KillChild(m) ==
    /\ pc[C(m)] \notin {"idle", "done"}
    /\ Fault("kill", MaxKill)
    /\ Goto(C(m), "done")
    /\ UNCHANGED <<tables, row, flags>>
KillMaster(m) ==
    /\ pc[M(m)] \notin {"idle", "ended"}
    /\ Fault("master", MaxKillMaster)
    /\ registry' = registry \ {m}
    /\ Goto(M(m), "ended")
    /\ UNCHANGED <<fabric, ops, row, flags>>

-----------------------------------------------------------------------------

Release(p) == ReadFabric(p, "unlock", "unlock2") \/ Unswitch(p) \/ mRelease(p)
              \/ DeleteOps(p)

MasterStep(m) ==
    \/ CheckPatchCmd(m) \/ mLockPatchCmd(m) \/ mPopulatePatchTables(m)
    \/ SetDoSwitch(m) \/ mGetCountOfRequests(m) \/ mReleasePatchCmd(m)
    \/ mDispatchCall(m) \/ ReadFabric(M(m), "lock", "lock2") \/ MasterLocks(m)
    \/ InsertOps(m) \/ mIssueRequest(m) \/ Release(M(m)) \/ mMonitorPatchRequest(m)
    \/ mUpdatePendingCalls(m) \/ Finish(m)

ChildStep(m) ==
    \/ ReadFabric(C(m), "check", "lock2") \/ mAcquireLock(m) \/ Patch(m)
    \/ Release(C(m))

Next == \E m \in Master :
    \/ MasterStep(m) \/ ChildStep(m) \/ Start(m) \/ StartFails(m) \/ SendFails(m)
    \/ SendRaises(m) \/ MonitorTimesOut(m) \/ KillChild(m) \/ KillMaster(m)

Spec == Init /\ [][Next]_vars
FairSpec == Spec /\ \A m \in Master : WF_vars(MasterStep(m)) /\ WF_vars(ChildStep(m))

-----------------------------------------------------------------------------
(* Properties.                                                              *)

MasterPcs == {"idle", "checkcmd", "setcmd", "populate", "setswitch", "count", "relcmd",
              "relend", "dispatch", "lock", "insertops", "send", "monitor", "poll",
              "finish", "ended"}
ChildPcs == {"idle", "check", "exec", "done"}
Shares == Locking \cup {"unswitch", "unlock", "delops"}

TypeOK ==
    /\ registry \subseteq Master /\ ops \subseteq Master
    /\ fabric.clusters \subseteq Cluster
    /\ fabric.lockedfor \in {"none", "ibswitch", "non_ibswitch"}
    /\ fabric.count \in 0..Cardinality({ClusterOf[m] : m \in Master})
    /\ fabric.doSwitch \in BOOLEAN
    /\ \A m \in Master : /\ pc[M(m)] \in MasterPcs \cup Shares
                         /\ pc[C(m)] \in ChildPcs \cup Shares
    /\ acquire \in [Master -> BOOLEAN] /\ setLock \in [Master -> BOOLEAN]
    /\ entry \in [Master -> {"none", "error", "sent"}]
    /\ \A f \in DOMAIN faults : faults[f] \in Nat

\* While the switches are patched, nothing else in the fabric is.
Patching(m) == pc[C(m)] = "exec"
SwitchAlone ==
    \A m, q \in Master : Patching(m) /\ Patching(q) /\ m # q => m \notin Switch

\* A request is executed only while its cluster is locked: no clean-up of
\* another request takes the lock away under it.
PatchedIsLocked == \A m \in Master : Patching(m) => ClusterOf[m] \in fabric.clusters

\* The three columns that are computed in three different ways agree: the
\* number of locked clusters, their list, and what the fabric is locked for.
CountAgrees ==
    /\ fabric.count = Cardinality(fabric.clusters)
    /\ fabric.lockedfor = "none" <=> fabric.clusters = {}

\* A master that was killed, that got an exception or whose monitor timed out
\* cleans nothing: such locks are cleaned by hand (ibfabricpatch.py, line 201).
LeftToOperator == faults.master + faults.raise + faults.timeout > 0

\* Every cluster lock is given back, also those of requests that are refused,
\* that the agent does not accept or whose child is killed.
FabricFreed ==
    \A c \in Cluster : c \in fabric.clusters
                       ~> (c \notin fabric.clusters \/ LeftToOperator)

\* A master request ends without a timeout: the master lock is passed on and a
\* switch task finds the moment when no cluster is locked.
MastersEnd ==
    \A m \in Master : pc[M(m)] = "checkcmd"
                       ~> (pc[M(m)] = "ended" \/ LeftToOperator)

\* A request that was let through beside another, without a lock of its own,
\* does not release the lock of the other.
GuestNeverReleases ==
    [][\A m \in Master : mRelease(C(m)) /\ ~acquire[m] => UNCHANGED fabric]_vars

\* Between mLockPatchCmd and mReleasePatchCmd there is one master request.
InMasterLock(m) ==
    \/ pc[M(m)] \in {"populate", "setswitch", "count", "relcmd"}
    \/ m \notin Switch /\ pc[M(m)] \in {"dispatch", "lock", "lock2", "insertops", "send"}
MasterExclusive == \A m, q \in Master : InMasterLock(m) /\ InMasterLock(q) => m = q
=============================================================================
