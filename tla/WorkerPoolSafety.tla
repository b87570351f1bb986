--------------------------- MODULE WorkerPoolSafety ---------------------------
(***************************************************************************)
(* The steady pool: while only workers are killed, every started worker    *)
(* comes up and the supervisor's orphan cleanup is off, no request is in   *)
(* two rows and a request that is executed keeps its status and its lock.  *)
(***************************************************************************)
EXTENDS WorkerPoolProofs

USE DEF Port, Pid

Inv == TypeOK /\ PoolInv

\* Steps that leave alone what PoolInv says about rows and processes.
SameRows == \A p \in Port : /\ workers'[p].uuid = workers[p].uuid
                            /\ workers'[p].status = workers[p].status
                            /\ workers'[p].pid = workers[p].pid
SameProcs == \A i \in Pid : /\ proc'[i].pc = proc[i].pc
                            /\ proc'[i].port = proc[i].port
                            /\ proc'[i].copy = proc[i].copy

\* Taking and releasing the sync lock of a row changes nothing else in it.
LEMMA LockSameRows ==
    ASSUME TypeOK, NEW p \in Port, NEW name \in Lock,
           mAcquireWorkerSyncLock(p, name) \/ mReleaseWorkerSyncLock(p, name)
    PROVE  SameRows
<1>1. \A l \in Lock : LET row == [workers[p] EXCEPT !.synclock = l] IN
           /\ row.uuid = workers[p].uuid /\ row.status = workers[p].status
           /\ row.pid = workers[p].pid
  BY DEF TypeOK, Row
<1>2. \/ workers' = workers
      \/ \E l \in Lock : workers' = [workers EXCEPT ![p] = [workers[p] EXCEPT !.synclock = l]]
  BY DEF mAcquireWorkerSyncLock, mReleaseWorkerSyncLock, TypeOK, Lock
<1> QED
  BY <1>1, <1>2 DEF SameRows, TypeOK

\* A fault other than a failed start leaves the budget of failed starts alone.
LEMMA SpendKeepsStart ==
    ASSUME TypeOK, NEW n \in Nat,
           NEW kind \in {"crash", "corrupt", "probe", "idle"}, Spend(kind, n)
    PROVE  faults'.start = faults.start
BY DEF TypeOK, Spend, FaultKind

\* WorkInv depends on the rows' uuids, the requests, the registry and proc only.
LEMMA SameWork ==
    ASSUME PcTypes, WorkInv, SameRows, SameProcs, UNCHANGED <<requests, registry>>
    PROVE  WorkInv'
BY DEF PcTypes, WorkInv, SameRows, SameProcs, Registered, Alive, Pending

\* A step of the worker manager on its own state can only disturb WmInv.
LEMMA ManagerLocal ==
    ASSUME Inv, SameRows, SameProcs,
           UNCHANGED <<requests, registry, dsp, sup, portIndex>>,
           faults'.start = faults.start, wm.pc # "wait", wm'.pc # "wait"
    PROVE  PortInv' /\ RowInv' /\ DspInv' /\ AtMostOneRow' /\ WorkInv'
<1> USE DEF Inv, PoolInv, SteadyInv, SameRows, SameProcs
<1>1. PortInv'
  BY DEF PortInv, Issued, Alive, Present, PcTypes
<1>2. RowInv'
  BY DEF RowInv, Registered, AtWork, Alive, Present, PcTypes
<1>3. DspInv'
  <2>1. \A p \in Port : Issued(p) => p < portIndex
    BY DEF Issued
  <2>2. \A p \in Port : Issued(p) => Issued(p)'
    BY <2>1 DEF Issued
  <2>3. \A r \in Req : (Pending(r) => Pending(r)') /\ (Assigned(r)' => Assigned(r))
    BY DEF Pending, Assigned
  <2>4. \A i \in Pid, p \in Port : Owner(i, p)' => Owner(i, p)
    BY DEF Owner, Alive
  <2>5. \A i \in Pid : Registered(i) => Registered(i)'
    BY DEF Registered
  <2>6. dsp.todo \subseteq Port
    BY DEF TypeOK, Dsp
  <2> QED
    BY <2>2, <2>3, <2>4, <2>5, <2>6 DEF DspInv, DspHolds, PcTypes
<1>4. AtMostOneRow'
  BY DEF AtMostOneRow
<1>5. WorkInv'
  BY SameWork
<1> QED
  BY <1>1, <1>2, <1>3, <1>4, <1>5

\* A step of the dispatcher on its own state can only disturb DspInv.
LEMMA DispatcherLocal ==
    ASSUME Inv, SameRows, faults'.start = faults.start,
           UNCHANGED <<requests, registry, proc, wm, portIndex, sup>>
    PROVE  PortInv' /\ RowInv' /\ WmInv' /\ AtMostOneRow' /\ WorkInv'
<1> USE DEF Inv, PoolInv, SteadyInv, SameRows
<1>1. PortInv'
  BY DEF PortInv, Issued, Alive, Present, PcTypes
<1>2. RowInv'
  BY DEF RowInv, Registered, AtWork, Alive, Present, PcTypes
<1>3. WmInv'
  BY DEF WmInv, WmChecking, WmTerminating, Abandoned, Owner, Alive, Present,
         PcTypes, TypeOK, Wm
<1>4. AtMostOneRow'
  BY DEF AtMostOneRow
<1>5. WorkInv'
  BY SameWork DEF SameProcs
<1> QED
  BY <1>1, <1>2, <1>3, <1>4, <1>5

\* A step of worker i, which has port p, touches its own row and the request
\* in it.  The last five assumptions are what is left to show of each step.
LEMMA WorkerStep ==
    ASSUME Inv, NEW i \in Pid, NEW p \in Port, Owner(i, p),
           \A j \in Pid \ {i} : proc'[j] = proc[j],
           \A q \in Port \ {p} : workers'[q] = workers[q],
           UNCHANGED <<dsp, wm, portIndex, sup>>, faults'.start = faults.start,
           workers'[p].uuid \in {NoReq, workers[p].uuid},
           Present(p) => Present(p)',
           \A r \in Req : Pending(r) => Pending(r)' \/ r = workers[p].uuid,
           \A r \in Req, q \in Port : <<r, q>> \in registry
               => <<r, q>> \in registry' \/ r = workers[p].uuid \/ q = p,
           Alive(i)' => Registered(i)' /\ proc'[i].port = p,
           Registered(i)' => /\ workers'[p].status \in {"Idle", "Running"}
                             /\ workers'[p].pid = i,
           AtWork(i)' => /\ workers'[p].uuid = proc'[i].copy.uuid
                         /\ proc'[i].copy.pid = i,
           ~Present(p)' => workers'[p].uuid = NoReq,
           ~SupervisorEnabled =>
              /\ Registered(i)' /\ proc'[i].pc # "done" /\ workers'[p].uuid # NoReq
                 => requests'[workers'[p].uuid].status = "Pending"
              /\ proc'[i].pc = "exec" => <<proc'[i].copy.uuid, p>> \in registry'
    PROVE  SteadyInv'
<1> USE DEF Inv, PoolInv, SteadyInv, Alive, Owner
<1>0. /\ \A j \in Pid : Alive(j) => proc[j].port \in Port
      /\ \A j \in Pid \ {i} : Alive(j) => proc[j].port # p
      /\ \A q \in Port : workers'[q].uuid \in {NoReq, workers[q].uuid}
      /\ \A q \in Port : Present(q) => Present(q)'
  BY DEF PcTypes, PortInv, Present
<1>1. PortInv'
  BY <1>0 DEF PortInv, Issued, Present
<1>2. RowInv'
  BY <1>0 DEF RowInv, Registered, AtWork, Present
<1>3. DspInv'
  <2>1. DspHolds => dsp.req \in Req /\ dsp.req # NoReq
    BY Constants DEF DspHolds, PcTypes
  <2>2. dsp.todo \subseteq Port
    BY DEF TypeOK, Dsp
  <2>3. dsp.pc \in {"loaded", "locked"} => dsp.port \in Port
    BY DEF PcTypes
  <2>4. DspHolds => /\ ~Assigned(dsp.req)'
                    /\ ~SupervisorEnabled => Pending(dsp.req)'
    BY <1>0, <2>1 DEF DspInv, Assigned
  <2> QED
    BY <1>0, <2>2, <2>3, <2>4 DEF DspInv, DspHolds, Issued, Registered
<1>4. WmInv'
  <2>1. wm.pc \in {"load", "dereg", "readreq", "failreq"} =>
           wm.port \in Port /\ wm.port # p
    BY DEF PcTypes, WmInv, Abandoned
  <2>2. wm.pc = "resetting" => p \notin wm.todo
    BY DEF WmInv, Abandoned
  <2>3. wm.todo \subseteq Port
    BY DEF TypeOK, Wm
  <2>4. \A q \in Port \ {p} : Abandoned(q) => Abandoned(q)'
    BY DEF Abandoned
  <2>5. wm.pc = "lock" => wm.port \in Port
    BY DEF PcTypes
  <2> QED
    BY <1>0, <2>1, <2>2, <2>3, <2>4, <2>5 DEF WmInv, WmChecking, WmTerminating
<1>5. AtMostOneRow'
  BY <1>0 DEF AtMostOneRow
<1>6. WorkInv'
  <2>1. ASSUME ~SupervisorEnabled,
               NEW j \in Pid \ {i}, Registered(j), proc[j].pc # "done",
               workers[proc[j].port].uuid # NoReq
        PROVE  requests'[workers[proc[j].port].uuid].status = "Pending"
    <3>1. proc[j].port \in Port /\ proc[j].port # p
      BY <1>0, <2>1 DEF Registered
    <3>2. workers[proc[j].port].uuid # workers[p].uuid
      BY <2>1, <3>1 DEF AtMostOneRow
    <3>3. workers[proc[j].port].uuid \in Req
      BY <2>1, <3>1, RowUpdates DEF TypeOK, Uuid
    <3> QED
      BY <2>1, <3>2, <3>3 DEF WorkInv, Pending
  <2>2. ASSUME ~SupervisorEnabled, NEW j \in Pid \ {i}, proc[j].pc = "exec"
        PROVE  <<proc[j].copy.uuid, proc[j].port>> \in registry'
    <3>1. proc[j].port \in Port /\ proc[j].port # p
      BY <1>0, <2>2
    <3>2. /\ proc[j].copy.uuid \in Req /\ proc[j].copy.uuid # NoReq
          /\ workers[proc[j].port].uuid = proc[j].copy.uuid
      BY <2>2, Constants DEF PcTypes, AtWork, RowInv
    <3>3. proc[j].copy.uuid # workers[p].uuid
      BY <3>1, <3>2 DEF AtMostOneRow
    <3> QED
      BY <2>2, <3>1, <3>2, <3>3 DEF WorkInv
  <2>3. \A j \in Pid \ {i} : Alive(j) =>
           workers'[proc[j].port] = workers[proc[j].port]
    BY <1>0
  <2> QED
    BY <2>1, <2>2, <2>3 DEF WorkInv, Registered, Pending
<1> QED
  BY <1>1, <1>2, <1>3, <1>4, <1>5, <1>6

\* A worker that does something is alive and has a port.
LEMMA ActingWorker ==
    ASSUME Inv, NEW i \in Pid, Worker(i) \/ WrkCrash(i)
    PROVE  /\ Alive(i) /\ proc[i].port \in Port /\ proc[i].copy \in Row
           /\ workers \in [Port -> Row] /\ proc \in [Pid -> Proc]
<1>1. Alive(i)
  <2>1. CASE WrkCrash(i) \/ WrkBindFails(i) \/ mRegister(i) \/ WrkTop(i) \/ WrkLoad(i)
    BY <2>1 DEF WrkCrash, WrkBindFails, mRegister, WrkTop, WrkLoad, Alive
  <2>2. CASE WrkRun(i) \/ WrkLock(i) \/ WrkUnlock(i) \/ WrkFinish(i)
    BY <2>2 DEF WrkRun, WrkLock, WrkUnlock, WrkFinish, Alive
  <2>3. CASE WrkReset(i) \/ WrkDeregister(i)
    BY <2>3 DEF WrkReset, WrkDeregister, Alive
  <2> QED
    BY <2>1, <2>2, <2>3 DEF Worker
<1>2. workers \in [Port -> Row] /\ proc \in [Pid -> Proc]
  BY DEF Inv, TypeOK
<1>3. proc[i].copy \in Row
  BY <1>2 DEF Proc
<1>4. proc[i].port \in Port
  BY <1>1 DEF Inv, PoolInv, PcTypes
<1> QED
  BY <1>1, <1>2, <1>3, <1>4

\* A worker's steps and its death preserve the steady pool's invariant.
LEMMA SteadyWorker ==
    ASSUME Inv, NEW i \in Pid, Worker(i) \/ WrkCrash(i)
    PROVE  SteadyInv'
<1> USE DEF wrkFrame, dbVars
<1>x. /\ Alive(i) /\ proc[i].port \in Port /\ proc[i].copy \in Row
      /\ workers \in [Port -> Row] /\ proc \in [Pid -> Proc]
  BY ActingWorker
<1>p. PICK p \in Port : p = proc[i].port
  BY <1>x
<1>c. PICK c \in Row : c = proc[i].copy
  BY <1>x
<1>o. Owner(i, p) /\ workers[p] \in Row
  BY <1>x, <1>p DEF Owner
<1>a. /\ Registered(i) => /\ workers[p].status \in {"Idle", "Running"}
                          /\ workers[p].pid = i
      /\ AtWork(i) => /\ workers[p].uuid = c.uuid /\ c.pid = i
                      /\ c.uuid \in Req /\ c.uuid # NoReq
      /\ ~Present(p) => workers[p].uuid = NoReq
      /\ proc[i].pc = "boot" => ~Present(p)
      /\ ~SupervisorEnabled /\ Registered(i) /\ proc[i].pc # "done"
            /\ workers[p].uuid # NoReq
         => requests[workers[p].uuid].status = "Pending"
  BY <1>p, <1>c, Constants
     DEF Inv, PoolInv, SteadyInv, RowInv, WorkInv, PcTypes, Pending
<1>b. DeadProc.pc = "dead"
  BY DEF DeadProc, UnbornProc
<1>1. CASE WrkBindFails(i)
  <2>1. /\ proc' = [proc EXCEPT ![i] = DeadProc]
        /\ ~Alive(i)' /\ ~Registered(i)' /\ ~AtWork(i)'
    BY <1>x, <1>1, <1>b DEF WrkBindFails, Alive, Registered, AtWork
  <2> QED
    BY <1>x, <1>o, <1>1, <1>a, <1>b, <2>1, WorkerStep
       DEF WrkBindFails, Present, Pending
<1>2. CASE mRegister(i)
  <2>1. /\ proc'[i].pc = "top" /\ proc'[i].port = p
        /\ \A j \in Pid \ {i} : proc'[j] = proc[j]
    BY <1>x, <1>p, <1>2 DEF mRegister, Proc
  <2>2. Registered(i)' /\ ~AtWork(i)'
    BY <2>1 DEF Registered, AtWork
  <2>3. FreshRow(i).uuid = NoReq /\ FreshRow(i).status = "Idle" /\ FreshRow(i).pid = i
    BY DEF FreshRow, NoRow
  <2>4. workers' = [workers EXCEPT ![p] = FreshRow(i)]
    BY <1>2, <1>p DEF mRegister
  <2>5. \A r \in Req, q \in Port : <<r, q>> \in registry /\ q # p
                                  => <<r, q>> \in registry'
    BY <1>2, <1>p DEF mRegister
  <2>6. UNCHANGED <<dsp, wm, portIndex, sup>> /\ faults'.start = faults.start
    BY <1>2 DEF mRegister
  <2>7. /\ \A q \in Port \ {p} : workers'[q] = workers[q]
        /\ workers'[p].uuid \in {NoReq, workers[p].uuid}
        /\ workers'[p].status \in {"Idle", "Running"} /\ workers'[p].pid = i
        /\ Present(p)'
    BY <1>x, <2>3, <2>4 DEF Present
  <2>8. \A r \in Req : Pending(r) => Pending(r)' \/ r = workers[p].uuid
    BY <1>2 DEF Pending, mRegister
  <2> QED
    BY <1>o, <2>1, <2>2, <2>6, <2>7, <2>8, WorkerStep, <2>3, <2>4, <2>5, <1>x
<1>3. CASE WrkTop(i)
  <2>1. /\ proc'[i].pc \in {"stop", "sleep"} /\ proc'[i].port = p
        /\ \A j \in Pid \ {i} : proc'[j] = proc[j]
    BY <1>x, <1>p, <1>3 DEF WrkTop, Proc
  <2>2. Registered(i) /\ Registered(i)' /\ ~AtWork(i)'
    BY <1>3, <2>1 DEF WrkTop, Registered, AtWork
  <2> QED
    BY <1>x, <1>o, <1>3, <1>a, <2>1, <2>2, WorkerStep DEF WrkTop, Present, Pending
<1>4. CASE WrkLoad(i)
  <2>1. /\ proc'[i].port = p /\ \A j \in Pid \ {i} : proc'[j] = proc[j]
        /\ \/ proc'[i].pc = "top"
           \/ proc'[i].pc = "assigned" /\ proc'[i].copy = workers[p]
    <3>1. CASE workers[p].uuid = NoReq
      <4>1. proc' = [proc EXCEPT ![i].pc = "top"]
        BY <1>p, <1>4, <3>1 DEF WrkLoad
      <4> QED
        BY <1>x, <1>p, <4>1 DEF Proc
    <3>2. CASE workers[p].uuid # NoReq
      <4>1. proc' = [proc EXCEPT ![i] = [@ EXCEPT !.pc = "assigned",
                                                  !.copy = workers[p]]]
        BY <1>p, <1>4, <3>2 DEF WrkLoad
      <4> QED
        BY <1>x, <1>p, <4>1 DEF Proc
    <3> QED
      BY <3>1, <3>2
  <2>2. Registered(i) /\ Registered(i)' /\ (AtWork(i)' => proc'[i].pc = "assigned")
    BY <1>4, <2>1 DEF WrkLoad, Registered, AtWork
  <2> QED
    <3>1. UNCHANGED <<requests, workers, registry, dsp, wm, portIndex, sup, faults>>
      BY <1>4 DEF WrkLoad
    <3>2. /\ Present(p)' = Present(p)
          /\ \A r \in Req : Pending(r)' = Pending(r)
      BY <3>1 DEF Present, Pending
    <3>3. proc[i].pc = "sleep"
      BY <1>4 DEF WrkLoad
    <3> QED
      BY <1>x, <1>o, <1>a, <2>1, <2>2, <3>1, <3>2, <3>3, WorkerStep
<1>5. CASE WrkRun(i)
  <2>1. /\ proc'[i].pc = "running" /\ proc'[i].port = p /\ proc'[i].copy = c
        /\ \A j \in Pid \ {i} : proc'[j] = proc[j]
    BY <1>x, <1>p, <1>c, <1>5 DEF WrkRun, Proc
  <2>2. Registered(i) /\ AtWork(i) /\ Registered(i)' /\ AtWork(i)'
        /\ proc[i].pc # "done"
    BY <1>5, <2>1 DEF WrkRun, Registered, AtWork
  <2> DEFINE row == [c EXCEPT !.status = "Running"]
  <2>3. row.uuid = c.uuid /\ row.status = "Running" /\ row.pid = c.pid
    BY DEF Row
  <2>4. workers' = [workers EXCEPT ![p] = row]
    BY <1>5, <1>p, <1>c, <1>a, <2>2 DEF WrkRun, mUpdateWorker, Present
  <2> HIDE DEF row
  <2>6. /\ UNCHANGED <<dsp, wm, portIndex, sup, registry>>
        /\ faults'.start = faults.start
    BY <1>5 DEF WrkRun
  <2>7. /\ \A q \in Port \ {p} : workers'[q] = workers[q]
        /\ workers'[p].uuid \in {NoReq, workers[p].uuid}
        /\ workers'[p].status \in {"Idle", "Running"} /\ workers'[p].pid = i
        /\ Present(p)'
    BY <1>x, <1>a, <2>2, <2>3, <2>4 DEF Present
  <2>8. \A r \in Req : Pending(r) => Pending(r)' \/ r = workers[p].uuid
    BY <1>5 DEF Pending, WrkRun
  <2>9. workers'[p].uuid = proc'[i].copy.uuid /\ proc'[i].copy.pid = i
    BY <1>a, <1>x, <2>1, <2>2, <2>3, <2>4
  <2>10. ASSUME ~SupervisorEnabled
        PROVE  requests'[workers'[p].uuid].status = "Pending"
    BY <2>10, <1>5, <1>a, <2>1, <2>2, <2>9 DEF WrkRun
  <2> QED
    BY <1>o, <2>1, <2>2, <2>6, <2>7, <2>8, <2>9, <2>10, WorkerStep
<1>6. CASE WrkLock(i)
  <2>1. /\ proc'[i].pc = "exec" /\ proc'[i].port = p /\ proc'[i].copy = c
        /\ \A j \in Pid \ {i} : proc'[j] = proc[j]
    BY <1>x, <1>p, <1>c, <1>6 DEF WrkLock, Proc
  <2>2. Registered(i) /\ AtWork(i) /\ Registered(i)' /\ AtWork(i)'
        /\ proc[i].pc # "done"
    BY <1>6, <2>1 DEF WrkLock, Registered, AtWork
  <2>3. UNCHANGED <<dsp, wm, portIndex, sup>> /\ faults'.start = faults.start
    BY <1>6 DEF WrkLock
  <2>4. /\ \A q \in Port \ {p} : workers'[q] = workers[q]
        /\ workers'[p].uuid \in {NoReq, workers[p].uuid}
        /\ workers'[p].status \in {"Idle", "Running"} /\ workers'[p].pid = i
        /\ Present(p)'
    BY <1>6, <1>x, <1>a, <2>2 DEF Present, WrkLock
  <2>5. workers'[p].uuid = proc'[i].copy.uuid /\ proc'[i].copy.pid = i
    BY <1>6, <1>a, <2>1, <2>2 DEF WrkLock
  <2>6. \A r \in Req : Pending(r) => Pending(r)' \/ r = workers[p].uuid
    BY <1>6 DEF Pending, WrkLock
  <2>7. ASSUME ~SupervisorEnabled
        PROVE  requests'[workers'[p].uuid].status = "Pending"
    BY <2>7, <1>6, <1>a, <2>1, <2>2, <2>5 DEF WrkLock
  <2>8. registry' = registry \cup {<<c.uuid, p>>}
    BY <1>6, <1>p, <1>c DEF WrkLock
  <2>9. /\ <<proc'[i].copy.uuid, p>> \in registry'
        /\ \A r \in Req, q \in Port : <<r, q>> \in registry => <<r, q>> \in registry'
    BY <2>1, <2>8
  <2> QED
    BY <1>o, <2>1, <2>2, <2>3, <2>4, <2>5, <2>6, <2>7, <2>9, WorkerStep
<1>10. CASE WrkUnlock(i)
  <2>1. /\ proc'[i].pc = "unlocked" /\ proc'[i].port = p /\ proc'[i].copy = c
        /\ \A j \in Pid \ {i} : proc'[j] = proc[j]
    BY <1>x, <1>p, <1>c, <1>10 DEF WrkUnlock, Proc
  <2>2. Registered(i) /\ AtWork(i) /\ Registered(i)' /\ AtWork(i)'
        /\ proc[i].pc # "done"
    BY <1>10, <2>1 DEF WrkUnlock, Registered, AtWork
  <2>3. UNCHANGED <<dsp, wm, portIndex, sup>> /\ faults'.start = faults.start
    BY <1>10 DEF WrkUnlock
  <2>4. /\ \A q \in Port \ {p} : workers'[q] = workers[q]
        /\ workers'[p].uuid \in {NoReq, workers[p].uuid}
        /\ workers'[p].status \in {"Idle", "Running"} /\ workers'[p].pid = i
        /\ Present(p)'
    BY <1>10, <1>x, <1>a, <2>2 DEF Present, WrkUnlock
  <2>5. workers'[p].uuid = proc'[i].copy.uuid /\ proc'[i].copy.pid = i
    BY <1>10, <1>a, <2>1, <2>2 DEF WrkUnlock
  <2>6. \A r \in Req : Pending(r) => Pending(r)' \/ r = workers[p].uuid
    BY <1>10 DEF Pending, WrkUnlock
  <2>7. ASSUME ~SupervisorEnabled
        PROVE  requests'[workers'[p].uuid].status = "Pending"
    BY <2>7, <1>10, <1>a, <2>1, <2>2, <2>5 DEF WrkUnlock
  <2>8. \A r \in Req, q \in Port : <<r, q>> \in registry /\ r # c.uuid
                                  => <<r, q>> \in registry'
    BY <1>10, <1>c DEF WrkUnlock
  <2>9. \A r \in Req, q \in Port : <<r, q>> \in registry
                                  => <<r, q>> \in registry' \/ r = workers[p].uuid
    BY <1>a, <2>2, <2>8
  <2> QED
    BY <1>o, <2>1, <2>2, <2>3, <2>4, <2>5, <2>6, <2>7, <2>9, WorkerStep
<1>11. CASE WrkFinish(i)
  <2>1. /\ proc'[i].pc = "done" /\ proc'[i].port = p /\ proc'[i].copy = c
        /\ \A j \in Pid \ {i} : proc'[j] = proc[j]
    BY <1>x, <1>p, <1>c, <1>11 DEF WrkFinish, Proc
  <2>2. Registered(i) /\ AtWork(i) /\ Registered(i)' /\ AtWork(i)'
        /\ proc[i].pc # "done"
    BY <1>11, <2>1 DEF WrkFinish, Registered, AtWork
  <2>3. UNCHANGED <<dsp, wm, portIndex, sup>> /\ faults'.start = faults.start
    BY <1>11 DEF WrkFinish
  <2>4. /\ \A q \in Port \ {p} : workers'[q] = workers[q]
        /\ workers'[p].uuid \in {NoReq, workers[p].uuid}
        /\ workers'[p].status \in {"Idle", "Running"} /\ workers'[p].pid = i
        /\ Present(p)'
    BY <1>11, <1>x, <1>a, <2>2 DEF Present, WrkFinish
  <2>5. workers'[p].uuid = proc'[i].copy.uuid /\ proc'[i].copy.pid = i
    BY <1>11, <1>a, <2>1, <2>2 DEF WrkFinish
  <2>6. \A r \in Req : r # c.uuid => requests'[r] = requests[r]
    BY <1>11, <1>c DEF WrkFinish, Inv, TypeOK
  <2>7. \A r \in Req : Pending(r) => Pending(r)' \/ r = workers[p].uuid
    BY <1>a, <2>2, <2>6 DEF Pending
  <2>8. registry' = registry
    BY <1>11 DEF WrkFinish
  <2> QED
    BY <1>o, <2>1, <2>2, <2>3, <2>4, <2>5, <2>7, <2>8, WorkerStep
<1>7. CASE WrkReset(i)
  <2>1. /\ proc'[i].pc = "top" /\ proc'[i].port = p
        /\ \A j \in Pid \ {i} : proc'[j] = proc[j]
    BY <1>x, <1>p, <1>7 DEF WrkReset, Proc
  <2>2. Registered(i) /\ AtWork(i) /\ Registered(i)' /\ ~AtWork(i)'
    BY <1>7, <2>1 DEF WrkReset, Registered, AtWork
  <2>3. Present(p)
    BY <1>a, <2>2 DEF Present
  <2>4. PICK row : /\ workers' = [workers EXCEPT ![p] = row]
                   /\ row.uuid = NoReq /\ row.status = "Idle" /\ row.pid = c.pid
    <3> DEFINE idle == [c EXCEPT !.status = "Idle", !.uuid = NoReq]
               bad == [idle EXCEPT !.state = "CORRUPTED"]
    <3>1. /\ idle.uuid = NoReq /\ idle.status = "Idle" /\ idle.pid = c.pid
          /\ bad.uuid = NoReq /\ bad.status = "Idle" /\ bad.pid = c.pid
      BY DEF Row
    <3>2. \/ workers' = [workers EXCEPT ![p] = idle]
          \/ workers' = [workers EXCEPT ![p] = bad]
      BY <1>7, <1>p, <1>c, <2>3 DEF WrkReset, mUpdateWorker
    <3> HIDE DEF idle, bad
    <3> QED
      BY <3>1, <3>2
  <2>5. faults'.start = faults.start
    BY <1>7, SpendKeepsStart DEF WrkReset, Inv
  <2> QED
    BY <1>x, <1>o, <1>7, <1>a, <2>1, <2>2, <2>4, <2>5, WorkerStep
       DEF WrkReset, Present, Pending
<1>8. CASE WrkDeregister(i)
  <2>1. /\ proc' = [proc EXCEPT ![i] = DeadProc]
        /\ ~Alive(i)' /\ ~Registered(i)' /\ ~AtWork(i)'
    BY <1>x, <1>8, <1>b DEF WrkDeregister, Alive, Registered, AtWork
  <2>2. ExitedRow(NoReq).uuid = NoReq /\ ExitedRow(NoReq).status = "Exited"
    BY DEF ExitedRow, NoRow
  <2>3. workers' = workers \/ workers' = [workers EXCEPT ![p] = ExitedRow(NoReq)]
    BY <1>8, <1>p DEF WrkDeregister, mUpdateWorker
  <2> QED
    BY <1>x, <1>o, <1>8, <1>a, <1>b, <2>1, <2>2, <2>3, WorkerStep
       DEF WrkDeregister, Present, Pending
<1>9. CASE WrkCrash(i)
  <2>1. /\ proc' = [proc EXCEPT ![i] = DeadProc]
        /\ ~Alive(i)' /\ ~Registered(i)' /\ ~AtWork(i)'
    BY <1>x, <1>9, <1>b DEF WrkCrash, Alive, Registered, AtWork
  <2>2. faults'.start = faults.start
    BY <1>9, SpendKeepsStart DEF WrkCrash, Inv
  <2> QED
    BY <1>x, <1>o, <1>9, <1>a, <1>b, <2>1, <2>2, WorkerStep
       DEF WrkCrash, Present, Pending
<1> QED
  BY <1>1, <1>2, <1>3, <1>4, <1>5, <1>6, <1>7, <1>8, <1>9, <1>10, <1>11
     DEF Worker

\* The dispatcher's steps preserve the steady pool's invariant.
LEMMA SteadyDispatcher ==
    ASSUME Inv, Dispatcher
    PROVE  SteadyInv'
<1> USE DEF dspFrame, Inv, PoolInv, SteadyInv
<1>0. dsp \in Dsp /\ workers \in [Port -> Row] /\ dsp.todo \subseteq Port
  BY DEF TypeOK, Dsp
<1>i. ASSUME dsp' = IdleDsp
      PROVE  DspInv'
  BY <1>i DEF DspInv, DspHolds, IdleDsp
<1>1. CASE \E r \in Req : mGetPendingRequest(r)
  <2>1. PICK r \in Req : mGetPendingRequest(r)
    BY <1>1
  <2>2. dsp'.pc = "pick" /\ dsp'.req = r
    BY <1>0, <2>1 DEF mGetPendingRequest, Dsp
  <2>3. DspInv'
    BY <2>1, <2>2 DEF mGetPendingRequest, DspInv, DspHolds, Pending, Assigned
  <2>4. SameRows
    BY <2>1 DEF mGetPendingRequest, SameRows
  <2> QED
    BY <2>1, <2>3, <2>4, DispatcherLocal DEF mGetPendingRequest
<1>2. CASE mGetIdleWorkers
  <2>1. /\ dsp'.pc = "scan" /\ dsp'.req = dsp.req
        /\ \A p \in dsp'.todo : p \in Port /\ IdleNormal(p)
    BY <1>0, <1>2 DEF mGetIdleWorkers, Dsp
  <2>2. DspInv'
    BY <1>2, <2>1 DEF mGetIdleWorkers, DspInv, DspHolds, Pending, Assigned, IdleNormal
  <2>3. SameRows
    BY <1>2 DEF mGetIdleWorkers, SameRows
  <2> QED
    BY <1>2, <2>2, <2>3, DispatcherLocal DEF mGetIdleWorkers
<1>3. CASE \E p \in Port : DspLoad(p)
  <2>1. PICK p \in Port : DspLoad(p)
    BY <1>3
  <2>2. SameRows
    BY <2>1 DEF DspLoad, SameRows
  <2>3. DspInv'
    <3>1. CASE Present(p)
      <4>1. /\ dsp'.pc = "loaded" /\ dsp'.req = dsp.req /\ dsp'.port = p
            /\ dsp'.todo \subseteq dsp.todo /\ dsp'.copy = workers[p]
        BY <1>0, <2>1, <3>1 DEF DspLoad, Dsp
      <4>2. \A i \in Pid : Owner(i, p) =>
               /\ Registered(i) /\ workers[p].pid = i
               /\ workers[p].status \in {"Idle", "Running"}
        <5>1. \A i \in Pid : Owner(i, p) => Registered(i)
          BY <3>1 DEF Owner, Alive, Registered, RowInv, TypeOK, Proc, WorkerPc
        <5> QED
          BY <5>1 DEF Owner, RowInv
      <4>3. Issued(p)
        BY <3>1 DEF PortInv
      <4>4. /\ workers[p].uuid = NoReq /\ ~Assigned(dsp.req)
            /\ ~SupervisorEnabled => Pending(dsp.req)
        BY <2>1 DEF DspLoad, DspInv, DspHolds
      <4>5. \A q \in dsp.todo : workers[q].uuid = NoReq
        BY <2>1 DEF DspLoad, DspInv
      <4> QED
        BY <2>1, <3>1, <4>1, <4>2, <4>3, <4>4, <4>5
           DEF DspLoad, DspInv, DspHolds, Pending, Assigned, Issued, Owner, Alive,
               Registered, Present
    <3>2. CASE ~Present(p)
      BY <1>i, <2>1, <3>2 DEF DspLoad
    <3> QED
      BY <3>1, <3>2
  <2> QED
    BY <2>1, <2>2, <2>3, DispatcherLocal DEF DspLoad
<1>4. CASE DspLock
  <2>1. dsp.port \in Port /\ "Dispatcher" \in Lock
    BY <1>4 DEF DspLock, PcTypes, Lock
  <2>2. SameRows
    <3>1. CASE workers' = workers
      BY <3>1 DEF SameRows
    <3>2. CASE mAcquireWorkerSyncLock(dsp.port, "Dispatcher")
      BY <2>1, <3>2, LockSameRows
    <3> QED
      BY <1>4, <3>1, <3>2 DEF DspLock
  <2>3. CASE dsp' = IdleDsp
    BY <1>4, <1>i, <2>2, <2>3, DispatcherLocal DEF DspLock
  <2>4. CASE dsp' = [dsp EXCEPT !.pc = "locked", !.copy.synclock = "Dispatcher"]
    <3>1. /\ dsp'.pc = "locked" /\ dsp'.req = dsp.req /\ dsp'.port = dsp.port
          /\ dsp'.todo = dsp.todo /\ dsp'.copy.pid = dsp.copy.pid
          /\ dsp'.copy.status = dsp.copy.status
      BY <1>0, <2>4 DEF Dsp, Row
    <3>2. DspInv'
      BY <1>0, <1>4, <2>1, <2>2, <3>1
         DEF DspLock, DspInv, DspHolds, Pending, Assigned, Issued, Owner, Alive,
             Registered, SameRows
    <3> QED
      BY <1>4, <2>2, <3>2, DispatcherLocal DEF DspLock
  <2>5. CASE dsp' = [dsp EXCEPT !.pc = NextOfScan(dsp.todo), !.port = 0,
                                !.copy = NoRow]
    <3>1. /\ dsp'.pc \in {"pick", "scan"} /\ dsp'.req = dsp.req
          /\ dsp'.todo = dsp.todo
      BY <1>0, <2>5 DEF Dsp, NextOfScan
    <3>2. DspInv'
      BY <1>0, <1>4, <2>2, <3>1
         DEF DspLock, DspInv, DspHolds, Pending, Assigned, SameRows
    <3> QED
      BY <1>4, <2>2, <3>2, DispatcherLocal DEF DspLock
  <2> QED
    BY <1>4, <2>3, <2>4, <2>5 DEF DspLock
<1>5. CASE DspAssign
  <2>1. PICK p \in Port, r \in Req : p = dsp.port /\ r = dsp.req /\ r # NoReq
    BY <1>5, Constants DEF DspAssign, PcTypes
  <2>2. PICK row : /\ row.uuid = r /\ row.status = dsp.copy.status
                   /\ row.pid = dsp.copy.pid
                   /\ Present(p) => workers' = [workers EXCEPT ![p] = row]
                   /\ ~Present(p) => workers' = workers
    <3> DEFINE row == [dsp.copy EXCEPT !.uuid = dsp.req]
    <3>1. /\ row.uuid = r /\ row.status = dsp.copy.status /\ row.pid = dsp.copy.pid
      BY <1>0, <2>1 DEF Dsp, Row
    <3>2. workers' = IF Present(p) THEN [workers EXCEPT ![p] = row] ELSE workers
      BY <1>5, <2>1 DEF DspAssign, mUpdateWorker
    <3> HIDE DEF row
    <3> QED
      BY <3>1, <3>2
  <2>3. /\ workers[p].uuid = NoReq /\ ~Assigned(r) /\ Issued(p)
        /\ ~SupervisorEnabled => Pending(r)
        /\ dsp.copy.status # "none"
        /\ \A i \in Pid : Owner(i, p) =>
              /\ Registered(i) /\ dsp.copy.pid = i
              /\ dsp.copy.status \in {"Idle", "Running"}
    BY <1>5, <2>1 DEF DspAssign, DspInv, DspHolds
  <2>4. /\ \A q \in Port \ {p} : workers'[q] = workers[q]
        /\ workers'[p].uuid \in {NoReq, r}
        /\ \A q \in Port : Present(q) <=> Present(q)'
        /\ \A i \in Pid : Owner(i, p) => ~AtWork(i)
    <3>1. \A i \in Pid : Owner(i, p) => ~AtWork(i)
      BY <2>1, <2>3, Constants DEF Owner, RowInv, PcTypes
    <3>2. CASE Present(p)
      BY <1>0, <2>2, <2>3, <3>1, <3>2 DEF Present
    <3>3. CASE ~Present(p)
      BY <1>0, <2>2, <2>3, <3>1, <3>3 DEF Present
    <3> QED
      BY <3>2, <3>3
  <2>5. UNCHANGED <<requests, registry, proc, wm, portIndex, sup, faults>>
    BY <1>5 DEF DspAssign
  <2>6. PortInv'
    BY <2>4, <2>5 DEF PortInv, Issued, Alive
  <2>7. RowInv'
    <3>1. ASSUME NEW i \in Pid, Registered(i)
          PROVE  /\ workers'[proc[i].port].status \in {"Idle", "Running"}
                 /\ workers'[proc[i].port].pid = i
      <4>1. Owner(i, proc[i].port) /\ proc[i].port \in Port
        BY <3>1 DEF Owner, Registered, Alive, PcTypes
      <4>2. CASE proc[i].port = p
        <5>1. Present(p)
          BY <3>1, <4>2 DEF RowInv, Present
        <5> QED
          BY <1>0, <2>2, <2>3, <3>1, <4>1, <4>2, <5>1
      <4>3. CASE proc[i].port # p
        BY <2>4, <3>1, <4>1, <4>3 DEF RowInv
      <4> QED
        BY <4>2, <4>3
    <3>2. ASSUME NEW i \in Pid, AtWork(i)
          PROVE  workers'[proc[i].port].uuid = proc[i].copy.uuid
      BY <2>4, <3>2 DEF AtWork, Owner, Alive, PcTypes, RowInv
    <3>3. \A q \in Port : ~Present(q)' => workers'[q].uuid = NoReq
      <4>1. \A q \in Port : ~Present(q) => workers'[q].uuid = NoReq
        BY <2>2, <2>4 DEF RowInv
      <4> QED
        BY <2>4, <4>1
    <3>4. \A i \in Pid : proc[i].pc = "boot" => ~Present(proc[i].port)'
      BY <2>4, <2>5 DEF RowInv, PcTypes, Alive
    <3> QED
      BY <2>5, <3>1, <3>2, <3>3, <3>4 DEF RowInv, Registered, AtWork
  <2>8. DspInv'
    BY <1>0, <1>5 DEF DspAssign, Dsp, DspInv, DspHolds
  <2>9. WmInv'
    <3>1. wm.pc \in {"readreq", "failreq"} => wm.port # p
      BY <2>3, Constants DEF WmInv, PcTypes
    <3>2. wm.pc = "dereg" => wm.uuid \in {NoReq, workers'[wm.port].uuid}
      BY <2>3, <2>4 DEF WmInv, PcTypes
    <3>3. wm.todo \subseteq Port
      BY DEF TypeOK, Wm
    <3> QED
      BY <2>4, <2>5, <3>1, <3>2, <3>3
         DEF WmInv, PcTypes, WmChecking, WmTerminating, Abandoned, Owner, Alive
  <2>10. AtMostOneRow'
    BY <2>1, <2>3, <2>4 DEF AtMostOneRow, Assigned
  <2>11. WorkInv'
    BY <2>1, <2>3, <2>4, <2>5 DEF WorkInv, Registered, Pending, PcTypes, Alive
  <2> QED
    BY <2>6, <2>7, <2>8, <2>9, <2>10, <2>11
<1>6. CASE DspRelease
  <2>1. dsp.port \in Port /\ "Dispatcher" \in Lock
    BY <1>6 DEF DspRelease, PcTypes, Lock
  <2>2. SameRows
    BY <1>6, <2>1, LockSameRows DEF DspRelease
  <2> QED
    BY <1>6, <1>i, <2>2, DispatcherLocal DEF DspRelease
<1> QED
  BY <1>1, <1>2, <1>3, <1>4, <1>5, <1>6
     DEF Dispatcher, DspInv, DspResetList, DspResetDelete, DspReady

\* Steps of the worker manager that change neither a row nor a process, beyond
\* sync locks and exit flags.
LEMMA SteadyManagerLocal ==
    ASSUME Inv,
           \/ CheckList \/ DeregLoad \/ DeregReadRequest \/ ResetList \/ CountIdle
           \/ TermListCorrupted \/ TermListIdle
           \/ TermLock \/ TermShutdown \/ TermRelease
           \/ \E p \in Port : \/ CheckHealthy(p) \/ CheckDead(p)
                              \/ CheckUnreachable(p) \/ TermLoad(p)
    PROVE  SteadyInv'
<1> USE DEF Inv, PoolInv, wmFrame, dbVars
<1>0. /\ wm \in Wm /\ wm.todo \subseteq Port /\ wm.snap \in [Port -> Pid \cup {0}]
      /\ workers \in [Port -> Row] /\ proc \in [Pid -> Proc]
  BY DEF TypeOK, Wm
<1>r. workers' = workers => SameRows
  BY DEF SameRows
<1>q. proc' = proc => SameProcs
  BY DEF SameProcs
<1>l. ASSUME WmInv', SameRows, SameProcs,
             UNCHANGED <<requests, registry, dsp, sup, portIndex>>,
             faults'.start = faults.start, wm.pc # "wait", wm'.pc # "wait"
      PROVE  SteadyInv'
  BY <1>l, ManagerLocal DEF SteadyInv
<1> USE DEF SteadyInv
<1>1. CASE CheckList
  <2>1. /\ wm'.pc = "checking" /\ wm.pc # "wait"
        /\ wm'.todo = {p \in Port : ToCheck(p)}
        /\ \A p \in wm'.todo : wm'.snap[p] = workers[p].pid
    BY <1>0, <1>1 DEF CheckList, WmPhaseDone, Wm
  <2>2. UNCHANGED <<workers, proc, portIndex>>
    BY <1>1 DEF CheckList
  <2>3. \A p \in wm'.todo : p < portIndex
    BY <2>1 DEF ToCheck, Present, PortInv, Issued
  <2>4. \A p \in wm'.todo, i \in Pid : Owner(i, p) => workers[p].pid = i
    BY <2>1 DEF ToCheck, Owner, Alive, RowInv, Registered, Present, Proc, WorkerPc,
                TypeOK
  <2>5. WmInv'
    BY <2>1, <2>2, <2>3, <2>4 DEF WmInv, WmChecking, WmTerminating, Owner, Alive
  <2> QED
    BY <1>l, <1>q, <1>r, <1>1, <2>1, <2>2, <2>5 DEF CheckList
<1>2. CASE DeregLoad
  <2>1. wm.pc = "load" /\ wm.port \in Port /\ Abandoned(wm.port)
    BY <1>2 DEF DeregLoad, PcTypes, WmInv
  <2>2. /\ \/ /\ wm'.pc = "dereg" /\ wm'.port = wm.port
              /\ wm'.uuid = workers[wm.port].uuid
           \/ wm'.pc = "checking"
        /\ wm'.todo = wm.todo /\ wm'.snap = wm.snap
    BY <1>0, <1>2 DEF DeregLoad, Deregistered, Wm
  <2>3. UNCHANGED <<workers, proc, portIndex>>
    BY <1>2 DEF DeregLoad
  <2>4. WmInv'
    BY <2>1, <2>2, <2>3
       DEF WmInv, WmChecking, WmTerminating, Abandoned, Owner, Alive
  <2> QED
    BY <1>l, <1>q, <1>r, <1>2, <2>1, <2>2, <2>3, <2>4 DEF DeregLoad
<1>3. CASE DeregReadRequest
  <2>1. wm.pc = "readreq" /\ wm.port \in Port
    BY <1>3 DEF DeregReadRequest, PcTypes
  <2>2. /\ \/ wm'.pc = "failreq" /\ wm'.port = wm.port /\ wm'.uuid = wm.uuid
           \/ wm'.pc = "checking"
        /\ wm'.todo = wm.todo /\ wm'.snap = wm.snap
    BY <1>0, <1>3 DEF DeregReadRequest, Deregistered, WmGoto, Wm
  <2>3. UNCHANGED <<workers, proc, portIndex>>
    BY <1>3 DEF DeregReadRequest
  <2>4. WmInv'
    BY <2>1, <2>2, <2>3
       DEF WmInv, WmChecking, WmTerminating, Abandoned, Owner, Alive
  <2> QED
    BY <1>l, <1>q, <1>r, <1>3, <2>1, <2>2, <2>3, <2>4 DEF DeregReadRequest
<1>4. CASE ResetList
  <2>1. /\ wm.pc # "wait" /\ wm'.pc = "resetting"
        /\ wm'.todo = {p \in Port : workers[p].status = "Exited"}
    BY <1>0, <1>4 DEF ResetList, ExitedPorts, WmPhaseDone, Wm
  <2>2. UNCHANGED <<workers, proc, portIndex>>
    BY <1>4 DEF ResetList
  <2>3. \A p \in wm'.todo : Abandoned(p)
    <3>1. \A p \in wm'.todo : p < portIndex
      BY <2>1 DEF Present, PortInv, Issued
    <3>2. \A p \in wm'.todo, i \in Pid : ~Owner(i, p)
      BY <1>0, <2>1 DEF Owner, Alive, RowInv, Registered, Present, Proc, WorkerPc
    <3> QED
      BY <3>1, <3>2 DEF Abandoned
  <2>4. WmInv'
    BY <2>1, <2>2, <2>3 DEF WmInv, WmChecking, WmTerminating, Abandoned, Owner, Alive
  <2> QED
    BY <1>l, <1>q, <1>r, <1>4, <2>1, <2>2, <2>4 DEF ResetList
<1>5. CASE CountIdle
  <2>1. wm.pc # "wait" /\ wm'.pc = "start"
    BY <1>0, <1>5 DEF CountIdle, WmPhaseDone, Wm
  <2>2. WmInv'
    BY <2>1 DEF WmInv, WmChecking, WmTerminating
  <2> QED
    BY <1>l, <1>q, <1>r, <1>5, <2>1, <2>2 DEF CountIdle
<1>6. CASE TermListCorrupted
  <2>1. /\ wm.pc # "wait" /\ wm'.pc = "terminating"
        /\ \A p \in wm'.todo : p \in Port /\ Present(p)
    BY <1>0, <1>6 DEF TermListCorrupted, StartDone, Unassigned, Wm
  <2>2. WmInv'
    BY <1>6, <2>1 DEF TermListCorrupted, WmInv, WmChecking, WmTerminating, Present
  <2> QED
    BY <1>l, <1>q, <1>r, <1>6, <2>1, <2>2 DEF TermListCorrupted
<1>7. CASE TermListIdle
  <2>1. PICK S \in SUBSET Unassigned :
           wm' = [wm EXCEPT !.phase = "idle", !.todo = S]
    BY <1>7 DEF TermListIdle
  <2>2. /\ wm.pc = "terminating" /\ wm'.pc = "terminating" /\ wm'.todo = S
        /\ \A p \in S : p \in Port /\ Present(p)
    BY <1>0, <1>7, <2>1 DEF TermListIdle, WmPhaseDone, Unassigned, Wm
  <2>3. WmInv'
    BY <1>7, <2>2 DEF TermListIdle, WmInv, WmChecking, WmTerminating, Present
  <2> QED
    BY <1>l, <1>q, <1>r, <1>7, <2>2, <2>3 DEF TermListIdle
<1>8. CASE TermLock
  <2>1. wm.pc = "lock" /\ wm.port \in Port /\ Present(wm.port) /\ "Wrkmanager" \in Lock
    BY <1>8 DEF TermLock, PcTypes, WmInv, Lock
  <2>2. /\ wm'.pc \in {"shutdown", "poll", "terminating"} /\ wm'.todo = wm.todo
        /\ portIndex' = portIndex
    BY <1>0, <1>8, <2>1 DEF TermLock, WmGoto, Wm
  <2>3. SameRows
    BY <1>8, <1>r, <2>1, LockSameRows DEF TermLock
  <2>4. WmInv'
    BY <1>0, <2>1, <2>2, <2>3
       DEF WmInv, WmChecking, WmTerminating, Present, SameRows
  <2> QED
    BY <1>l, <1>q, <1>8, <2>1, <2>2, <2>3, <2>4 DEF TermLock
<1>9. CASE TermShutdown
  <2>1. /\ wm.pc = "shutdown" /\ wm.port \in Port /\ wm'.pc = "poll"
        /\ wm'.todo = wm.todo
    BY <1>0, <1>9 DEF TermShutdown, PcTypes, WmGoto, Wm
  <2>2. SameProcs
    BY <1>9, <2>1, TypeShutdown DEF TermShutdown, SameProcs, TypeInv
  <2>3. WmInv'
    BY <1>9, <2>1 DEF TermShutdown, WmInv, WmChecking, WmTerminating, Present
  <2> QED
    BY <1>l, <1>r, <1>9, <2>1, <2>2, <2>3 DEF TermShutdown
<1>10. CASE TermRelease
  <2>1. /\ wm.pc = "poll" /\ wm.port \in Port /\ wm'.pc = "terminating"
        /\ wm'.todo = wm.todo /\ "Wrkmanager" \in Lock
    BY <1>0, <1>10 DEF TermRelease, PcTypes, Lock, Wm
  <2>2. SameRows
    BY <1>10, <2>1, LockSameRows DEF TermRelease
  <2>3. WmInv'
    BY <1>0, <2>1, <2>2 DEF WmInv, WmChecking, WmTerminating, Present, SameRows
  <2> QED
    BY <1>l, <1>q, <1>10, <2>1, <2>2, <2>3 DEF TermRelease
<1>11. ASSUME NEW p \in Port, CheckHealthy(p) PROVE SteadyInv'
  <2>1. /\ wm.pc = "checking" /\ wm'.pc = "checking" /\ wm'.todo = wm.todo \ {p}
        /\ \A q \in Port \ {p} : wm'.snap[q] = wm.snap[q]
    BY <1>0, <1>11 DEF CheckHealthy, Checking, Checked, Wm
  <2>2. UNCHANGED <<workers, proc, portIndex>>
    BY <1>11 DEF CheckHealthy
  <2>3. WmInv'
    BY <1>0, <2>1, <2>2 DEF WmInv, WmChecking, WmTerminating, Owner, Alive
  <2> QED
    BY <1>l, <1>q, <1>r, <1>11, <2>1, <2>3 DEF CheckHealthy
<1>12. ASSUME NEW p \in Port, CheckDead(p) PROVE SteadyInv'
  <2>1. /\ wm.pc = "checking" /\ wm'.pc = "load" /\ wm'.todo = wm.todo \ {p}
        /\ wm'.port = p /\ p \in wm.todo
        /\ \A q \in Port \ {p} : wm'.snap[q] = wm.snap[q]
    BY <1>0, <1>12 DEF CheckDead, Checking, Checked, Wm
  <2>2. SameProcs
    BY <1>12, TypeShutdown DEF CheckDead, SameProcs, TypeInv
  <2>3. Abandoned(p)
    BY <1>12, <2>1 DEF CheckDead, WmInv, WmChecking, Abandoned, Owner
  <2>4. Abandoned(p)'
    BY <1>12, <2>2, <2>3 DEF CheckDead, Abandoned, Owner, Alive, SameProcs
  <2>5. WmInv'
    BY <1>0, <1>12, <2>1, <2>2, <2>4
       DEF CheckDead, WmInv, WmChecking, WmTerminating, Owner, Alive, SameProcs
  <2> QED
    BY <1>l, <1>r, <1>12, <2>1, <2>2, <2>5 DEF CheckDead
<1>13. ASSUME NEW p \in Port, CheckUnreachable(p) PROVE SteadyInv'
  <2>1. /\ wm.pc = "checking" /\ wm'.pc = "kill" /\ wm'.todo = wm.todo \ {p}
        /\ wm'.snap = wm.snap
    BY <1>0, <1>13 DEF CheckUnreachable, Checking, Checked, Wm
  <2>2. SameProcs
    <3>1. wm.snap[p] \in Pid
      BY <1>0, <1>13 DEF CheckUnreachable, Alive
    <3> QED
      BY <1>0, <1>13, <3>1 DEF CheckUnreachable, SameProcs, Proc
  <2>3. WmInv'
    <3>1. UNCHANGED workers
      BY <1>13 DEF CheckUnreachable, dbVars
    <3>2. WmChecking /\ WmChecking' /\ ~WmTerminating'
      BY <2>1 DEF WmChecking, WmTerminating
    <3>3. \A q \in Port, i \in Pid : Owner(i, q)' => Owner(i, q)
      BY <2>2 DEF Owner, Alive, SameProcs
    <3>4. portIndex' = portIndex /\ wm.todo \subseteq Port
      BY <1>0, <1>13 DEF CheckUnreachable, Wm
    <3> QED
      BY <2>1, <3>1, <3>2, <3>3, <3>4 DEF WmInv
  <2>4. faults'.start = faults.start
    BY <1>13, SpendKeepsStart DEF CheckUnreachable
  <2> QED
    BY <1>l, <1>r, <1>13, <2>1, <2>2, <2>3, <2>4 DEF CheckUnreachable
<1>14. ASSUME NEW p \in Port, TermLoad(p) PROVE SteadyInv'
  <2>1. wm.pc = "terminating" /\ p \in wm.todo /\ Present(p)
    BY <1>14 DEF TermLoad, WmInv, WmTerminating
  <2>2. /\ wm'.pc = "lock" /\ wm'.port = p /\ wm'.todo = wm.todo \ {p}
        /\ portIndex' = portIndex
    BY <1>0, <1>14, <2>1 DEF TermLoad, Wm
  <2>3. WmInv'
    BY <1>14, <2>1, <2>2 DEF TermLoad, WmInv, WmChecking, WmTerminating, Present
  <2> QED
    BY <1>l, <1>q, <1>r, <1>14, <2>1, <2>2, <2>3 DEF TermLoad
<1> QED
  BY <1>1, <1>2, <1>3, <1>4, <1>5, <1>6, <1>7, <1>8, <1>9, <1>10, <1>11, <1>12,
     <1>13, <1>14

\* Steps of the worker manager that write a row, fail a request, kill a worker
\* or start one.
LEMMA SteadyManagerStores ==
    ASSUME Inv,
           \/ CheckKill \/ DeregRow \/ DeregFailRequest
           \/ StartWait \/ StartGiveUp
           \/ \E p \in Port : ResetDelete(p) \/ \E i \in Pid : StartWorker(p, i)
    PROVE  SteadyInv'
<1> USE DEF Inv, PoolInv, SteadyInv, wmFrame, dbVars
<1>0. /\ wm \in Wm /\ wm.todo \subseteq Port /\ wm.snap \in [Port -> Pid \cup {0}]
      /\ workers \in [Port -> Row] /\ proc \in [Pid -> Proc]
      /\ dsp.todo \subseteq Port /\ portIndex \in Nat
      /\ \A i \in Pid : Alive(i) => proc[i].port \in Port
      /\ dsp.pc \in {"loaded", "locked"} => dsp.port \in Port
  BY DEF TypeOK, Wm, Dsp, PcTypes
<1>1. CASE CheckKill
  <2>1. PICK k \in Port, d \in Pid \cup {0} : k = wm.port /\ d = wm.snap[k]
    BY <1>0, <1>1 DEF CheckKill, PcTypes
  <2>2. /\ wm.pc = "kill" /\ wm'.pc = "checking" /\ wm'.todo = wm.todo
        /\ \A q \in Port \ {k} : wm'.snap[q] = wm.snap[q]
    BY <1>0, <1>1, <2>1 DEF CheckKill, Wm
  <2>3. /\ \A i \in Pid : proc'[i] = proc[i] \/ ~Alive(i)'
        /\ ~Alive(d)'
    <3>1. DeadProc.pc = "dead"
      BY DEF DeadProc, UnbornProc
    <3>2. CASE Alive(d)
      <4>1. proc' = [proc EXCEPT ![d] = DeadProc] /\ d \in Pid
        BY <1>1, <2>1, <3>2 DEF CheckKill, Alive
      <4> QED
        BY <1>0, <3>1, <4>1 DEF Alive
    <3>3. CASE ~Alive(d)
      BY <1>1, <2>1, <3>3 DEF CheckKill, Alive
    <3> QED
      BY <3>2, <3>3
  <2>4. UNCHANGED <<requests, workers, registry, dsp, sup, portIndex, faults>>
    BY <1>1 DEF CheckKill
  <2>5. PortInv'
    BY <2>2, <2>3, <2>4 DEF PortInv, Issued, Alive, Present
  <2>6. RowInv'
    BY <2>3, <2>4 DEF RowInv, Registered, AtWork, Alive, Present
  <2>7. DspInv'
    BY <1>0, <2>2, <2>3, <2>4
       DEF DspInv, DspHolds, Issued, Owner, Registered, Alive, Pending, Assigned
  <2>8. WmInv'
    <3>1. \A q \in wm.todo, i \in Pid : Owner(i, q)' => Owner(i, q) /\ i # d
      BY <1>0, <2>3 DEF Owner, Alive
    <3>2. \A q \in wm.todo, i \in Pid : Owner(i, q)' => wm'.snap[q] = i
      BY <1>0, <2>1, <2>2, <3>1 DEF WmInv, WmChecking
    <3> QED
      BY <2>2, <2>4, <3>2 DEF WmInv, WmChecking, WmTerminating
  <2>9. WorkInv'
    BY <2>3, <2>4 DEF WorkInv, Registered, Alive, Pending
  <2>10. AtMostOneRow'
    BY <2>4 DEF AtMostOneRow
  <2> QED
    BY <2>5, <2>6, <2>7, <2>8, <2>9, <2>10
<1>2. CASE DeregRow
  <2>1. PICK p \in Port, u \in Uuid : p = wm.port /\ u = wm.uuid
    BY <1>0, <1>2 DEF DeregRow, PcTypes, Wm
  <2>2. /\ wm.pc = "dereg" /\ Abandoned(p) /\ u \in {NoReq, workers[p].uuid}
        /\ \A i \in Pid : ~Owner(i, p)
    BY <1>2, <2>1 DEF DeregRow, WmInv, Abandoned
  <2>3. ExitedRow(u).uuid = u /\ ExitedRow(u).status = "Exited"
    BY DEF ExitedRow, NoRow
  <2>4. /\ \A q \in Port \ {p} : workers'[q] = workers[q]
        /\ workers'[p].uuid = u
        /\ \A q \in Port : Present(q) <=> Present(q)'
    <3>1. CASE Present(p)
      <4>1. workers' = [workers EXCEPT ![p] = ExitedRow(u)]
        BY <1>2, <2>1, <3>1 DEF DeregRow, mUpdateWorker
      <4> QED
        BY <1>0, <2>3, <3>1, <4>1 DEF Present
    <3>2. CASE ~Present(p)
      BY <1>2, <2>1, <2>2, <3>2 DEF DeregRow, mUpdateWorker, RowInv, Present
    <3> QED
      BY <3>1, <3>2
  <2>5. /\ wm'.pc = "checking" \/ (wm'.pc = "readreq" /\ wm'.port = p /\ wm'.uuid = u)
        /\ wm'.todo = wm.todo /\ wm'.snap = wm.snap
    BY <1>0, <1>2, <2>1 DEF DeregRow, Deregistered, WmGoto, Wm
  <2>6. UNCHANGED <<requests, registry, proc, dsp, sup, portIndex, faults>>
    BY <1>2 DEF DeregRow
  <2>7. \A i \in Pid : Alive(i) => proc[i].port # p
    BY <2>2 DEF Owner
  <2>8. PortInv'
    BY <2>2, <2>4, <2>5, <2>6 DEF PortInv, Issued, Alive
  <2>9. RowInv'
    BY <1>0, <2>2, <2>4, <2>6, <2>7 DEF RowInv, Registered, AtWork, Alive
  <2>10. DspInv'
    <3>1. DspHolds => dsp.req \in Req /\ dsp.req # NoReq
      BY Constants DEF DspHolds, PcTypes
    <3> QED
      BY <1>0, <2>2, <2>4, <2>5, <2>6, <3>1
         DEF DspInv, DspHolds, Issued, Owner, Registered, Alive, Pending, Assigned
  <2>11. WmInv'
    BY <1>0, <2>1, <2>2, <2>4, <2>5, <2>6
       DEF WmInv, WmChecking, WmTerminating, Abandoned, Owner, Alive
  <2>12. AtMostOneRow'
    BY <2>2, <2>4 DEF AtMostOneRow
  <2>13. WorkInv'
    BY <1>0, <2>4, <2>6, <2>7 DEF WorkInv, Registered, Alive, Pending
  <2> QED
    BY <2>8, <2>9, <2>10, <2>11, <2>12, <2>13
<1>3. CASE DeregFailRequest
  <2>1. PICK p \in Port, r \in Req : p = wm.port /\ r = wm.uuid /\ r # NoReq
    BY <1>3, Constants DEF DeregFailRequest, PcTypes
  <2>2. wm.pc = "failreq" /\ Abandoned(p) /\ workers[p].uuid = r
    BY <1>3, <2>1 DEF DeregFailRequest, WmInv
  <2>3. /\ wm'.pc = "checking" /\ wm'.todo = wm.todo /\ wm'.snap = wm.snap
        /\ UNCHANGED <<workers, proc, dsp, sup, portIndex, faults>>
    BY <1>0, <1>3 DEF DeregFailRequest, Deregistered, Wm
  <2>4. /\ \A s \in Req \ {r} : requests'[s] = requests[s]
        /\ \A s \in Req \ {r}, q \in Port : <<s, q>> \in registry => <<s, q>> \in registry'
    BY <1>3, <2>1 DEF DeregFailRequest, mFailRequest, TypeOK
  <2>5. \A i \in Pid : Alive(i) => workers[proc[i].port].uuid # r
    BY <1>0, <2>1, <2>2 DEF Abandoned, Owner, AtMostOneRow
  <2>6. PortInv'
    BY <2>2, <2>3 DEF PortInv, Issued, Alive, Present
  <2>7. RowInv'
    BY <2>3 DEF RowInv, Registered, AtWork, Present
  <2>8. DspInv'
    <3>1. DspHolds => dsp.req \in Req \ {r}
      BY <2>2 DEF DspHolds, PcTypes, DspInv, Assigned
    <3> QED
      BY <2>2, <2>3, <2>4, <3>1
         DEF DspInv, DspHolds, Issued, Owner, Registered, Alive, Pending, Assigned
  <2>9. WmInv'
    BY <2>2, <2>3 DEF WmInv, WmChecking, WmTerminating, Owner, Alive
  <2>10. AtMostOneRow'
    BY <2>3 DEF AtMostOneRow
  <2>11. WorkInv'
    <3>1. \A i \in Pid : Alive(i) => workers[proc[i].port].uuid \in Uuid
      BY <1>0, RowUpdates
    <3>2. \A i \in Pid : proc[i].pc = "exec" =>
             /\ proc[i].copy.uuid \in Req \ {r} /\ proc[i].port \in Port
      BY <1>0, <2>5 DEF PcTypes, AtWork, Alive, RowInv
    <3>3. \A i \in Pid : Alive(i) /\ workers[proc[i].port].uuid # NoReq =>
             /\ workers[proc[i].port].uuid \in Req \ {r}
             /\ Pending(workers[proc[i].port].uuid)
                => Pending(workers[proc[i].port].uuid)'
      BY <2>3, <2>4, <2>5, <3>1 DEF Pending, Uuid
    <3> QED
      BY <2>3, <2>4, <3>2, <3>3 DEF WorkInv, Registered, Alive
  <2> QED
    BY <2>6, <2>7, <2>8, <2>9, <2>10, <2>11
<1>4. CASE StartWait
  <2>1. /\ wm.pc = "wait" /\ wm'.pc = "start" /\ portIndex' = wm.port + 1
        /\ wm.port \in Nat /\ wm.port >= portIndex
        /\ UNCHANGED <<requests, workers, registry, proc, dsp, sup, faults>>
    BY <1>0, <1>4, Constants DEF StartWait, Wm, PcTypes, PortInv
  <2>2. \A p \in Port : Issued(p) => p < portIndex'
    BY <1>0, <2>1 DEF Issued
  <2>3. PortInv'
    BY <1>0, <2>1, <2>2 DEF PortInv, Issued, Alive, Present
  <2>4. RowInv'
    BY <2>1 DEF RowInv, Registered, AtWork, Present
  <2>5. DspInv'
    BY <1>0, <2>1, <2>2
       DEF DspInv, DspHolds, Issued, Owner, Registered, Alive, Pending, Assigned
  <2>6. WmInv'
    BY <2>1 DEF WmInv, WmChecking, WmTerminating
  <2>7. AtMostOneRow' /\ WorkInv'
    BY <2>1 DEF AtMostOneRow, WorkInv, Registered, Pending
  <2> QED
    BY <2>3, <2>4, <2>5, <2>6, <2>7
<1>5. CASE StartGiveUp
  <2>1. faults.start >= 1
    BY <1>5 DEF StartGiveUp, Spend
  <2> QED
    BY <2>1 DEF PortInv
<1>6. ASSUME NEW p \in Port, ResetDelete(p) PROVE SteadyInv'
  <2>1. /\ wm.pc = "resetting" /\ wm'.pc = "resetting" /\ wm'.todo = wm.todo \ {p}
        /\ Abandoned(p)
        /\ UNCHANGED <<requests, proc, dsp, sup, portIndex, faults>>
    BY <1>0, <1>6 DEF ResetDelete, WmInv, Wm
  <2>2. /\ workers'[p] = NoRow /\ NoRow.uuid = NoReq /\ NoRow.status = "none"
        /\ \A q \in Port \ {p} : workers'[q] = workers[q]
    BY <1>6 DEF ResetDelete, mDelWorkerEntry, NoRow
  <2>3. \A r \in Req, q \in Port \ {p} : <<r, q>> \in registry => <<r, q>> \in registry'
    BY <1>6 DEF ResetDelete, mDelWorkerEntry
  <2>4. \A i \in Pid : Alive(i) => proc[i].port \in Port \ {p}
    BY <1>0, <2>1 DEF Abandoned, Owner
  <2>5. PortInv'
    BY <2>1, <2>2 DEF PortInv, Issued, Alive, Present
  <2>6. RowInv'
    BY <2>1, <2>2, <2>4 DEF RowInv, Registered, AtWork, Alive, Present
  <2>7. DspInv'
    <3>1. DspHolds => dsp.req \in Req /\ dsp.req # NoReq
      BY Constants DEF DspHolds, PcTypes
    <3> QED
      BY <1>0, <2>1, <2>2, <3>1
         DEF DspInv, DspHolds, Issued, Owner, Registered, Alive, Pending, Assigned
  <2>8. WmInv'
    BY <1>0, <2>1 DEF WmInv, WmChecking, WmTerminating, Abandoned, Owner, Alive
  <2>9. AtMostOneRow'
    BY <2>2 DEF AtMostOneRow
  <2>10. WorkInv'
    <3>1. \A i \in Pid : Registered(i) =>
             /\ Alive(i) /\ proc[i].port \in Port \ {p}
             /\ workers'[proc[i].port] = workers[proc[i].port]
      BY <2>2, <2>4 DEF Registered, Alive
    <3>2. \A i \in Pid : proc[i].pc = "exec" => Registered(i) /\ proc[i].copy.uuid \in Req
      BY DEF Registered, PcTypes, AtWork
    <3> QED
      BY <2>1, <2>3, <3>1, <3>2 DEF WorkInv, Registered, Pending
  <2> QED
    BY <2>5, <2>6, <2>7, <2>8, <2>9, <2>10
<1>7. ASSUME NEW p \in Port, NEW i \in Pid, StartWorker(p, i) PROVE SteadyInv'
  <2>1. /\ wm.pc = "start" /\ wm'.pc = "wait" /\ wm'.port = p
        /\ p >= portIndex /\ ~Present(p)
        /\ UNCHANGED <<requests, workers, registry, dsp, sup, portIndex, faults>>
    BY <1>0, <1>7 DEF StartWorker, mGetPort, FreePort, Wm
  <2>2. /\ proc'[i].pc = "boot" /\ proc'[i].port = p
        /\ \A j \in Pid \ {i} : proc'[j] = proc[j]
    <3>1. proc' = [proc EXCEPT ![i] = [proc[i] EXCEPT !.pc = "boot", !.port = p]]
      BY <1>7 DEF StartWorker
    <3> QED
      BY <1>0, <3>1 DEF Proc
  <2>3. \A j \in Pid : Alive(j) => proc[j].port # p
    BY <1>0, <2>1 DEF PortInv, Issued
  <2>4. PortInv'
    <3>1. \A q \in Port : (Issued(q) => Issued(q)') /\ (Present(q)' => Present(q))
      BY <2>1 DEF Issued, Present
    <3>2. /\ Alive(i)' /\ Issued(p)'
          /\ \A j \in Pid \ {i} : Alive(j)' <=> Alive(j)
      BY <2>1, <2>2 DEF Issued, Alive
    <3>3. \A j \in Pid : Alive(j)' => Issued(proc[j].port)'
      BY <1>0, <2>2, <3>1, <3>2 DEF PortInv, PcTypes
    <3>4. \A j, k \in Pid : Alive(j)' /\ Alive(k)' /\ proc'[j].port = proc'[k].port
                            => j = k
      BY <2>2, <2>3, <3>2 DEF PortInv
    <3>5. faults'.start = 0 /\ (~SupervisorEnabled => sup' = {})
          /\ (wm'.pc = "wait" => wm'.port >= portIndex')
      BY <2>1 DEF PortInv
    <3>6. \A q \in Port : Present(q)' => Issued(q)'
      BY <3>1 DEF PortInv
    <3> QED
      BY <3>3, <3>4, <3>5, <3>6 DEF PortInv
  <2>5. RowInv'
    BY <2>1, <2>2 DEF RowInv, Registered, AtWork, Present
  <2>6. DspInv'
    BY <1>0, <2>1, <2>2
       DEF DspInv, DspHolds, Issued, Owner, Registered, Alive, Pending, Assigned
  <2>7. WmInv'
    BY <2>1 DEF WmInv, WmChecking, WmTerminating
  <2>8. AtMostOneRow' /\ WorkInv'
    BY <2>1, <2>2 DEF AtMostOneRow, WorkInv, Registered, Pending
  <2> QED
    BY <2>4, <2>5, <2>6, <2>7, <2>8
<1> QED
  BY <1>1, <1>2, <1>3, <1>4, <1>5, <1>6, <1>7

\* New requests, idle timeouts and the supervisor preserve it; neither the
\* dispatcher nor the worker manager is killed.
LEMMA SteadyRest ==
    ASSUME Inv, StablePorts,
           \/ \E r \in Req : mRegisterRequest(r) \/ dispatchJobToWorker(r)
           \/ \E p \in Port : IdleTimeout(p)
           \/ DspCrash \/ WmCrash \/ Supervisor \/ UNCHANGED vars
    PROVE  SteadyInv'
<1> USE DEF Inv, PoolInv, dbVars
<1>1. CASE \E r \in Req : mRegisterRequest(r)
  <2>1. /\ UNCHANGED <<workers, registry, proc, dsp, wm, portIndex, sup, faults>>
        /\ \A s \in Req : Pending(s) => Pending(s)'
    BY <1>1 DEF mRegisterRequest, TypeOK, Pending
  <2>2. PortInv' /\ RowInv' /\ WmInv' /\ AtMostOneRow'
    <3>1. PortInv' /\ AtMostOneRow'
      BY <2>1 DEF SteadyInv, PortInv, AtMostOneRow, Issued, Alive, Present
    <3>2. RowInv'
      BY <2>1 DEF SteadyInv, RowInv, Registered, AtWork, Present
    <3>3. WmInv'
      BY <2>1 DEF SteadyInv, WmInv, WmChecking, WmTerminating, Abandoned, Owner,
                  Alive, Present
    <3> QED
      BY <3>1, <3>2, <3>3
  <2>3. DspInv'
    BY <2>1 DEF SteadyInv, DspInv, DspHolds, PcTypes, Issued, Owner, Registered,
                Alive, Assigned
  <2>4. WorkInv'
    <3>1. \A i \in Pid : Registered(i) => workers[proc[i].port].uuid \in Uuid
      <4>1. \A i \in Pid : Registered(i) => proc[i].port \in Port
        BY DEF PcTypes, Registered, Alive
      <4>2. \A p \in Port : workers[p].uuid \in Uuid
        BY RowUpdates DEF TypeOK
      <4> QED
        BY <4>1, <4>2
    <3>2. ASSUME ~SupervisorEnabled,
                 NEW i \in Pid, Registered(i), proc[i].pc # "done",
                 workers[proc[i].port].uuid # NoReq
          PROVE  requests'[workers[proc[i].port].uuid].status = "Pending"
      <4>1. PICK u \in Req : u = workers[proc[i].port].uuid
        BY <3>1, <3>2 DEF Uuid
      <4>2. requests[u].status = "Pending"
        BY <3>2, <4>1 DEF SteadyInv, WorkInv, Pending
      <4> QED
        BY <2>1, <4>1, <4>2 DEF Pending
    <3> QED
      BY <2>1, <3>2 DEF SteadyInv, WorkInv, Registered, Pending
  <2> QED
    BY <2>2, <2>3, <2>4 DEF SteadyInv
<1>2. CASE \/ \E r \in Req : dispatchJobToWorker(r)
           \/ \E p \in Port : IdleTimeout(p)
           \/ UNCHANGED vars
  <2>1. /\ UNCHANGED <<requests, workers, registry, proc, dsp, wm, portIndex, sup>>
        /\ faults'.start = faults.start
    <3>1. CASE \E p \in Port : IdleTimeout(p)
      BY <3>1, SpendKeepsStart DEF IdleTimeout
    <3> QED
      BY <1>2, <3>1 DEF dispatchJobToWorker, vars
  <2>2. SameRows
    BY <2>1 DEF SameRows
  <2>3. DspInv'
    BY <2>1 DEF SteadyInv, DspInv, DspHolds, Issued, Owner, Registered, Alive,
                Pending, Assigned
  <2> QED
    BY <2>1, <2>2, <2>3, DispatcherLocal DEF SteadyInv
<1>3. CASE Supervisor
  <2>1. /\ UNCHANGED <<workers, proc, dsp, wm, portIndex, faults>>
        /\ SupervisorEnabled
    BY <1>3 DEF SteadyInv, PortInv, Supervisor, mOrphanRequests, CleanOrphan
  <2>2. PortInv' /\ AtMostOneRow' /\ WorkInv'
    BY <2>1 DEF SteadyInv, PortInv, AtMostOneRow, WorkInv, Issued, Alive, Present
  <2>3. RowInv'
    BY <2>1 DEF SteadyInv, RowInv, Registered, AtWork, Present
  <2>4. WmInv'
    BY <2>1 DEF SteadyInv, WmInv, WmChecking, WmTerminating, Abandoned, Owner,
                Alive, Present
  <2>5. DspInv'
    BY <2>1 DEF SteadyInv, DspInv, DspHolds, Assigned, Issued, Owner, Registered, Alive
  <2> QED
    BY <2>2, <2>3, <2>4, <2>5 DEF SteadyInv
<1>4. ~DspCrash /\ ~WmCrash
  BY DEF StablePorts, DspCrash, WmCrash
<1> QED
  BY <1>1, <1>2, <1>3, <1>4

\* The invariant holds initially.
LEMMA InitInv == ASSUME StablePorts, Init PROVE Inv
<1>1. TypeOK /\ PcTypes
  BY TypeInit DEF TypeInv
<1>2. SteadyInv
  <2>1. \A i \in Pid : proc[i].pc = "unborn"
    BY DEF Init, UnbornProc
  <2>2. \A p \in Port : workers[p].uuid = NoReq /\ workers[p].status = "none"
    BY DEF Init, NoRow
  <2>3. wm.pc = "boot" /\ dsp.pc = "idle" /\ sup = {} /\ faults.start = 0
    BY DEF Init, BootWm, IdleDsp, StablePorts
  <2> QED
    BY <2>1, <2>2, <2>3
       DEF SteadyInv, PortInv, RowInv, DspInv, WmInv, AtMostOneRow, WorkInv,
           Alive, Present, Registered, AtWork, DspHolds, WmChecking, WmTerminating
<1> QED
  BY <1>1, <1>2 DEF Inv, PoolInv

\* The inductive step.
LEMMA NextInv == ASSUME StablePorts, Inv, [Next]_vars PROVE Inv'
<1>1. TypeOK' /\ PcTypes'
  BY TypeStep DEF Inv, PoolInv, TypeInv
<1>2. SteadyInv'
  <2>1. CASE \E i \in Pid : Worker(i) \/ WrkCrash(i)
    BY <2>1, SteadyWorker
  <2>2. CASE Dispatcher
    BY <2>2, SteadyDispatcher
  <2>3. CASE WorkerManager
    BY <2>3, SteadyManagerLocal, SteadyManagerStores DEF WorkerManager
  <2>4. CASE \/ \E r \in Req : mRegisterRequest(r) \/ dispatchJobToWorker(r)
             \/ \E p \in Port : IdleTimeout(p)
             \/ DspCrash \/ WmCrash \/ Supervisor \/ UNCHANGED vars
    BY <2>4, SteadyRest
  <2> QED
    BY <2>1, <2>2, <2>3, <2>4 DEF Next
<1> QED
  BY <1>1, <1>2 DEF Inv, PoolInv

\* PoolInv is an inductive invariant of a pool with stable ports.
THEOREM PoolInvariant == ASSUME StablePorts PROVE Spec => []PoolInv
<1>1. Init => Inv
  BY InitInv
<1>2. Inv /\ [Next]_vars => Inv'
  BY NextInv
<1>3. Inv => PoolInv
  BY DEF Inv
<1> QED
  BY <1>1, <1>2, <1>3, PTL DEF Spec

\* While only workers are killed and every started worker comes up, no request
\* is ever in the rows of two workers, however many ports, processes, requests,
\* worker crashes, failed probes and idle timeouts there are, and whether or not
\* the supervisor fails orphan requests meanwhile: the stale row copies written
\* back by the dispatcher, by workers and by mDeregister never duplicate an
\* assignment.
THEOREM NoDoubleAssignment == ASSUME StablePorts PROVE Spec => []AtMostOneRow
<1>1. PoolInv => AtMostOneRow
  BY DEF PoolInv, SteadyInv
<1> QED
  BY <1>1, PoolInvariant, PTL

\* In the steady pool a request that a worker executes stays Pending and keeps
\* its cluster lock and its row until that worker finishes or dies: neither
\* mCheckFactory's deregistration nor a deleted row takes them away.
THEOREM ExecutionKeepsRequest ==
    ASSUME SteadyPool PROVE Spec => []ExecutionIsCovered
<1>1. PoolInv => ExecutionIsCovered
  BY Constants
     DEF SteadyPool, PoolInv, SteadyInv, ExecutionIsCovered, Executing, WorkInv,
         RowInv, Registered, AtWork, PcTypes
<1> QED
  BY <1>1, PoolInvariant, PTL DEF SteadyPool
=============================================================================
