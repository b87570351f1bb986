--------------------------- MODULE WorkerPoolProofs ---------------------------
(* Theorems about WorkerPool for every value of its constants.              *)
EXTENDS WorkerPoolInv, FiniteSetTheorems, TLAPS

USE DEF Port, Pid

(* The constants and the values the proofs keep folded.                     *)

\* The assumption on the constants, conjunct by conjunct.
LEMMA Constants ==
    /\ NoReq \notin Req /\ NPort \in Nat /\ MaxPid \in Nat
    /\ IdleThreadPoolCount \in Nat /\ IdleWC \in Nat
    /\ MaxCrash \in Nat /\ MaxCorrupt \in Nat /\ MaxProbeFail \in Nat
    /\ MaxStartFail \in Nat /\ MaxIdleTimeout \in Nat
BY PoolAssumption DEF PoolAssumption

\* The idle rows of the workers table can be counted.
LEMMA CardinalityOfPorts ==
    ASSUME NEW S \in SUBSET Port
    PROVE  IsFiniteSet(S) /\ Cardinality(S) \in Nat
<1>1. IsFiniteSet(Port)
  BY Constants, FS_Interval
<1> QED
  BY <1>1, FS_Subset, FS_CardinalityType

\* The number of workers mWrkmanager asks mStartWorkers for is never negative.
LEMMA MissingIsNat == Missing \in Nat
<1>1. IdleCount \in Nat
  BY CardinalityOfPorts DEF IdleCount
<1> QED
  BY <1>1, Constants DEF Missing

\* The objects that constructors, mDeregister and restarts build are well typed.
LEMMA RowTypes ==
    /\ NoRow \in Row
    /\ \A i \in Pid : FreshRow(i) \in Row
    /\ \A u \in Uuid : ExitedRow(u) \in Row
    /\ UnbornProc \in Proc /\ DeadProc \in Proc
    /\ IdleDsp \in Dsp /\ BootDsp \in Dsp /\ BootWm \in Wm
BY DEF NoRow, Row, Uuid, Lock, FreshRow, ExitedRow, UnbornProc, DeadProc, Proc,
       WorkerPc, IdleDsp, BootDsp, Dsp, BootWm, Wm, WmPc, NoSnap
\* Storing into a field of a row, or of a local state, keeps its type.
LEMMA RowUpdates ==
    ASSUME NEW row \in Row
    PROVE  /\ \A u \in Uuid : [row EXCEPT !.uuid = u] \in Row
           /\ \A l \in Lock : [row EXCEPT !.synclock = l] \in Row
           /\ [row EXCEPT !.status = "Running"] \in Row
           /\ [row EXCEPT !.status = "Idle", !.uuid = NoReq] \in Row
           /\ [row EXCEPT !.status = "Idle", !.uuid = NoReq,
                         !.state = "CORRUPTED"] \in Row
           /\ row.uuid \in Uuid
BY DEF Row, Uuid, Lock

\* An UPDATE of the workers table with a well-typed row keeps its type.
LEMMA WorkersUpdate ==
    ASSUME TypeOK, NEW p \in Port, NEW row \in Row, mUpdateWorker(p, row)
    PROVE  workers' \in [Port -> Row]
BY DEF TypeOK, mUpdateWorker

\* Taking or releasing a sync lock keeps the type of the workers table.
LEMMA WorkersLock ==
    ASSUME TypeOK, NEW p \in Port, NEW name \in Lock,
           mAcquireWorkerSyncLock(p, name) \/ mReleaseWorkerSyncLock(p, name)
    PROVE  workers' \in [Port -> Row]
<1>1. \A l \in Lock : [workers[p] EXCEPT !.synclock = l] \in Row
  BY RowUpdates DEF TypeOK
<1>2. "Undef" \in Lock
  BY DEF Lock
<1> QED
  BY <1>1, <1>2 DEF TypeOK, mAcquireWorkerSyncLock, mReleaseWorkerSyncLock

\* Deleting worker rows, and the registry rows of their ports, keeps the types.
LEMMA WorkersDelete ==
    ASSUME TypeOK, NEW P, mDelWorkerEntry(P)
    PROVE  workers' \in [Port -> Row] /\ registry' \subseteq Req \X Port
BY RowTypes DEF TypeOK, mDelWorkerEntry

\* Using up a fault keeps the budget in range.
LEMMA FaultsSpend ==
    ASSUME TypeOK, NEW n \in Nat,
           NEW kind \in {"crash", "corrupt", "probe", "start", "idle"},
           Spend(kind, n)
    PROVE  faults' \in [FaultKind -> Nat]
BY DEF TypeOK, Spend, FaultKind
-----------------------------------------------------------------------------
(* Type correctness, with what the program counters say about the locals.   *)

TypeInv == TypeOK /\ PcTypes

\* The dispatcher's steps, a restart included, keep every variable in its type.
LEMMA TypeDispatcher ==
    ASSUME TypeInv, Dispatcher \/ DspCrash
    PROVE  TypeInv'
<1> USE DEF TypeInv, PcTypes, Alive, AtWork, dspFrame
<1>1. CASE \E r \in Req : mGetPendingRequest(r)
  <2>1. dsp' \in Dsp
    BY <1>1 DEF mGetPendingRequest, TypeOK, Dsp, Uuid
  <2> QED
    BY <1>1, <2>1 DEF mGetPendingRequest, TypeOK, Dsp
<1>2. CASE mGetIdleWorkers
  <2>1. dsp' \in Dsp
    BY <1>2 DEF mGetIdleWorkers, TypeOK, Dsp
  <2> QED
    BY <1>2, <2>1 DEF mGetIdleWorkers, TypeOK, Dsp
<1>3. CASE \E p \in Port : DspLoad(p)
  <2>1. PICK p \in Port : DspLoad(p)
    BY <1>3
  <2>2. workers[p] \in Row /\ dsp \in Dsp
    BY DEF TypeOK
  <2>3. CASE Present(p)
    <3>1. dsp' = [dsp EXCEPT !.pc = "loaded", !.port = p,
                            !.copy = workers[p], !.todo = @ \ {p}]
      BY <2>1, <2>3 DEF DspLoad
    <3>2. dsp' \in Dsp
      BY <2>2, <3>1 DEF Dsp
    <3> QED
      BY <2>1, <3>1, <3>2 DEF DspLoad, TypeOK, Dsp
  <2>4. CASE ~Present(p)
    BY <2>1, <2>4, RowTypes DEF DspLoad, TypeOK, IdleDsp
  <2> QED
    BY <2>3, <2>4
<1>4. CASE DspLock
  <2>1. dsp.port \in Port /\ "Dispatcher" \in Lock
    BY <1>4 DEF DspLock, Lock
  <2>2. [dsp.copy EXCEPT !.synclock = "Dispatcher"] \in Row
    BY <2>1, RowUpdates DEF TypeOK, Dsp
  <2>3. workers' \in [Port -> Row]
    BY <1>4, <2>1, WorkersLock DEF DspLock, TypeOK
  <2>4. CASE dsp' = IdleDsp
    BY <1>4, <2>3, <2>4, RowTypes DEF DspLock, TypeOK, IdleDsp
  <2>5. CASE dsp' = [dsp EXCEPT !.pc = "locked", !.copy.synclock = "Dispatcher"]
    <3>1. dsp' \in Dsp
      BY <2>2, <2>5 DEF TypeOK, Dsp
    <3> QED
      BY <1>4, <2>1, <2>3, <2>5, <3>1 DEF DspLock, TypeOK, Dsp
  <2>6. CASE dsp' = [dsp EXCEPT !.pc = NextOfScan(dsp.todo), !.port = 0,
                                !.copy = NoRow]
    <3>1. NextOfScan(dsp.todo) \in {"pick", "scan"}
      BY DEF NextOfScan
    <3>2. dsp' \in Dsp
      BY <2>6, <3>1, RowTypes DEF TypeOK, Dsp
    <3> QED
      BY <1>4, <2>1, <2>3, <2>6, <3>1, <3>2 DEF DspLock, TypeOK, Dsp
  <2> QED
    BY <1>4, <2>4, <2>5, <2>6 DEF DspLock
<1>5. CASE DspAssign
  <2>1. dsp.port \in Port /\ dsp.req \in Uuid
    BY <1>5 DEF DspAssign, Uuid
  <2>2. workers' \in [Port -> Row]
    BY <1>5, <2>1, RowUpdates, WorkersUpdate DEF DspAssign, TypeOK, Dsp
  <2>3. dsp' \in Dsp
    BY <1>5 DEF DspAssign, TypeOK, Dsp
  <2> QED
    BY <1>5, <2>2, <2>3 DEF DspAssign, TypeOK, Dsp
<1>6. CASE DspRelease
  <2>1. dsp.port \in Port /\ "Dispatcher" \in Lock
    BY <1>6 DEF DspRelease, Lock
  <2>2. workers' \in [Port -> Row]
    BY <1>6, <2>1, WorkersLock DEF DspRelease
  <2> QED
    BY <1>6, <2>2, RowTypes DEF DspRelease, TypeOK, IdleDsp
<1>7. CASE DspCrash
  <2>1. faults' \in [FaultKind -> Nat]
    BY <1>7, FaultsSpend DEF DspCrash
  <2>2. dsp' \in Dsp /\ dsp'.pc = "boot"
    BY <1>7, RowTypes DEF DspCrash, BootDsp, IdleDsp
  <2> QED
    BY <1>7, <2>1, <2>2 DEF DspCrash, dbVars, TypeOK
<1>8. CASE DspResetList
  <2>1. dsp' \in Dsp /\ dsp'.pc = "reset"
    BY <1>8 DEF DspResetList, ExitedPorts, TypeOK, Dsp
  <2> QED
    BY <1>8, <2>1 DEF DspResetList, TypeOK
<1>9. CASE \E p \in Port : DspResetDelete(p)
  <2>1. dsp' \in Dsp /\ dsp'.pc = "reset"
    BY <1>9 DEF DspResetDelete, TypeOK, Dsp
  <2>2. workers' \in [Port -> Row] /\ registry' \subseteq Req \X Port
    BY <1>9, WorkersDelete DEF DspResetDelete
  <2> QED
    BY <1>9, <2>1, <2>2 DEF DspResetDelete, TypeOK
<1>10. CASE DspReady
  BY <1>10, RowTypes DEF DspReady, TypeOK, IdleDsp
<1> QED
  BY <1>1, <1>2, <1>3, <1>4, <1>5, <1>6, <1>7, <1>8, <1>9, <1>10 DEF Dispatcher

\* A worker's steps and its death keep every variable in its type.
LEMMA TypeWorker ==
    ASSUME TypeInv, NEW i \in Pid, Worker(i) \/ WrkCrash(i)
    PROVE  TypeInv'
<1> USE DEF TypeInv, PcTypes, Alive, AtWork, wrkFrame, dbVars
<1>1. CASE WrkBindFails(i)
  BY <1>1, RowTypes DEF WrkBindFails, TypeOK, DeadProc, UnbornProc
<1>2. CASE mRegister(i)
  <2>1. proc' \in [Pid -> Proc]
    BY <1>2 DEF mRegister, TypeOK, Proc, WorkerPc
  <2>2. workers' \in [Port -> Row]
    BY <1>2, RowTypes DEF mRegister, TypeOK
  <2> QED
    BY <1>2, <2>1, <2>2 DEF mRegister, TypeOK, Proc
<1>3. CASE WrkTop(i)
  <2>1. proc' \in [Pid -> Proc]
    BY <1>3 DEF WrkTop, TypeOK, Proc, WorkerPc
  <2> QED
    BY <1>3, <2>1 DEF WrkTop, TypeOK, Proc
<1>4. CASE WrkLoad(i)
  <2> DEFINE row == workers[proc[i].port]
  <2>1. proc[i].port \in Port
    BY <1>4 DEF WrkLoad
  <2>2. row \in Row
    BY <2>1 DEF TypeOK
  <2>3. row.uuid \in Uuid
    BY <2>2, RowUpdates
  <2>4. CASE row.uuid = NoReq
    <3> DEFINE q == [proc[i] EXCEPT !.pc = "top"]
    <3>1. proc' = [proc EXCEPT ![i] = q]
      BY <1>4, <2>4 DEF WrkLoad
    <3>2. q \in Proc /\ q.pc = "top" /\ q.port = proc[i].port
      BY DEF TypeOK, Proc, WorkerPc
    <3> HIDE DEF q
    <3> QED
      BY <1>4, <2>1, <3>1, <3>2 DEF WrkLoad, TypeOK
  <2>5. CASE row.uuid # NoReq
    <3> DEFINE q == [proc[i] EXCEPT !.pc = "assigned", !.copy = row]
    <3>1. proc' = [proc EXCEPT ![i] = q]
      BY <1>4, <2>5 DEF WrkLoad
    <3> HIDE DEF row
    <3>2. /\ q \in Proc /\ q.pc = "assigned" /\ q.port = proc[i].port
          /\ q.copy = row
      BY <2>2 DEF TypeOK, Proc, WorkerPc
    <3> HIDE DEF q
    <3> QED
      BY <1>4, <2>1, <2>3, <2>5, <3>1, <3>2 DEF WrkLoad, TypeOK, Uuid
  <2> QED
    BY <2>4, <2>5
<1>5. CASE WrkRun(i)
  <2>1. proc[i].copy \in Row /\ proc[i].port \in Port
    BY <1>5 DEF WrkRun, TypeOK, Proc
  <2>2. workers' \in [Port -> Row]
    BY <1>5, <2>1, RowUpdates, WorkersUpdate DEF WrkRun
  <2>3. proc' \in [Pid -> Proc]
    BY <1>5 DEF WrkRun, TypeOK, Proc, WorkerPc
  <2> QED
    BY <1>5, <2>2, <2>3 DEF WrkRun, TypeOK, Proc
<1>6. CASE WrkLock(i)
  <2>1. proc[i].copy.uuid \in Req /\ proc[i].port \in Port
    BY <1>6 DEF WrkLock
  <2>0. /\ proc \in [Pid -> Proc] /\ "exec" \in WorkerPc
        /\ proc' = [proc EXCEPT ![i].pc = "exec"]
    BY <1>6 DEF WrkLock, TypeOK, WorkerPc
  <2>2. proc' \in [Pid -> Proc]
    BY <2>0 DEF Proc
  <2>3. runs' \in [Req -> 0..2] /\ registry' \subseteq Req \X Port
    BY <1>6, <2>1 DEF WrkLock, TypeOK
  <2> QED
    BY <1>6, <2>2, <2>3 DEF WrkLock, TypeOK, Proc
<1>10. CASE WrkUnlock(i)
  <2>0. /\ proc \in [Pid -> Proc] /\ "unlocked" \in WorkerPc
        /\ proc' = [proc EXCEPT ![i].pc = "unlocked"]
    BY <1>10 DEF WrkUnlock, TypeOK, WorkerPc
  <2>1. proc' \in [Pid -> Proc]
    BY <2>0 DEF Proc
  <2> QED
    BY <1>10, <2>1 DEF WrkUnlock, TypeOK, Proc
<1>11. CASE WrkFinish(i)
  <2>0. /\ proc \in [Pid -> Proc] /\ "done" \in WorkerPc
        /\ proc' = [proc EXCEPT ![i].pc = "done"]
    BY <1>11 DEF WrkFinish, TypeOK, WorkerPc
  <2>1. proc' \in [Pid -> Proc]
    BY <2>0 DEF Proc
  <2> QED
    BY <1>11, <2>1 DEF WrkFinish, TypeOK, Proc
<1>7. CASE WrkReset(i)
  <2>1. proc[i].copy \in Row /\ proc[i].port \in Port
    <3>1. proc[i] \in Proc /\ proc[i].pc = "done"
      BY <1>7 DEF WrkReset, TypeOK
    <3> QED
      BY <3>1 DEF Proc
  <2>2. workers' \in [Port -> Row]
    BY <1>7, <2>1, RowUpdates, WorkersUpdate DEF WrkReset
  <2>3. proc' \in [Pid -> Proc]
    <3>1. /\ proc \in [Pid -> Proc] /\ "top" \in WorkerPc /\ NoRow \in Row
          /\ proc' = [proc EXCEPT ![i] = [@ EXCEPT !.pc = "top", !.copy = NoRow]]
      <4>1. NoRow \in Row
        BY RowTypes
      <4> QED
        BY <1>7, <4>1 DEF WrkReset, TypeOK, WorkerPc
    <3> QED
      BY <3>1 DEF Proc
  <2>4. faults' \in [FaultKind -> Nat]
    <3>1. UNCHANGED faults \/ Spend("corrupt", 1)
      BY <1>7 DEF WrkReset
    <3> QED
      BY <3>1, FaultsSpend DEF TypeOK
  <2>5. \A j \in Pid \ {i} : proc'[j] = proc[j]
    BY <1>7 DEF WrkReset, TypeOK
  <2>6. proc'[i].pc = "top" /\ proc'[i].port = proc[i].port
    BY <1>7 DEF WrkReset, TypeOK, Proc
  <2>7. UNCHANGED <<requests, answer, registry, dsp, wm, portIndex, sup, runs>>
        /\ expired' \subseteq expired
    BY <1>7 DEF WrkReset
  <2>8. TypeOK'
    BY <2>2, <2>3, <2>4, <2>7 DEF TypeOK
  <2> QED
    BY <2>1, <2>5, <2>6, <2>7, <2>8
<1>8. CASE WrkDeregister(i)
  <2>1. ExitedRow(NoReq) \in Row /\ proc[i].port \in Port
    BY <1>8, RowTypes DEF WrkDeregister, Uuid
  <2>2. workers' \in [Port -> Row]
    BY <1>8, <2>1, WorkersUpdate DEF WrkDeregister
  <2> QED
    BY <1>8, <2>2, RowTypes DEF WrkDeregister, TypeOK, DeadProc, UnbornProc
<1>9. CASE WrkCrash(i)
  <2>1. faults' \in [FaultKind -> Nat]
    BY <1>9, FaultsSpend DEF WrkCrash
  <2> QED
    BY <1>9, <2>1, RowTypes DEF WrkCrash, TypeOK, DeadProc, UnbornProc
<1> QED
  BY <1>1, <1>2, <1>3, <1>4, <1>5, <1>6, <1>7, <1>8, <1>9, <1>10, <1>11 DEF Worker

\* The shutdown command changes exit flags only.
LEMMA TypeShutdown ==
    ASSUME TypeInv, NEW p \in Port, mWorker_Shutdown(p)
    PROVE  /\ proc' \in [Pid -> Proc]
           /\ \A i \in Pid : /\ proc'[i].pc = proc[i].pc
                             /\ proc'[i].port = proc[i].port
                             /\ proc'[i].copy = proc[i].copy
<1>1. \A i \in Pid : /\ [proc[i] EXCEPT !.exit = TRUE] \in Proc
                     /\ [proc[i] EXCEPT !.exit = TRUE].pc = proc[i].pc
                     /\ [proc[i] EXCEPT !.exit = TRUE].port = proc[i].port
                     /\ [proc[i] EXCEPT !.exit = TRUE].copy = proc[i].copy
  BY DEF TypeInv, TypeOK, Proc
<1> QED
  BY <1>1 DEF TypeInv, TypeOK, mWorker_Shutdown

\* The first half of a round: check, deregister, reset.
LEMMA TypeCheck ==
    ASSUME TypeInv,
           \/ CheckList \/ CheckKill
           \/ DeregLoad \/ DeregRow \/ DeregReadRequest \/ DeregFailRequest
           \/ ResetList
           \/ \E p \in Port : \/ CheckHealthy(p) \/ CheckDead(p)
                              \/ CheckUnreachable(p) \/ ResetDelete(p)
    PROVE  TypeInv'
<1> USE DEF TypeInv, PcTypes, Alive, AtWork, wmFrame, dbVars
<1>0. wm \in Wm /\ wm.snap \in [Port -> Pid \cup {0}]
  BY DEF TypeOK, Wm
<1>1. CASE CheckList
  <2>1. \A p \in Port : workers[p].pid \in Pid \cup {0}
    BY DEF TypeOK, Row
  <2>2. wm' \in Wm /\ wm'.pc = "checking"
    BY <1>1, <1>0, <2>1 DEF CheckList, Wm, WmPc
  <2> QED
    BY <1>1, <2>2 DEF CheckList, TypeOK
<1>2. CASE CheckKill
  <2>1. wm' \in Wm /\ wm'.pc = "checking"
    BY <1>2, <1>0 DEF CheckKill, Wm, WmPc
  <2>2. wm.snap[wm.port] \in Pid \cup {0}
    BY <1>2, <1>0 DEF CheckKill
  <2> QED
    BY <1>2, <2>1, <2>2, RowTypes DEF CheckKill, TypeOK, DeadProc, UnbornProc
<1>3. CASE DeregLoad
  <2>1. wm.port \in Port
    BY <1>3 DEF DeregLoad
  <2>2. workers[wm.port].uuid \in Uuid
    BY <2>1, RowUpdates DEF TypeOK
  <2>3. wm' \in Wm /\ wm'.pc \in {"dereg", "checking"}
        /\ (wm'.pc = "dereg" => wm'.port = wm.port)
    <3>2. CASE Present(wm.port)
      <4>1. wm' = [wm EXCEPT !.pc = "dereg", !.uuid = workers[wm.port].uuid]
        BY <1>3, <3>2 DEF DeregLoad
      <4> QED
        BY <1>0, <2>2, <4>1 DEF Wm, WmPc
    <3>3. CASE ~Present(wm.port)
      <4>1. wm' = [wm EXCEPT !.pc = "checking", !.port = 0, !.uuid = NoReq]
        BY <1>3, <3>3 DEF DeregLoad, Deregistered
      <4> QED
        BY <1>0, <4>1 DEF Wm, WmPc, Uuid
    <3> QED
      BY <3>2, <3>3
  <2> QED
    BY <1>3, <2>1, <2>3 DEF DeregLoad, TypeOK
<1>4. CASE DeregRow
  <2>1. wm.port \in Port /\ wm.uuid \in Uuid
    BY <1>4, <1>0 DEF DeregRow, Wm
  <2>2. workers' \in [Port -> Row]
    BY <1>4, <2>1, RowTypes, WorkersUpdate DEF DeregRow
  <2>3. CASE wm.uuid = NoReq
    <3>1. wm' \in Wm /\ wm'.pc = "checking"
      <4>1. wm' = [wm EXCEPT !.pc = "checking", !.port = 0, !.uuid = NoReq]
        BY <1>4, <2>3 DEF DeregRow, Deregistered
      <4> QED
        BY <1>0, <4>1 DEF Wm, WmPc, Uuid
    <3> QED
      BY <1>4, <2>2, <3>1 DEF DeregRow, TypeOK
  <2>4. CASE wm.uuid # NoReq
    <3>1. /\ wm' \in Wm /\ wm'.pc = "readreq" /\ wm'.port = wm.port
          /\ wm'.uuid = wm.uuid
      BY <1>4, <1>0, <2>4 DEF DeregRow, WmGoto, Wm, WmPc
    <3> QED
      BY <1>4, <2>1, <2>2, <2>4, <3>1 DEF DeregRow, TypeOK, Uuid
  <2> QED
    BY <2>3, <2>4
<1>5. CASE DeregReadRequest
  <2>1. /\ wm' \in Wm /\ wm'.pc \in {"failreq", "checking"}
        /\ wm'.pc = "failreq" => wm'.port = wm.port /\ wm'.uuid = wm.uuid
    <3>1. CASE Pending(wm.uuid)
      <4>1. wm' = [wm EXCEPT !.pc = "failreq"]
        BY <1>5, <3>1 DEF DeregReadRequest, WmGoto
      <4> QED
        BY <1>0, <4>1 DEF Wm, WmPc
    <3>2. CASE ~Pending(wm.uuid)
      <4>1. wm' = [wm EXCEPT !.pc = "checking", !.port = 0, !.uuid = NoReq]
        BY <1>5, <3>2 DEF DeregReadRequest, Deregistered
      <4> QED
        BY <1>0, <4>1 DEF Wm, WmPc, Uuid
    <3> QED
      BY <3>1, <3>2
  <2> QED
    BY <1>5, <2>1 DEF DeregReadRequest, TypeOK
<1>6. CASE DeregFailRequest
  <2>1. wm' \in Wm /\ wm'.pc = "checking"
    BY <1>6, <1>0 DEF DeregFailRequest, Deregistered, Wm, WmPc, Uuid
  <2> QED
    BY <1>6, <2>1 DEF DeregFailRequest, mFailRequest, TypeOK
<1>7. CASE ResetList
  <2>1. wm' \in Wm /\ wm'.pc = "resetting"
    BY <1>7, <1>0 DEF ResetList, ExitedPorts, Wm, WmPc
  <2> QED
    BY <1>7, <2>1 DEF ResetList, TypeOK
<1>8. ASSUME NEW p \in Port, CheckHealthy(p)
      PROVE  TypeInv'
  <2>1. wm' \in Wm /\ wm'.pc = "checking"
    BY <1>8, <1>0 DEF CheckHealthy, Checked, Wm, WmPc
  <2> QED
    BY <1>8, <2>1 DEF CheckHealthy, TypeOK
<1>9. ASSUME NEW p \in Port, CheckDead(p)
      PROVE  TypeInv'
  <2>1. wm' \in Wm /\ wm'.pc = "load" /\ wm'.port = p
    BY <1>9, <1>0 DEF CheckDead, Checked, Wm, WmPc
  <2> QED
    BY <1>9, <2>1, TypeShutdown DEF CheckDead, TypeOK
<1>10. ASSUME NEW p \in Port, CheckUnreachable(p)
       PROVE  TypeInv'
  <2>1. wm' \in Wm /\ wm'.pc = "kill" /\ wm'.port = p
    BY <1>10, <1>0 DEF CheckUnreachable, Checked, Wm, WmPc
  <2> DEFINE i == wm.snap[p]
             q == [proc[i] EXCEPT !.exit = TRUE]
  <2>2. i \in Pid
    BY <1>10, <1>0 DEF CheckUnreachable
  <2>3. proc' = [proc EXCEPT ![i] = q]
    BY <1>10 DEF CheckUnreachable
  <2> HIDE DEF i
  <2>4. /\ q \in Proc /\ q.pc = proc[i].pc /\ q.port = proc[i].port
        /\ q.copy = proc[i].copy
    BY <2>2 DEF TypeOK, Proc
  <2> HIDE DEF q
  <2>5. faults' \in [FaultKind -> Nat]
    BY <1>10, FaultsSpend DEF CheckUnreachable
  <2>6. /\ proc' \in [Pid -> Proc]
        /\ \A j \in Pid : /\ proc'[j].pc = proc[j].pc
                          /\ proc'[j].port = proc[j].port
                          /\ proc'[j].copy = proc[j].copy
    BY <2>2, <2>3, <2>4 DEF TypeOK
  <2>7. UNCHANGED <<requests, workers, registry, answer, dsp, sup, expired, runs,
                  portIndex>>
    BY <1>10 DEF CheckUnreachable
  <2>8. TypeOK'
    BY <2>1, <2>5, <2>6, <2>7 DEF TypeOK
  <2> QED
    BY <2>1, <2>6, <2>7, <2>8
<1>11. ASSUME NEW p \in Port, ResetDelete(p)
       PROVE  TypeInv'
  <2>1. wm' \in Wm /\ wm'.pc = "resetting"
    BY <1>11, <1>0 DEF ResetDelete, Wm, WmPc
  <2>2. workers' \in [Port -> Row] /\ registry' \subseteq Req \X Port
    BY <1>11, WorkersDelete DEF ResetDelete
  <2> QED
    BY <1>11, <2>1, <2>2 DEF ResetDelete, TypeOK
<1> QED
  BY <1>1, <1>2, <1>3, <1>4, <1>5, <1>6, <1>7, <1>8, <1>9, <1>10, <1>11

\* The second half of a round: start, terminate; and a restart.
LEMMA TypeStartTerminate ==
    ASSUME TypeInv,
           \/ CountIdle \/ StartWait \/ StartGiveUp
           \/ TermListCorrupted \/ TermListIdle
           \/ TermLock \/ TermShutdown \/ TermRelease \/ WmCrash
           \/ \E p \in Port : \/ TermLoad(p)
                              \/ \E i \in Pid : StartWorker(p, i)
    PROVE  TypeInv'
<1> USE DEF TypeInv, PcTypes, Alive, AtWork, wmFrame, dbVars
<1>0. /\ wm \in Wm /\ wm.snap \in [Port -> Pid \cup {0}]
      /\ BootWm \in Wm /\ BootWm.pc = "boot"
  BY RowTypes DEF TypeOK, Wm, BootWm
<1>1. CASE CountIdle
  <2>1. PICK ok \in BOOLEAN :
           wm' = [wm EXCEPT !.pc = "start", !.want = IF ok THEN Missing ELSE 0]
    BY <1>1 DEF CountIdle
  <2>2. (IF ok THEN Missing ELSE 0) \in Nat
    BY MissingIsNat
  <2>3. wm' \in Wm /\ wm'.pc = "start"
    BY <1>0, <2>1, <2>2 DEF Wm, WmPc
  <2> QED
    BY <1>1, <2>3 DEF CountIdle, TypeOK
<1>2. CASE StartWait
  <2>1. wm.want \in Nat /\ wm.want > 0 /\ wm.port \in Nat
    BY <1>2, <1>0, Constants DEF StartWait, Wm
  <2>2. wm' \in Wm /\ wm'.pc = "start"
    <3>1. wm.want - 1 \in Nat
      BY <2>1
    <3>2. wm' = [wm EXCEPT !.pc = "start", !.want = wm.want - 1, !.port = 0]
      BY <1>2, <1>0 DEF StartWait, Wm
    <3> QED
      BY <1>0, <3>1, <3>2 DEF Wm, WmPc
  <2> QED
    BY <1>2, <2>1, <2>2 DEF StartWait, TypeOK
<1>3. CASE StartGiveUp
  <2>1. wm' \in Wm /\ wm'.pc = "start"
    BY <1>3, <1>0 DEF StartGiveUp, Wm, WmPc
  <2>2. faults' \in [FaultKind -> Nat]
    BY <1>3, FaultsSpend DEF StartGiveUp
  <2> QED
    BY <1>3, <2>1, <2>2 DEF StartGiveUp, TypeOK
<1>4. CASE TermListCorrupted
  <2>1. wm' \in Wm /\ wm'.pc = "terminating"
    BY <1>4, <1>0 DEF TermListCorrupted, Unassigned, Wm, WmPc
  <2> QED
    BY <1>4, <2>1 DEF TermListCorrupted, TypeOK
<1>5. CASE TermListIdle
  <2>1. PICK S \in SUBSET Unassigned :
           wm' = [wm EXCEPT !.phase = "idle", !.todo = S]
    BY <1>5 DEF TermListIdle
  <2>2. S \in SUBSET Port
    BY DEF Unassigned
  <2>3. wm' \in Wm /\ wm'.pc = "terminating"
    BY <1>5, <1>0, <2>1, <2>2 DEF TermListIdle, WmPhaseDone, Wm
  <2> QED
    BY <1>5, <2>3 DEF TermListIdle, TypeOK
<1>6. CASE TermLock
  <2>1. wm.port \in Port /\ "Wrkmanager" \in Lock
    BY <1>6 DEF TermLock, Lock
  <2>2. workers' \in [Port -> Row]
    BY <1>6, <2>1, WorkersLock DEF TermLock, TypeOK
  <2>3. /\ wm' \in Wm /\ wm'.pc \in {"boot", "shutdown", "poll", "terminating"}
        /\ wm'.pc \in {"shutdown", "poll"} => wm'.port = wm.port
    BY <1>6, <1>0 DEF TermLock, WmRestart, WmGoto, Wm, WmPc, Uuid
  <2>4. portIndex' \in Nat
    BY <1>6 DEF TermLock, WmRestart, TypeOK
  <2> QED
    BY <1>6, <2>1, <2>2, <2>3, <2>4 DEF TermLock, TypeOK
<1>7. CASE TermShutdown
  <2>1. wm' \in Wm /\ wm'.pc = "poll" /\ wm'.port = wm.port /\ wm.port \in Port
    BY <1>7, <1>0 DEF TermShutdown, WmGoto, Wm, WmPc
  <2> QED
    BY <1>7, <2>1, TypeShutdown DEF TermShutdown, TypeOK
<1>8. CASE TermRelease
  <2>1. wm.port \in Port /\ "Wrkmanager" \in Lock
    BY <1>8 DEF TermRelease, Lock
  <2>2. workers' \in [Port -> Row]
    BY <1>8, <2>1, WorkersLock DEF TermRelease
  <2>3. wm' \in Wm /\ wm'.pc = "terminating"
    BY <1>8, <1>0 DEF TermRelease, Wm, WmPc, Uuid
  <2> QED
    BY <1>8, <2>2, <2>3 DEF TermRelease, TypeOK
<1>9. CASE WmCrash
  <2>1. faults' \in [FaultKind -> Nat]
    BY <1>9, FaultsSpend DEF WmCrash
  <2> QED
    BY <1>9, <1>0, <2>1 DEF WmCrash, WmRestart, TypeOK
<1>10. ASSUME NEW p \in Port, TermLoad(p)
       PROVE  TypeInv'
  <2>1. workers[p].uuid \in Uuid
    BY RowUpdates DEF TypeOK
  <2>2. /\ wm' \in Wm /\ wm'.pc \in {"boot", "lock"}
        /\ wm'.pc = "lock" => wm'.port = p
    <3>1. CASE Present(p)
      <4>1. wm' = [wm EXCEPT !.pc = "lock", !.port = p, !.todo = @ \ {p},
                             !.uuid = workers[p].uuid]
        BY <1>10, <3>1 DEF TermLoad
      <4> QED
        BY <1>0, <2>1, <4>1 DEF Wm, WmPc
    <3>2. CASE ~Present(p)
      <4>1. wm' = BootWm
        BY <1>10, <3>2 DEF TermLoad, WmRestart
      <4> QED
        BY <1>0, <4>1 DEF BootWm
    <3> QED
      BY <3>1, <3>2
  <2>3. portIndex' \in Nat
    <3>1. portIndex' = portIndex \/ portIndex' = 1
      BY <1>10 DEF TermLoad, WmRestart
    <3> QED
      BY <3>1 DEF TypeOK
  <2> QED
    BY <1>10, <2>2, <2>3 DEF TermLoad, TypeOK
<1>11. ASSUME NEW p \in Port, NEW i \in Pid, StartWorker(p, i)
       PROVE  TypeInv'
  <2>1. wm' \in Wm /\ wm'.pc = "wait" /\ wm'.port = p /\ wm'.want > 0
    BY <1>11, <1>0 DEF StartWorker, Wm, WmPc
  <2> DEFINE q == [proc[i] EXCEPT !.pc = "boot", !.port = p]
  <2>2. proc' = [proc EXCEPT ![i] = q]
    BY <1>11 DEF StartWorker
  <2>3. q \in Proc /\ q.pc = "boot" /\ q.port = p
    BY DEF TypeOK, Proc, WorkerPc
  <2> HIDE DEF q
  <2>4. /\ proc' \in [Pid -> Proc]
        /\ proc'[i].pc = "boot" /\ proc'[i].port = p
        /\ \A j \in Pid \ {i} : proc'[j] = proc[j]
    BY <2>2, <2>3 DEF TypeOK
  <2>5. UNCHANGED <<dbVars, answer, dsp, sup, expired, runs, portIndex, faults>>
    BY <1>11 DEF StartWorker
  <2>6. TypeOK'
    BY <2>1, <2>4, <2>5 DEF TypeOK
  <2> QED
    BY <2>1, <2>4, <2>5, <2>6
<1> QED
  BY <1>1, <1>2, <1>3, <1>4, <1>5, <1>6, <1>7, <1>8, <1>9, <1>10, <1>11

\* The listener, the supervisor, time and stuttering keep the types.
LEMMA TypeRest ==
    ASSUME TypeInv,
           \/ \E r \in Req : mRegisterRequest(r) \/ dispatchJobToWorker(r)
           \/ Supervisor \/ (\E p \in Port : IdleTimeout(p)) \/ UNCHANGED vars
    PROVE  TypeInv'
<1> USE DEF TypeInv, PcTypes, Alive, AtWork, dbVars, TypeOK
<1>1. CASE \E r \in Req : mRegisterRequest(r)
  <2>1. PICK r \in Req : mRegisterRequest(r)
    BY <1>1
  <2>2. /\ requests' \in [Req -> [status : {"none", "Pending", "Done"},
                                error : {"Undef", "own", "709"}]]
        /\ answer' \in [Req -> {"none", "registered", "accepted", "503"}]
    BY <2>1 DEF mRegisterRequest
  <2> QED
    BY <2>1, <2>2 DEF mRegisterRequest
<1>2. CASE \E r \in Req : dispatchJobToWorker(r)
  BY <1>2 DEF dispatchJobToWorker
<1>3. CASE mOrphanRequests
  BY <1>3 DEF mOrphanRequests
<1>4. CASE \E r \in Req : CleanOrphan(r)
  BY <1>4 DEF CleanOrphan, mFailRequest
<1>5. CASE UNCHANGED vars
  BY <1>5 DEF vars
<1>6. CASE \E p \in Port : IdleTimeout(p)
  <2>1. faults' \in [FaultKind -> Nat]
    BY <1>6, FaultsSpend DEF IdleTimeout
  <2> QED
    BY <1>6, <2>1 DEF IdleTimeout
<1> QED
  BY <1>1, <1>2, <1>3, <1>4, <1>5, <1>6 DEF Supervisor

\* The empty database and the booting manager are well typed.
LEMMA TypeInit == Init => TypeInv
<1> SUFFICES ASSUME Init PROVE TypeInv
  OBVIOUS
<1>1. TypeOK
  <2>1. faults \in [FaultKind -> Nat]
    BY Constants DEF Init, FaultKind
  <2> QED
    BY <2>1, Constants, RowTypes DEF Init, TypeOK
<1>2. PcTypes
  BY DEF Init, PcTypes, UnbornProc, IdleDsp, BootWm, Alive, AtWork
<1> QED
  BY <1>1, <1>2 DEF TypeInv

\* Every step keeps the types.
LEMMA TypeStep == TypeInv /\ [Next]_vars => TypeInv'
BY TypeDispatcher, TypeWorker, TypeCheck, TypeStartTerminate, TypeRest
   DEF Next, WorkerManager

\* The tables and the local state of every process keep their types in every
\* behaviour, crashes, failed starts and the supervisor included: no stale row
\* copy and no count of idle workers ever leaves its range.
THEOREM TypeCorrect == Spec => [](TypeOK /\ PcTypes)
<1>1. TypeInv <=> TypeOK /\ PcTypes
  BY DEF TypeInv
<1> QED
  BY <1>1, TypeInit, TypeStep, PTL DEF Spec
-----------------------------------------------------------------------------
(* Ports: only mRegister binds one, and only if nobody has.                 *)

BindsNothing == \A i \in Pid, p \in Port : Bound(i, p)' => Bound(i, p)

\* No worker step but mRegister binds a port.
LEMMA WorkerBinds ==
    ASSUME TypeInv, NEW i \in Pid, Worker(i) \/ WrkCrash(i), ~mRegister(i)
    PROVE  BindsNothing
<1>0. /\ proc \in [Pid -> Proc] /\ proc[i] \in Proc
      /\ DeadProc.port = 0
  BY DEF TypeInv, TypeOK, DeadProc, UnbornProc
<1>1. CASE proc' = [proc EXCEPT ![i] = DeadProc]
  BY <1>0, <1>1 DEF BindsNothing, Bound
<1>2. CASE \/ WrkTop(i) \/ WrkLoad(i) \/ WrkRun(i) \/ WrkLock(i) \/ WrkUnlock(i)
           \/ WrkFinish(i) \/ WrkReset(i)
  <2>1. /\ \A j \in Pid \ {i} : proc'[j] = proc[j]
        /\ proc'[i].port = proc[i].port /\ proc[i].pc # "boot"
    <3>1. CASE WrkLoad(i)
      BY <1>0, <3>1 DEF WrkLoad, Proc
    <3>2. CASE WrkReset(i)
      BY <1>0, <3>2 DEF WrkReset, Proc
    <3>3. CASE WrkTop(i)
      BY <1>0, <3>3 DEF WrkTop, Proc
    <3>4. CASE WrkRun(i) \/ WrkLock(i) \/ WrkUnlock(i) \/ WrkFinish(i)
      <4>1. PICK pc : /\ proc' = [proc EXCEPT ![i].pc = pc]
                      /\ proc[i].pc # "boot"
        BY <3>4 DEF WrkRun, WrkLock, WrkUnlock, WrkFinish
      <4> QED
        BY <1>0, <4>1 DEF Proc
    <3> QED
      BY <1>2, <3>1, <3>2, <3>3, <3>4
  <2> QED
    BY <2>1 DEF BindsNothing, Bound
<1> QED
  BY <1>1, <1>2 DEF Worker, WrkBindFails, WrkDeregister, WrkCrash

\* No step of the worker manager binds a port: a process it starts is booting.
LEMMA ManagerBinds ==
    ASSUME TypeInv, WorkerManager
    PROVE  BindsNothing
<1>0. proc \in [Pid -> Proc] /\ wm.snap \in [Port -> Pid \cup {0}]
  BY DEF TypeInv, TypeOK, Wm
<1>1. CASE \E p \in Port : mWorker_Shutdown(p)
  BY <1>1, TypeShutdown DEF BindsNothing, Bound
<1>2. CASE TermShutdown
  BY <1>1, <1>2 DEF TermShutdown, TypeInv, PcTypes
<1>3. CASE \E p \in Port : CheckUnreachable(p)
  <2>1. PICK p \in Port : CheckUnreachable(p)
    BY <1>3
  <2>2. wm.snap[p] \in Pid
    BY <1>0, <2>1 DEF CheckUnreachable, Alive
  <2> QED
    BY <1>0, <2>1, <2>2 DEF CheckUnreachable, BindsNothing, Bound, Proc
<1>4. CASE CheckKill
  <2>1. DeadProc.port = 0
    BY DEF DeadProc, UnbornProc
  <2> QED
    BY <1>0, <1>4, <2>1 DEF CheckKill, BindsNothing, Bound
<1>5. CASE \E p \in Port, i \in Pid : StartWorker(p, i)
  <2>1. PICK p \in Port, i \in Pid :
           proc' = [proc EXCEPT ![i] = [proc[i] EXCEPT !.pc = "boot", !.port = p]]
    BY <1>5 DEF StartWorker
  <2>2. proc'[i].pc = "boot" /\ \A j \in Pid \ {i} : proc'[j] = proc[j]
    BY <1>0, <2>1 DEF Proc
  <2> QED
    BY <2>2 DEF BindsNothing, Bound
<1>6. CASE proc' = proc
  BY <1>6 DEF BindsNothing, Bound
<1> QED
  BY <1>1, <1>2, <1>3, <1>4, <1>5, <1>6
     DEF WorkerManager, CheckList, DeregLoad, DeregRow, DeregReadRequest,
         DeregFailRequest, ResetList, CountIdle, StartWait, StartGiveUp,
         TermListCorrupted, TermListIdle, TermLock, TermRelease, CheckHealthy,
         CheckDead, ResetDelete, TermLoad

\* However worker starts fail and whichever processes are killed and restarted,
\* no two live workers have bound the same port: the second one finds it bound
\* when its listener is constructed and exits without touching the row.
THEOREM PortsAreExclusive == Spec => []OneWorkerPerPort
<1> DEFINE I == TypeInv /\ OneWorkerPerPort
<1>1. Init => I
  <2>1. Init => \A i \in Pid : proc[i].port = 0
    BY DEF Init, UnbornProc
  <2> QED
    BY <2>1, TypeInit DEF OneWorkerPerPort, Bound
<1>2. I /\ [Next]_vars => I'
  <2> SUFFICES ASSUME TypeInv, OneWorkerPerPort, [Next]_vars
               PROVE  OneWorkerPerPort'
    BY TypeStep
  <2>1. BindsNothing => OneWorkerPerPort'
    BY DEF BindsNothing, OneWorkerPerPort
  <2>2. ASSUME NEW i \in Pid, mRegister(i)
        PROVE  OneWorkerPerPort'
    <3>1. /\ \A j \in Pid \ {i} : proc'[j] = proc[j]
          /\ proc'[i].port = proc[i].port
      BY <2>2 DEF mRegister, TypeInv, TypeOK, Proc
    <3>2. \A j \in Pid : ~Bound(j, proc[i].port)
      BY <2>2 DEF mRegister, CanBind, Listening
    <3> QED
      BY <3>1, <3>2 DEF OneWorkerPerPort, Bound
  <2>3. CASE UNCHANGED proc
    BY <2>3 DEF OneWorkerPerPort, Bound
  <2>4. CASE \E i \in Pid : Worker(i) \/ WrkCrash(i)
    BY <2>1, <2>2, <2>4, WorkerBinds
  <2>5. CASE WorkerManager
    BY <2>1, <2>5, ManagerBinds
  <2>6. CASE \/ \E r \in Req : mRegisterRequest(r) \/ dispatchJobToWorker(r)
             \/ \E p \in Port : IdleTimeout(p)
             \/ Dispatcher \/ DspCrash \/ WmCrash \/ Supervisor \/ UNCHANGED vars
    <3>1. UNCHANGED proc
      BY <2>6 DEF mRegisterRequest, dispatchJobToWorker, Dispatcher,
         mGetPendingRequest, mGetIdleWorkers, DspLoad, DspLock, DspAssign,
         DspRelease, DspResetList, DspResetDelete, DspReady, dspFrame, DspCrash,
         WmCrash, Supervisor, mOrphanRequests, CleanOrphan, IdleTimeout, vars
    <3> QED
      BY <2>3, <3>1
  <2> QED
    BY <2>4, <2>5, <2>6 DEF Next
<1>3. I => OneWorkerPerPort
  OBVIOUS
<1> QED
  BY <1>1, <1>2, <1>3, PTL DEF Spec
=============================================================================
