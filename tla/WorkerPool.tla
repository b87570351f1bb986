------------------------------ MODULE WorkerPool ------------------------------
(***************************************************************************)
(* The worker pool of the exacloud agent with agent_delegation_enabled:    *)
(* REST listeners insert requests, the dispatcher process writes a         *)
(* request's uuid into the row of an idle worker, worker processes poll    *)
(* their row and execute what they find there, the worker manager repairs, *)
(* grows and shrinks the pool, and the supervisor fails orphan requests.   *)
(* The processes share nothing but the MySQL tables workers, requests and  *)
(* registry.  They read a row into an ebWorker object and later write the  *)
(* WHOLE object back: every load and every store of a row is a step.       *)
(***************************************************************************)
EXTENDS Naturals, FiniteSets

CONSTANTS
    Req,                  \* request uuids
    NoReq,                \* the uuid 00000000-0000-0000-0000-000000000000
    NPort,                \* bound: ports above worker_port that may be used
    MaxPid,               \* bound: worker processes started in a behaviour
    IdleThreadPoolCount,  \* idle_thread_pool_count: idle workers wanted
    IdleWC,               \* idle_worker_count: no idle shutdown at or below it
    DisableThreshold,     \* disable_cpumem_threshold
    AcceptOnBreach,       \* accept_req_during_cpumem_threshold_breach
    SupervisorEnabled,    \* the supervisor's orphan cleanup is running
    CanCrash,             \* the processes that may be killed from outside
    MaxCrash,             \* bound: such kills
    MaxCorrupt,           \* bound: times a worker finds itself CORRUPTED
    MaxProbeFail,         \* bound: bound ports a probe fails to reach
    MaxStartFail,         \* bound: worker starts the manager gives up on
    MaxIdleTimeout        \* bound: workers whose idle timeout expires

Port == 1..NPort
Pid  == 1..MaxPid

ASSUME PoolAssumption ==
    /\ NoReq \notin Req
    /\ NPort \in Nat /\ MaxPid \in Nat
    /\ IdleThreadPoolCount \in Nat /\ IdleWC \in Nat
    /\ {DisableThreshold, AcceptOnBreach, SupervisorEnabled} \subseteq BOOLEAN
    /\ CanCrash \subseteq {"worker", "dispatcher", "workermanager"}
    /\ {MaxCrash, MaxCorrupt, MaxProbeFail, MaxStartFail, MaxIdleTimeout}
          \subseteq Nat

VARIABLES
    requests,   \* table requests: status and error of every uuid
    answer,     \* what the REST listener answered for a request
    workers,    \* table workers: the row of every port
    registry,   \* table registry: (uuid, worker port) of cluster locks held
    proc,       \* the worker processes, by pid
    dsp,        \* the dispatcher's local state
    wm,         \* the worker manager's local state
    portIndex,  \* ebWorkerFactory.__port_index of the worker manager
    sup,        \* requests the supervisor has listed as orphans
    expired,    \* ports whose row was last active an idle timeout ago
    faults,     \* how much of every fault bound is left
    runs        \* history: executions begun, by request (2 stands for more)

dbVars == <<requests, workers, registry>>
vars == <<requests, answer, workers, registry, proc, dsp, wm, portIndex, sup,
          expired, faults, runs>>
-----------------------------------------------------------------------------
(* Rows, processes and their types.                                         *)

Uuid == Req \cup {NoReq}
Lock == {"Undef", "Dispatcher", "Wrkmanager"}

Row == [uuid : Uuid, status : {"none", "Idle", "Running", "Exited"},
        pid : Pid \cup {0}, synclock : Lock, state : {"NORMAL", "CORRUPTED"}]

\* No row for this port: what a SELECT that finds nothing leaves in the object.
NoRow == [uuid |-> NoReq, status |-> "none", pid |-> 0,
          synclock |-> "Undef", state |-> "NORMAL"]

\* Mutant: the pid is not set.
FreshRowNoPid(i) == [NoRow EXCEPT !.status = "Idle"]

\* An ebWorker object as its constructor leaves it.
FreshRow(i) == [NoRow EXCEPT !.status = "Idle", !.pid = i]

\* Mutant: mDeregister resets the uuid as well.
ExitedRowNoUuid(u) == [NoRow EXCEPT !.status = "Exited"]

\* The object after mDeregister's setters; the uuid is whatever was loaded.
ExitedRow(u) == [NoRow EXCEPT !.status = "Exited", !.uuid = u]

WorkerPc == {"unborn", "boot", "top", "sleep", "assigned", "running", "exec",
             "unlocked", "done", "stop", "dead"}
Proc == [pc : WorkerPc, port : Port \cup {0}, exit : BOOLEAN, copy : Row]
UnbornProc == [pc |-> "unborn", port |-> 0, exit |-> FALSE, copy |-> NoRow]
DeadProc == [UnbornProc EXCEPT !.pc = "dead"]

Dsp == [pc : {"boot", "reset", "idle", "pick", "scan", "loaded", "locked",
              "release"},
        req : Uuid, todo : SUBSET Port, port : Port \cup {0}, copy : Row]
IdleDsp == [pc |-> "idle", req |-> NoReq, todo |-> {}, port |-> 0,
            copy |-> NoRow]
BootDsp == [IdleDsp EXCEPT !.pc = "boot"]

WmPc == {"boot", "checking", "kill", "load", "dereg", "readreq", "failreq",
         "resetting", "start", "wait", "terminating", "lock", "shutdown", "poll"}
Wm == [pc : WmPc, phase : {"boot", "main", "corrupted", "idle"},
       todo : SUBSET Port, snap : [Port -> Pid \cup {0}],
       port : Port \cup {0}, uuid : Uuid, want : Nat]
NoSnap == [p \in Port |-> 0]
BootWm == [pc |-> "boot", phase |-> "boot", todo |-> {}, snap |-> NoSnap,
           port |-> 0, uuid |-> NoReq, want |-> 0]

ExitedPorts == {p \in Port : workers[p].status = "Exited"}
Present(p)  == workers[p].status # "none"

\* Mutant: a request counts as assigned only once its worker runs it.
AssignedIfRunning(r) ==
    \E p \in Port : workers[p].uuid = r /\ workers[p].status = "Running"
Assigned(r) == \E p \in Port : workers[p].uuid = r
Pending(r)  == requests[r].status = "Pending"

\* Idle rows the dispatcher, the worker manager and the agent count as free.
IdleNormal(p) == /\ workers[p].status = "Idle"
                 /\ workers[p].uuid = NoReq
                 /\ workers[p].state = "NORMAL"
IdleCount == Cardinality({p \in Port : IdleNormal(p)})

Alive(i) == i # 0 /\ proc[i].pc \notin {"unborn", "dead"}

\* The process that has bound the port.  mStopRestListener leaves the socket
\* open, so the port stays bound until the process is gone.
Bound(i, p) == proc[i].port = p /\ proc[i].pc # "boot"
Listening(p) == \E i \in Pid : Bound(i, p)

(* The statements on the tables.  An UPDATE or DELETE of a missing row is a *)
(* no-op; registry rows go with the worker row that is deleted.             *)
mUpdateWorker(p, row) ==
    workers' = IF Present(p) THEN [workers EXCEPT ![p] = row] ELSE workers

mDelWorkerEntry(P) ==
    /\ workers' = [p \in Port |-> IF p \in P THEN NoRow ELSE workers[p]]
    /\ registry' = {e \in registry : e[2] \notin P}

\* Mutant: the locks are dropped, the request stays Pending.
mFailRequestLocksOnly(r) ==
    /\ registry' = {e \in registry : e[1] # r}
    /\ UNCHANGED requests

mFailRequest(r) ==
    /\ requests' = [requests EXCEPT ![r] = [status |-> "Done", error |-> "709"]]
    /\ registry' = {e \in registry : e[1] # r}

CanLock(p, name) == workers[p].synclock \in {"Undef", name}

mAcquireWorkerSyncLock(p, name) ==
    workers' = [workers EXCEPT ![p].synclock = name]

mReleaseWorkerSyncLock(p, name) ==
    workers' = IF workers[p].synclock = name
               THEN [workers EXCEPT ![p].synclock = "Undef"] ELSE workers

\* The shutdown command, answered by the worker's listener, sets its exit flag;
\* a listener that finds no row of its own answers 'Unavailable' instead.
mWorker_Shutdown(p) ==
    proc' = IF Present(p)
            THEN [i \in Pid |-> IF Bound(i, p)
                                THEN [proc[i] EXCEPT !.exit = TRUE] ELSE proc[i]]
            ELSE proc

FaultKind == {"crash", "corrupt", "probe", "start", "idle"}
Spend(kind, n) == /\ faults[kind] >= n
                  /\ faults' = [faults EXCEPT ![kind] = @ - n]

Init ==
    /\ requests = [r \in Req |-> [status |-> "none", error |-> "Undef"]]
    /\ answer = [r \in Req |-> "none"]
    /\ workers = [p \in Port |-> NoRow]
    /\ registry = {}
    /\ proc = [i \in Pid |-> UnbornProc]
    /\ dsp = IdleDsp
    /\ wm = BootWm
    /\ portIndex = 1
    /\ sup = {}
    /\ expired = {}
    /\ faults = [crash |-> MaxCrash, corrupt |-> MaxCorrupt,
                 probe |-> MaxProbeFail, start |-> MaxStartFail,
                 idle |-> MaxIdleTimeout]
    /\ runs = [r \in Req |-> 0]
-----------------------------------------------------------------------------
(* The agent's REST listener: the request is inserted first, and only then  *)
(* does dispatchJobToWorker decide between success and http 503.            *)

\* With either option set the decision is known beforehand.
mRegisterRequest(r) ==
    /\ requests[r].status = "none"
    /\ requests' = [requests EXCEPT ![r].status = "Pending"]
    /\ answer' = [answer EXCEPT ![r] = IF AcceptOnBreach \/ DisableThreshold
                                       THEN "accepted" ELSE "registered"]
    /\ UNCHANGED <<workers, registry, proc, dsp, wm, portIndex, sup, expired,
                   faults, runs>>

isAdditionalWorkerAllowed(ok) == DisableThreshold => ok

dispatchJobToWorker(r) ==
    /\ answer[r] = "registered"
    /\ \E ok \in BOOLEAN :
          /\ isAdditionalWorkerAllowed(ok)
          /\ answer' = [answer EXCEPT ![r] = IF IdleCount = 0 /\ ~ok THEN "503"
                                             ELSE "accepted"]
    /\ UNCHANGED <<dbVars, proc, dsp, wm, portIndex, sup, expired, faults, runs>>
-----------------------------------------------------------------------------
(* The dispatcher: mDispatcher, statement by statement.                     *)

dspFrame ==
    UNCHANGED <<requests, answer, proc, wm, portIndex, sup, expired, faults, runs>>

\* starttime is the text of strftime("%c"), so ORDER BY starttime is no order
\* of arrival: any unassigned pending request may come first.
mGetPendingRequest(r) ==
    /\ dsp.pc = "idle"
    /\ Pending(r) /\ ~Assigned(r)
    /\ dsp' = [dsp EXCEPT !.pc = "pick", !.req = r]
    /\ dspFrame /\ UNCHANGED <<workers, registry>>

\* The loop keeps its request until a worker is found, sleeping in between.
mGetIdleWorkers ==
    /\ dsp.pc = "pick"
    /\ LET idle == {p \in Port : IdleNormal(p) /\ workers[p].pid # 0}
       IN  /\ idle # {}
           /\ dsp' = [dsp EXCEPT !.pc = "scan", !.todo = idle]
    /\ dspFrame /\ UNCHANGED <<workers, registry>>

NextOfScan(todo) == IF todo = {} THEN "pick" ELSE "scan"

\* A row that is gone makes the lock attempt raise, which ends mDispatcher.
DspLoad(p) ==
    /\ dsp.pc = "scan" /\ p \in dsp.todo
    /\ dsp' = IF Present(p)
              THEN [dsp EXCEPT !.pc = "loaded", !.port = p,
                               !.copy = workers[p], !.todo = @ \ {p}]
              ELSE IdleDsp
    /\ dspFrame /\ UNCHANGED <<workers, registry>>

DspLock ==
    /\ dsp.pc = "loaded"
    /\ LET p == dsp.port IN
       \/ /\ ~Present(p)
          /\ dsp' = IdleDsp
          /\ UNCHANGED workers
       \/ /\ Present(p) /\ CanLock(p, "Dispatcher")
          /\ mAcquireWorkerSyncLock(p, "Dispatcher")
          /\ dsp' = [dsp EXCEPT !.pc = "locked", !.copy.synclock = "Dispatcher"]
       \/ /\ Present(p) /\ ~CanLock(p, "Dispatcher")
          /\ dsp' = [dsp EXCEPT !.pc = NextOfScan(dsp.todo), !.port = 0,
                                !.copy = NoRow]
          /\ UNCHANGED workers
    /\ dspFrame /\ UNCHANGED registry

\* The whole row is written from the copy loaded before the lock was taken.
DspAssign ==
    /\ dsp.pc = "locked"
    /\ mUpdateWorker(dsp.port, [dsp.copy EXCEPT !.uuid = dsp.req])
    /\ dsp' = [dsp EXCEPT !.pc = "release"]
    /\ dspFrame /\ UNCHANGED registry

DspRelease ==
    /\ dsp.pc = "release"
    /\ mReleaseWorkerSyncLock(dsp.port, "Dispatcher")
    /\ dsp' = IdleDsp
    /\ dspFrame /\ UNCHANGED registry

\* Killed at any point and restarted by the supervisor.
DspCrash ==
    /\ "dispatcher" \in CanCrash
    /\ Spend("crash", 1)
    /\ dsp' = BootDsp
    /\ UNCHANGED <<dbVars, answer, proc, wm, portIndex, sup, expired, runs>>

\* The restarted process constructs a worker factory of its own, which lists
\* the rows of exited workers and deletes them one by one.
DspResetList ==
    /\ dsp.pc = "boot"
    /\ dsp' = [dsp EXCEPT !.pc = "reset", !.todo = ExitedPorts]
    /\ dspFrame /\ UNCHANGED <<workers, registry>>

DspResetDelete(p) ==
    /\ dsp.pc = "reset" /\ p \in dsp.todo
    /\ mDelWorkerEntry({p})
    /\ dsp' = [dsp EXCEPT !.todo = @ \ {p}]
    /\ dspFrame

DspReady ==
    /\ dsp.pc = "reset" /\ dsp.todo = {}
    /\ dsp' = IdleDsp
    /\ dspFrame /\ UNCHANGED <<workers, registry>>

Dispatcher == \/ \E r \in Req : mGetPendingRequest(r)
              \/ mGetIdleWorkers
              \/ \E p \in Port : DspLoad(p) \/ DspResetDelete(p)
              \/ DspLock \/ DspAssign \/ DspRelease
              \/ DspResetList \/ DspReady
-----------------------------------------------------------------------------
(* A worker process: mWorker_Start and mWorker_Stop.                        *)

wrkFrame == UNCHANGED <<answer, dsp, wm, portIndex, sup>>

\* Mutant: the listener shares a port that is bound.
CanBindShared(p) == TRUE
CanBind(p) == ~Listening(p)

\* The listener's constructor exits when the port is bound already.
WrkBindFails(i) ==
    /\ proc[i].pc = "boot" /\ ~CanBind(proc[i].port)
    /\ proc' = [proc EXCEPT ![i] = DeadProc]
    /\ wrkFrame /\ UNCHANGED <<expired, dbVars, faults, runs>>

\* The port is bound and the row written.  An insert also drops the registry
\* rows a previous owner of the port left.
mRegister(i) ==
    LET p == proc[i].port IN
    /\ proc[i].pc = "boot" /\ CanBind(p)
    /\ workers' = [workers EXCEPT ![p] = FreshRow(i)]
    /\ registry' = IF Present(p) THEN registry
                   ELSE {e \in registry : e[2] # p}
    /\ proc' = [proc EXCEPT ![i].pc = "top"]
    /\ expired' = expired \ {p}
    /\ wrkFrame /\ UNCHANGED <<requests, faults, runs>>

\* The exit flag is only looked at here, before the one-second sleep.
WrkTop(i) ==
    /\ proc[i].pc = "top"
    /\ proc' = [proc EXCEPT ![i].pc = IF proc[i].exit THEN "stop" ELSE "sleep"]
    /\ wrkFrame /\ UNCHANGED <<expired, dbVars, faults, runs>>

WrkLoad(i) ==
    LET row == workers[proc[i].port] IN
    /\ proc[i].pc = "sleep"
    /\ proc' = IF row.uuid = NoReq
               THEN [proc EXCEPT ![i].pc = "top"]
               ELSE [proc EXCEPT ![i] = [@ EXCEPT !.pc = "assigned", !.copy = row]]
    /\ wrkFrame /\ UNCHANGED <<expired, dbVars, faults, runs>>

\* Status Running is stored with the whole copy, its synclock included; the
\* status of the request itself is not looked at.
WrkRun(i) ==
    /\ proc[i].pc = "assigned"
    /\ mUpdateWorker(proc[i].port, [proc[i].copy EXCEPT !.status = "Running"])
    /\ proc' = [proc EXCEPT ![i].pc = "running"]
    /\ wrkFrame /\ UNCHANGED <<expired, requests, registry, faults, runs>>

\* The cluster command takes its registry lock and is executed, ...
WrkLock(i) ==
    LET r == proc[i].copy.uuid IN
    /\ proc[i].pc = "running"
    /\ registry' = registry \cup {<<r, proc[i].port>>}
    /\ proc' = [proc EXCEPT ![i].pc = "exec"]
    /\ runs' = [runs EXCEPT ![r] = IF @ < 2 THEN @ + 1 ELSE @]
    /\ wrkFrame /\ UNCHANGED <<expired, requests, workers, faults>>

\* ... and deletes the lock by its key, whether it returns or raises.
WrkUnlock(i) ==
    /\ proc[i].pc = "exec"
    /\ registry' = {e \in registry : e[1] # proc[i].copy.uuid}
    /\ proc' = [proc EXCEPT ![i].pc = "unlocked"]
    /\ wrkFrame /\ UNCHANGED <<expired, requests, workers, faults, runs>>

\* The request gets the worker's own result: error 0, or the error of an
\* exception the worker caught.
WrkFinish(i) ==
    /\ proc[i].pc = "unlocked"
    /\ requests' = [requests EXCEPT ![proc[i].copy.uuid] =
                       [status |-> "Done", error |-> "own"]]
    /\ proc' = [proc EXCEPT ![i].pc = "done"]
    /\ wrkFrame /\ UNCHANGED <<expired, workers, registry, faults, runs>>

\* Back to Idle, possibly CORRUPTED, again with the synclock of the copy.
WrkReset(i) ==
    LET idle == [proc[i].copy EXCEPT !.status = "Idle", !.uuid = NoReq] IN
    /\ proc[i].pc = "done"
    /\ \/ /\ mUpdateWorker(proc[i].port, idle)
          /\ UNCHANGED faults
       \/ /\ mUpdateWorker(proc[i].port, [idle EXCEPT !.state = "CORRUPTED"])
          /\ Spend("corrupt", 1)
    /\ proc' = [proc EXCEPT ![i] = [@ EXCEPT !.pc = "top", !.copy = NoRow]]
    /\ expired' = expired \ {proc[i].port}
    /\ wrkFrame /\ UNCHANGED <<requests, registry, runs>>

\* mDeregister on the object built at start-up, whose uuid is zero.
WrkDeregister(i) ==
    /\ proc[i].pc = "stop"
    /\ mUpdateWorker(proc[i].port, ExitedRow(NoReq))
    /\ proc' = [proc EXCEPT ![i] = DeadProc]
    /\ wrkFrame /\ UNCHANGED <<expired, requests, registry, faults, runs>>

\* A worker that dies while the manager waits for it is a failed start.
WrkCrash(i) ==
    /\ "worker" \in CanCrash
    /\ Alive(i)
    /\ wm.pc = "wait" /\ wm.port = proc[i].port => faults.start > 0
    /\ Spend("crash", 1)
    /\ proc' = [proc EXCEPT ![i] = DeadProc]
    /\ wrkFrame /\ UNCHANGED <<expired, dbVars, runs>>

Worker(i) == \/ WrkBindFails(i) \/ mRegister(i) \/ WrkTop(i) \/ WrkLoad(i)
             \/ WrkRun(i) \/ WrkLock(i) \/ WrkUnlock(i) \/ WrkFinish(i)
             \/ WrkReset(i) \/ WrkDeregister(i)
-----------------------------------------------------------------------------
(* The worker manager: one round of mWrkmanager after the other.            *)

wmFrame == UNCHANGED <<answer, dsp, sup, expired, runs>>
WmGoto(pc) == wm' = [wm EXCEPT !.pc = pc]

\* The read that starts a phase comes with the end of the one before it.
WmPhaseDone(pc, phase) == wm.pc = pc /\ wm.phase = phase /\ wm.todo = {}

ToCheck(p) == workers[p].status \in {"Idle", "Running"}

\* mCheckFactory works through a list read once; liveness is probed by pid.
CheckList ==
    LET listed == {p \in Port : ToCheck(p)} IN
    /\ WmPhaseDone("resetting", "boot") \/ WmPhaseDone("terminating", "idle")
    /\ wm' = [wm EXCEPT !.pc = "checking", !.phase = "main", !.todo = listed,
                 !.snap = [p \in Port |-> IF p \in listed THEN workers[p].pid
                                          ELSE 0]]
    /\ wmFrame /\ UNCHANGED <<dbVars, proc, portIndex, faults>>

Checking(p) == wm.pc = "checking" /\ p \in wm.todo
Checked(p, pc) ==
    wm' = [wm EXCEPT !.pc = pc, !.todo = @ \ {p},
              !.port = IF pc = "checking" THEN 0 ELSE p,
              !.snap = IF pc = "kill" THEN @ ELSE [@ EXCEPT ![p] = 0]]

CheckHealthy(p) ==
    /\ Checking(p) /\ Alive(wm.snap[p]) /\ Listening(p)
    /\ Checked(p, "checking")
    /\ wmFrame /\ UNCHANGED <<dbVars, proc, portIndex, faults>>

\* No such process: shut down whoever owns the port, then deregister.
CheckDead(p) ==
    /\ Checking(p) /\ ~Alive(wm.snap[p])
    /\ mWorker_Shutdown(p)
    /\ Checked(p, "load")
    /\ wmFrame /\ UNCHANGED <<dbVars, portIndex, faults>>

\* A process whose port does not answer gets SIGTERM, which sets its exit flag.
\* A registered worker has bound its port, so it takes a failed probe.
CheckUnreachable(p) ==
    /\ Checking(p) /\ Alive(wm.snap[p])
    /\ Spend("probe", 1)
    /\ proc' = [proc EXCEPT ![wm.snap[p]].exit = TRUE]
    /\ Checked(p, "kill")
    /\ wmFrame /\ UNCHANGED <<dbVars, portIndex>>

\* Ten seconds later it is killed if it still runs; its row is left as it is.
CheckKill ==
    LET i == wm.snap[wm.port] IN
    /\ wm.pc = "kill"
    /\ proc' = IF Alive(i) THEN [proc EXCEPT ![i] = DeadProc] ELSE proc
    /\ wm' = [wm EXCEPT !.pc = "checking", !.port = 0,
                        !.snap = [@ EXCEPT ![wm.port] = 0]]
    /\ wmFrame /\ UNCHANGED <<dbVars, portIndex, faults>>

Deregistered == wm' = [wm EXCEPT !.pc = "checking", !.port = 0, !.uuid = NoReq]

\* An object loaded from no row has port 0, and its update finds no row.
DeregLoad ==
    /\ wm.pc = "load"
    /\ IF Present(wm.port)
       THEN wm' = [wm EXCEPT !.pc = "dereg", !.uuid = workers[wm.port].uuid]
       ELSE Deregistered
    /\ wmFrame /\ UNCHANGED <<dbVars, proc, portIndex, faults>>

DeregRow ==
    /\ wm.pc = "dereg"
    /\ mUpdateWorker(wm.port, ExitedRow(wm.uuid))
    /\ IF wm.uuid = NoReq THEN Deregistered ELSE WmGoto("readreq")
    /\ wmFrame /\ UNCHANGED <<requests, registry, proc, portIndex, faults>>

DeregReadRequest ==
    /\ wm.pc = "readreq"
    /\ IF Pending(wm.uuid) THEN WmGoto("failreq") ELSE Deregistered
    /\ wmFrame /\ UNCHANGED <<dbVars, proc, portIndex, faults>>

DeregFailRequest ==
    /\ wm.pc = "failreq"
    /\ mFailRequest(wm.uuid)
    /\ Deregistered
    /\ wmFrame /\ UNCHANGED <<workers, proc, portIndex, faults>>

\* mResetWorkersList: rows listed as Exited are deleted one by one, by port;
\* the constructor of the factory does so before the first round.
ResetList ==
    /\ wm.pc = "boot" \/ WmPhaseDone("checking", "main")
    /\ wm' = [wm EXCEPT !.pc = "resetting", !.todo = ExitedPorts]
    /\ wmFrame /\ UNCHANGED <<dbVars, proc, portIndex, faults>>

ResetDelete(p) ==
    /\ wm.pc = "resetting" /\ p \in wm.todo
    /\ mDelWorkerEntry({p})
    /\ wm' = [wm EXCEPT !.todo = @ \ {p}]
    /\ wmFrame /\ UNCHANGED <<requests, proc, portIndex, faults>>

\* Mutant: no test for enough idle workers.
MissingUnchecked == IdleThreadPoolCount - IdleCount

\* The number of workers to start.
Missing == IF IdleCount < IdleThreadPoolCount
           THEN IdleThreadPoolCount - IdleCount ELSE 0

CountIdle ==
    /\ WmPhaseDone("resetting", "main")
    /\ \E ok \in BOOLEAN :
          /\ isAdditionalWorkerAllowed(ok)
          /\ wm' = [wm EXCEPT !.pc = "start", !.want = IF ok THEN Missing ELSE 0]
    /\ wmFrame /\ UNCHANGED <<dbVars, proc, portIndex, faults>>

\* mGetPort: the first port from the index on without a row and not bound; a
\* worker that has not bound its port yet is not noticed.
FreePort(p) == ~Present(p) /\ ~Listening(p)
mGetPort(p) == /\ p >= portIndex /\ FreePort(p)
               /\ \A q \in portIndex..(p - 1) : ~FreePort(q)
Unborn == {i \in Pid : proc[i].pc = "unborn"}

StartWorker(p, i) ==
    /\ wm.pc = "start" /\ wm.want > 0
    /\ mGetPort(p)
    /\ i \in Unborn /\ \A j \in Unborn : i <= j
    /\ proc' = [proc EXCEPT ![i] = [@ EXCEPT !.pc = "boot", !.port = p]]
    /\ wm' = [wm EXCEPT !.pc = "wait", !.port = p]
    /\ wmFrame /\ UNCHANGED <<dbVars, portIndex, faults>>

\* The new worker answers a status command and the port index moves on, ...
StartWait ==
    /\ wm.pc = "wait" /\ Listening(wm.port)
    /\ portIndex' = wm.port + 1
    /\ wm' = [wm EXCEPT !.pc = "start", !.want = @ - 1, !.port = 0]
    /\ wmFrame /\ UNCHANGED <<dbVars, proc, faults>>

\* ... or five tries fail: no further start in this round, and the index still
\* names the port that was tried.
StartGiveUp ==
    /\ wm.pc = "wait" /\ ~Listening(wm.port)
    /\ Spend("start", 1)
    /\ wm' = [wm EXCEPT !.pc = "start", !.want = 0, !.port = 0]
    /\ wmFrame /\ UNCHANGED <<dbVars, proc, portIndex>>

\* Enough workers, or one of the bounds NPort and MaxPid is reached.
StartDone == /\ wm.pc = "start"
             /\ \/ wm.want = 0
                \/ Unborn = {}
                \/ \A p \in Port : ~mGetPort(p)

Unassigned == {p \in Port : Present(p) /\ workers[p].uuid = NoReq}

\* mGetCorruptedWorkersForTermination
TermListCorrupted ==
    /\ StartDone
    /\ wm' = [wm EXCEPT !.pc = "terminating", !.phase = "corrupted", !.want = 0,
                 !.todo = {p \in Unassigned : workers[p].state = "CORRUPTED"}]
    /\ wmFrame /\ UNCHANGED <<dbVars, proc, portIndex, faults>>

\* Workers beyond IdleWC.
Surplus == IF IdleWC < Cardinality(Unassigned)
           THEN Cardinality(Unassigned) - IdleWC ELSE 0

\* mGetIdleWorkersForTermination: rows whose idle timeout has expired, as many of
\* them as there are unassigned rows beyond IdleWC.
TermListIdle ==
    LET old == {p \in Unassigned \cap expired : workers[p].status = "Idle"} IN
    /\ WmPhaseDone("terminating", "corrupted")
    /\ \E S \in SUBSET old :
          /\ Cardinality(S) = IF Cardinality(old) < Surplus
                              THEN Cardinality(old) ELSE Surplus
          /\ wm' = [wm EXCEPT !.phase = "idle", !.todo = S]
    /\ wmFrame /\ UNCHANGED <<dbVars, proc, portIndex, faults>>

\* A row that disappeared raises in the lock call: the manager dies and the
\* supervisor starts a new one, whose factory counts ports from the start.
WmRestart == wm' = BootWm /\ portIndex' = 1

TermLoad(p) ==
    /\ wm.pc = "terminating" /\ p \in wm.todo
    /\ IF Present(p)
       THEN /\ wm' = [wm EXCEPT !.pc = "lock", !.port = p, !.todo = @ \ {p},
                                !.uuid = workers[p].uuid]
            /\ UNCHANGED portIndex
       ELSE WmRestart
    /\ wmFrame /\ UNCHANGED <<dbVars, proc, faults>>

\* The uuid looked at under the lock is the one loaded before it.
TermLock ==
    LET p == wm.port IN
    /\ wm.pc = "lock"
    /\ \/ /\ ~Present(p)
          /\ WmRestart
          /\ UNCHANGED workers
       \/ /\ Present(p) /\ CanLock(p, "Wrkmanager")
          /\ mAcquireWorkerSyncLock(p, "Wrkmanager")
          /\ WmGoto(IF wm.uuid = NoReq THEN "shutdown" ELSE "poll")
          /\ UNCHANGED portIndex
       \/ /\ Present(p) /\ ~CanLock(p, "Wrkmanager")
          /\ wm' = [wm EXCEPT !.pc = "terminating", !.port = 0, !.uuid = NoReq]
          /\ UNCHANGED <<workers, portIndex>>
    /\ wmFrame /\ UNCHANGED <<requests, registry, proc, faults>>

TermShutdown ==
    /\ wm.pc = "shutdown"
    /\ mWorker_Shutdown(wm.port)
    /\ WmGoto("poll")
    /\ wmFrame /\ UNCHANGED <<dbVars, portIndex, faults>>

\* Five polls for an Exited row, then the lock is released either way.
TermRelease ==
    /\ wm.pc = "poll"
    /\ mReleaseWorkerSyncLock(wm.port, "Wrkmanager")
    /\ wm' = [wm EXCEPT !.pc = "terminating", !.port = 0, !.uuid = NoReq]
    /\ wmFrame /\ UNCHANGED <<requests, registry, proc, portIndex, faults>>

WmCrash ==
    /\ "workermanager" \in CanCrash
    /\ Spend("crash", 1)
    /\ WmRestart
    /\ wmFrame /\ UNCHANGED <<dbVars, proc>>

WorkerManager ==
    \/ CheckList \/ CheckKill
    \/ DeregLoad \/ DeregRow \/ DeregReadRequest \/ DeregFailRequest
    \/ ResetList \/ CountIdle \/ StartWait \/ StartGiveUp
    \/ TermListCorrupted \/ TermListIdle
    \/ TermLock \/ TermShutdown \/ TermRelease
    \/ \E p \in Port : \/ CheckHealthy(p) \/ CheckDead(p) \/ CheckUnreachable(p)
                       \/ ResetDelete(p) \/ TermLoad(p)
                       \/ \E i \in Pid : StartWorker(p, i)

\* Time passes without a request for this row: its lastactivetime is written
\* when a worker registers and when it has finished a request.
IdleTimeout(p) ==
    /\ p \in Unassigned \ expired /\ workers[p].status = "Idle"
    /\ Spend("idle", 1)
    /\ expired' = expired \cup {p}
    /\ UNCHANGED <<dbVars, answer, proc, dsp, wm, portIndex, sup, runs>>
-----------------------------------------------------------------------------
(* The supervisor: orphans older than uuid_orphan_time are listed, then     *)
(* failed one by one without another look at the workers table.             *)

mOrphanRequests ==
    /\ SupervisorEnabled
    /\ sup = {}
    /\ \E S \in SUBSET {r \in Req : Pending(r) /\ ~Assigned(r)} :
          S # {} /\ sup' = S
    /\ UNCHANGED <<dbVars, answer, proc, dsp, wm, portIndex, expired, faults, runs>>

CleanOrphan(r) ==
    /\ r \in sup
    /\ mFailRequest(r)
    /\ sup' = sup \ {r}
    /\ UNCHANGED <<answer, workers, proc, dsp, wm, portIndex, expired, faults, runs>>

Supervisor == mOrphanRequests \/ \E r \in Req : CleanOrphan(r)
-----------------------------------------------------------------------------
Next == \/ \E r \in Req : mRegisterRequest(r) \/ dispatchJobToWorker(r)
        \/ Dispatcher \/ DspCrash
        \/ \E i \in Pid : Worker(i) \/ WrkCrash(i)
        \/ WorkerManager \/ WmCrash
        \/ \E p \in Port : IdleTimeout(p)
        \/ Supervisor

Spec == Init /\ [][Next]_vars

\* Every process keeps running its loop; nothing forces a client to submit, a
\* fault to happen or the supervisor's orphan timeout to expire.
Fairness == /\ WF_vars(Dispatcher)
            /\ WF_vars(WorkerManager)
            /\ \A i \in Pid : WF_vars(Worker(i))
            /\ \A r \in Req : WF_vars(CleanOrphan(r))
FairSpec == Spec /\ Fairness
-----------------------------------------------------------------------------
Executing(i, r) == proc[i].pc \in {"exec", "unlocked"} /\ proc[i].copy.uuid = r

\* Every variable keeps the shape its table or process gives it.
TypeOK ==
    /\ requests \in [Req -> [status : {"none", "Pending", "Done"},
                             error : {"Undef", "own", "709"}]]
    /\ answer \in [Req -> {"none", "registered", "accepted", "503"}]
    /\ workers \in [Port -> Row]
    /\ registry \subseteq Req \X Port
    /\ proc \in [Pid -> Proc]
    /\ dsp \in Dsp
    /\ wm \in Wm
    /\ portIndex \in Nat
    /\ sup \subseteq Req
    /\ expired \subseteq Port
    /\ faults \in [FaultKind -> Nat]
    /\ runs \in [Req -> 0..2]

\* No request is in the rows of two workers, whatever stale row copies the
\* dispatcher, the workers and the worker manager write back.
AtMostOneRow ==
    \A p, q \in Port : workers[p].uuid = workers[q].uuid /\ p # q
                       => workers[p].uuid = NoReq

\* No request is started twice, whatever becomes of its worker, and although the
\* supervisor may fail it while the dispatcher or a worker holds it.
StartedOnce == \A r \in Req : runs[r] <= 1

\* While a worker executes a request, the request has not been reported Done,
\* is still in the worker's row, and its registry row, the cluster lock, is
\* there until the worker itself deletes it: neither mCheckFactory's
\* deregistration nor a deleted row takes them away.
ExecutionIsCovered ==
    \A i \in Pid, r \in Req :
        Executing(i, r) =>
            /\ Pending(r)
            /\ workers[proc[i].port].uuid = r
            /\ proc[i].pc = "exec" => <<r, proc[i].port>> \in registry

\* However starts fail and processes are restarted, no two live workers serve
\* the same port, and so poll the same row: the second one to boot cannot bind
\* its listener and exits before it registers.
OneWorkerPerPort ==
    \A i, j \in Pid, p \in Port : Bound(i, p) /\ Bound(j, p) => i = j

\* The outcome of a request as a client polling the requests table sees it, and
\* what became of its execution.
outcomeOf(r) ==
    CASE requests[r].status = "none" -> "none"
      [] requests[r].error = "own" -> "reported"
      [] requests[r].error = "709" -> "failed"
      [] OTHER -> "pending"
attemptOf(r) ==
    IF \E i \in Pid : Executing(i, r) THEN "running"
    ELSE IF runs[r] = 0 THEN "new" ELSE "over"
outcome == [r \in Req |-> outcomeOf(r)]
attempt == [r \in Req |-> attemptOf(r)]
Lifecycle == INSTANCE RequestLifecycle
                 WITH MayAbort <- SupervisorEnabled

\* The pool implements the request life cycle: executed at most once and, unless
\* the supervisor aborts requests, lost executions reported as failed and outcomes
\* final.
ImplementsLifecycle == Lifecycle!Spec

\* Every request that was inserted is eventually reported Done, across lost
\* assignments, worker crashes and shrinking of the pool.
EveryRequestEnds ==
    \A r \in Req : requests[r].status = "Pending" ~> requests[r].status = "Done"


\* A request does not wait for ever while there is a worker the agent and the
\* worker manager count as idle.
IdleWorkerServes ==
    \A r \in Req : []<>~(/\ Pending(r) /\ ~Assigned(r)
                         /\ \E p \in Port : IdleNormal(p))

\* A row the worker marked CORRUPTED does not stay so.
CorruptedTerminated ==
    \A p \in Port : workers[p].state = "CORRUPTED" ~> workers[p].state = "NORMAL"

\* The worker manager's shutdown command never goes to a worker that has a
\* request in its row.
ShutdownOnlyUnassigned ==
    wm.pc = "shutdown" => workers[wm.port].uuid = NoReq

\* A request answered with http 503 is not executed.
RejectedNeverRuns == \A r \in Req : answer[r] = "503" => runs[r] = 0

\* A request the supervisor has aborted is not started afterwards.
AbortedNeverStarts ==
    [][\A r \in Req : requests[r].error = "709" => runs'[r] = runs[r]]_vars
=============================================================================
