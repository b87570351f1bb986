---------------------------- MODULE WorkerPoolInv ----------------------------
(***************************************************************************)
(* The inductive invariants behind the safety properties of WorkerPool.    *)
(* PcTypes holds always.  PoolInv holds while only workers are killed and  *)
(* every started worker comes up: then no port is ever used by two         *)
(* workers, and a stale copy of a row can only be written back to the row  *)
(* of the worker it was read from.  Only what WorkInv and DspInv say about *)
(* the status of a request takes the supervisor's cleanup to be off.       *)
(***************************************************************************)
EXTENDS WorkerPool

StablePorts == CanCrash \subseteq {"worker"} /\ MaxStartFail = 0
SteadyPool  == StablePorts /\ ~SupervisorEnabled

AtWork(i) == proc[i].pc \in {"assigned", "running", "exec", "unlocked", "done"}
Registered(i) == proc[i].pc \in {"top", "sleep", "assigned", "running", "exec",
                                 "unlocked", "done", "stop"}
Owner(i, p) == Alive(i) /\ proc[i].port = p

\* Ports handed out so far by the worker manager's mGetPort.
Issued(p) == p < portIndex \/ (wm.pc = "wait" /\ p = wm.port)

\* No live worker has this port, and none will get it.
Abandoned(p) == p < portIndex /\ \A i \in Pid : ~Owner(i, p)

DspHolds == dsp.pc \in {"pick", "scan", "loaded", "locked"}
WmChecking == wm.pc \in {"checking", "kill", "load", "dereg", "readreq", "failreq"}
WmTerminating == wm.pc \in {"terminating", "lock", "shutdown", "poll"}

\* What the program counters say about the local variables.
PcTypes ==
    /\ \A i \in Pid : /\ Alive(i) => proc[i].port \in Port
                      /\ ~Alive(i) => proc[i].port = 0
                      /\ AtWork(i) => proc[i].copy.uuid \in Req
    /\ dsp.pc \notin {"boot", "reset", "idle"} => dsp.req \in Req
    /\ dsp.pc \in {"loaded", "locked", "release"} => dsp.port \in Port
    /\ wm.pc \in {"kill", "load", "dereg", "readreq", "failreq", "wait", "lock",
                  "shutdown", "poll"} => wm.port \in Port
    /\ wm.pc \in {"readreq", "failreq"} => wm.uuid \in Req
    /\ wm.pc = "wait" => wm.want > 0

\* No port is issued twice, so live workers have different ones.
PortInv ==
    /\ faults.start = 0 /\ (~SupervisorEnabled => sup = {})
    /\ \A i \in Pid : Alive(i) => Issued(proc[i].port)
    /\ \A p \in Port : Present(p) => Issued(p)
    /\ \A i, j \in Pid : Alive(i) /\ Alive(j) /\ proc[i].port = proc[j].port
                         => i = j
    /\ wm.pc = "wait" => wm.port >= portIndex

\* The row of a live worker carries its pid and the request it works on.
RowInv ==
    /\ \A p \in Port : ~Present(p) => workers[p].uuid = NoReq
    /\ \A i \in Pid : proc[i].pc = "boot" => ~Present(proc[i].port)
    /\ \A i \in Pid : Registered(i) =>
          /\ workers[proc[i].port].status \in {"Idle", "Running"}
          /\ workers[proc[i].port].pid = i
    /\ \A i \in Pid : AtWork(i) =>
          /\ workers[proc[i].port].uuid = proc[i].copy.uuid
          /\ proc[i].copy.pid = i

\* The dispatcher's request is in no row, the rows it considers hold none, and
\* its copy of a row was read from the worker that still owns the row, if any.
DspInv ==
    /\ dsp.pc \notin {"boot", "reset"}
    /\ DspHolds => /\ ~Assigned(dsp.req)
                   /\ ~SupervisorEnabled => Pending(dsp.req)
    /\ dsp.pc \in {"scan", "loaded", "locked"}
          => \A p \in dsp.todo : workers[p].uuid = NoReq
    /\ dsp.pc \in {"loaded", "locked"} =>
          /\ workers[dsp.port].uuid = NoReq
          /\ Issued(dsp.port)
          /\ dsp.copy.status # "none"
          /\ \A i \in Pid : Owner(i, dsp.port) =>
                /\ Registered(i)
                /\ dsp.copy.pid = i
                /\ dsp.copy.status \in {"Idle", "Running"}

\* The worker manager deregisters and deletes only abandoned rows, and the rows
\* it is about to terminate are still there.
WmInv ==
    /\ WmChecking => \A p \in wm.todo, i \in Pid : Owner(i, p) => wm.snap[p] = i
    /\ WmChecking => \A p \in wm.todo : p < portIndex
    /\ wm.pc \in {"load", "dereg", "readreq", "failreq"} => Abandoned(wm.port)
    /\ wm.pc = "dereg" => wm.uuid \in {NoReq, workers[wm.port].uuid}
    /\ wm.pc \in {"readreq", "failreq"} => workers[wm.port].uuid = wm.uuid
    /\ wm.pc = "resetting" => \A p \in wm.todo : Abandoned(p)
    /\ WmTerminating => \A p \in wm.todo : Present(p)
    /\ wm.pc = "lock" => Present(wm.port)

\* A request in the row of a live worker that has not finished it is Pending,
\* and its cluster lock is held while it is executed, unless the supervisor
\* aborts it.
WorkInv == ~SupervisorEnabled =>
    /\ \A i \in Pid : Registered(i) /\ proc[i].pc # "done"
                      /\ workers[proc[i].port].uuid # NoReq
                      => Pending(workers[proc[i].port].uuid)
    /\ \A i \in Pid : proc[i].pc = "exec"
                      => <<proc[i].copy.uuid, proc[i].port>> \in registry

\* The inductive invariant of a pool with stable ports: every part above, and that
\* no request is in the rows of two workers.
SteadyInv == PortInv /\ RowInv /\ DspInv /\ WmInv /\ AtMostOneRow /\ WorkInv
PoolInv == PcTypes /\ SteadyInv

\* The request in the row is still Pending although a worker has started it.
Tried(p) == /\ workers[p].uuid \in Req
            /\ Pending(workers[p].uuid)
            /\ runs[workers[p].uuid] > 0

\* A request is started at most once, reported by its worker only after that, and
\* the row it was started from keeps it until it is reported Done.
Accounted(r) ==
    /\ requests[r].status = "none" => runs[r] = 0
    /\ requests[r].status = "Done" <=> requests[r].error # "Undef"
    /\ requests[r].error = "own" => runs[r] > 0
    /\ Pending(r) /\ runs[r] > 0 => Assigned(r)
    /\ runs[r] \in {0, 1}

\* Such a row belongs to the worker that executes the request, or to no worker:
\* then the worker manager will load the request with the row and fail it, and
\* neither resets the row nor deletes it before.
Kept(p) ==
    /\ \A i \in Pid : Owner(i, p) => proc[i].pc \in {"exec", "unlocked"}
    /\ workers[p].status = "Exited" =>
          wm.pc \in {"readreq", "failreq"} /\ wm.port = p
    /\ wm.pc = "dereg" /\ wm.port = p => wm.uuid # NoReq
    /\ wm.pc = "resetting" => p \notin wm.todo

OutcomeInv == \A r \in Req : Accounted(r)
TriedInv   == \A p \in Port : Tried(p) => Kept(p)

\* Nobody but the supervisor has reported the request.
Open(r) == \/ Pending(r)
           \/ SupervisorEnabled /\ requests[r].error = "709"

\* What workers and the worker manager know of the request they work on.
AttemptInv ==
    /\ \A i \in Pid : proc[i].pc \in {"exec", "unlocked"}
                       => runs[proc[i].copy.uuid] > 0
    /\ \A i \in Pid : proc[i].pc = "done"
                       => requests[proc[i].copy.uuid].status = "Done"
    /\ wm.pc = "failreq" => Open(wm.uuid)

\* The worker has not come to the request in its row yet.
Waiting(i) == Registered(i) /\ proc[i].pc \notin {"exec", "unlocked", "done"}

\* The request has been inserted and not been started, whatever its status is now.
Unstarted(r) == requests[r].status # "none" /\ runs[r] = 0

\* What the dispatcher holds or has put into the row of a waiting worker.
FreshInv ==
    /\ DspHolds => Unstarted(dsp.req)
    /\ \A i \in Pid : Waiting(i) /\ workers[proc[i].port].uuid # NoReq
                      => Unstarted(workers[proc[i].port].uuid)

\* The supervisor takes only requests that were inserted for orphans.
OrphanInv == \A r \in sup : requests[r].status # "none"

\* The inductive invariant behind the request life cycle, relative to PoolInv.
LifeInv == OutcomeInv /\ TriedInv /\ AttemptInv /\ FreshInv
=============================================================================
