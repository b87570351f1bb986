-------------------------- MODULE WorkerPoolLifecycle --------------------------
(***************************************************************************)
(* With stable ports a request is started at most once and the pool        *)
(* implements the request life cycle, with the aborts of the supervisor's  *)
(* orphan cleanup if that is on.                                           *)
(***************************************************************************)
EXTENDS WorkerPoolSafety

USE DEF Port, Pid

(* LifeInv is an invariant of a pool with stable ports.                     *)

\* A live worker and its row: nobody else has the port, the manager does not
\* deregister or reset the row, and only a request that is being executed has
\* been started from it.
LEMMA OwnRow ==
    ASSUME StablePorts, Inv, LifeInv, NEW i \in Pid, NEW p \in Port, Owner(i, p)
    PROVE  /\ \A j \in Pid \ {i} : ~Owner(j, p)
           /\ wm.pc \in {"load", "dereg", "readreq", "failreq"} => wm.port # p
           /\ wm.pc = "resetting" => p \notin wm.todo
           /\ proc[i].pc \notin {"exec", "unlocked"} => ~Tried(p)
           /\ AtWork(i) => /\ workers[p].uuid = proc[i].copy.uuid
                           /\ proc[i].copy.uuid \in Req
           /\ Waiting(i) /\ workers[p].uuid # NoReq => Unstarted(workers[p].uuid)
           /\ Registered(i) => workers[p].status \in {"Idle", "Running"}
           /\ \A q \in Port \ {p} : workers[q].uuid \in Req
                                    => workers[q].uuid # workers[p].uuid
<1> USE DEF Inv, PoolInv, SteadyInv, Owner, Alive
<1>1. /\ \A j \in Pid \ {i} : ~Owner(j, p)
      /\ wm.pc \in {"load", "dereg", "readreq", "failreq"} => wm.port # p
      /\ wm.pc = "resetting" => p \notin wm.todo
  BY DEF PortInv, WmInv, Abandoned
<1>2. proc[i].pc \notin {"exec", "unlocked"} => ~Tried(p)
  BY DEF LifeInv, TriedInv, Kept
<1>3. AtWork(i) => /\ workers[p].uuid = proc[i].copy.uuid
                   /\ proc[i].copy.uuid \in Req
                   /\ Registered(i)
  BY DEF RowInv, PcTypes, AtWork, Registered
<1>4. Waiting(i) /\ workers[p].uuid # NoReq => Unstarted(workers[p].uuid)
  BY DEF LifeInv, FreshInv
<1>5. Registered(i) => workers[p].status \in {"Idle", "Running"}
  BY DEF RowInv
<1>6. \A q \in Port \ {p} : workers[q].uuid \in Req
                            => workers[q].uuid # workers[p].uuid
  BY Constants DEF AtMostOneRow
<1> QED
  BY <1>1, <1>2, <1>3, <1>4, <1>5, <1>6

\* A worker's step touches its own row and the request in it.  What is left to
\* show of a step is about that request, that row and the worker itself.
LEMMA LifeWorkerStep ==
    ASSUME StablePorts, Inv, LifeInv, NEW i \in Pid, NEW p \in Port, Owner(i, p),
           wm' = wm, dsp' = dsp,
           \A j \in Pid \ {i} : proc'[j] = proc[j],
           \A q \in Port \ {p} : workers'[q] = workers[q],
           Alive(i)' => proc'[i].port = p,
           \A r \in Req : r # workers[p].uuid
               => requests'[r] = requests[r] /\ runs'[r] = runs[r],
           \A r \in Req : r = workers[p].uuid => Accounted(r)',
           Tried(p)' => Kept(p)',
           proc'[i].pc \in {"exec", "unlocked"} => runs'[proc'[i].copy.uuid] > 0,
           proc'[i].pc = "done" => requests'[proc'[i].copy.uuid].status = "Done",
           Waiting(i)' /\ workers'[p].uuid # NoReq => Unstarted(workers[p].uuid)'
    PROVE  LifeInv'
<1>1. \A q \in Port \ {p} : workers[q].uuid \in Req
                            => workers[q].uuid # workers[p].uuid
  BY OwnRow
<1>2. ASSUME NEW r \in Req PROVE Accounted(r)'
  <2>1. CASE r = workers[p].uuid
    BY <2>1
  <2>2. CASE r # workers[p].uuid
    <3>1. Accounted(r) /\ requests'[r] = requests[r] /\ runs'[r] = runs[r]
      BY <2>2 DEF LifeInv, OutcomeInv
    <3>2. Assigned(r) => Assigned(r)'
      BY <2>2 DEF Assigned
    <3> QED
      BY <3>1, <3>2 DEF Accounted, Pending
  <2> QED
    BY <2>1, <2>2
<1>3. ASSUME NEW q \in Port, Tried(q)' PROVE Kept(q)'
  <2>1. CASE q = p
    BY <1>3, <2>1
  <2>2. CASE q # p
    <3>1. workers'[q] = workers[q]
      BY <2>2
    <3>2. Tried(q)
      BY <1>1, <1>3, <2>2, <3>1 DEF Tried, Pending
    <3>3. Kept(q)
      BY <3>2 DEF LifeInv, TriedInv
    <3>4. \A j \in Pid : Owner(j, q)' => Owner(j, q) /\ j # i
      BY <2>2 DEF Owner, Alive
    <3> QED
      BY <3>1, <3>3, <3>4 DEF Kept
  <2> QED
    BY <2>1, <2>2
<1>4. AttemptInv'
  <2>1. ASSUME NEW j \in Pid \ {i}, proc[j].pc \in {"exec", "unlocked", "done"}
        PROVE  /\ requests'[proc[j].copy.uuid] = requests[proc[j].copy.uuid]
               /\ runs'[proc[j].copy.uuid] = runs[proc[j].copy.uuid]
    <3>1. PICK q \in Port : q = proc[j].port
      BY <2>1 DEF Inv, PoolInv, PcTypes, Alive
    <3>2. Owner(j, q) /\ AtWork(j)
      BY <2>1, <3>1 DEF Owner, Alive, AtWork
    <3>3. workers[q].uuid = proc[j].copy.uuid /\ workers[q].uuid \in Req
      BY <3>2, OwnRow
    <3>4. q # p
      BY <2>1, <3>2, OwnRow
    <3> QED
      BY <1>1, <3>3, <3>4
  <2>2. wm.pc = "failreq" => requests'[wm.uuid] = requests[wm.uuid]
    <3>1. SUFFICES ASSUME wm.pc = "failreq" PROVE requests'[wm.uuid] = requests[wm.uuid]
      OBVIOUS
    <3>2. PICK q \in Port : q = wm.port
      BY <3>1 DEF Inv, PoolInv, PcTypes
    <3>3. workers[q].uuid = wm.uuid /\ wm.uuid \in Req /\ q # p
      BY <3>1, <3>2, OwnRow DEF Inv, PoolInv, PcTypes, SteadyInv, WmInv
    <3> QED
      BY <1>1, <3>3
  <2> QED
    BY <2>1, <2>2 DEF LifeInv, AttemptInv, Open, Pending
<1>5. FreshInv'
  <2>1. ASSUME NEW r \in Req, r # workers[p].uuid, Unstarted(r) PROVE Unstarted(r)'
    BY <2>1 DEF Unstarted
  <2>2. DspHolds' => Unstarted(dsp.req)'
    <3>1. DspHolds => dsp.req \in Req /\ dsp.req # workers[p].uuid /\ Unstarted(dsp.req)
      BY DEF Inv, PoolInv, PcTypes, SteadyInv, DspInv, DspHolds, Assigned, LifeInv, FreshInv
    <3> QED
      BY <2>1, <3>1 DEF DspHolds
  <2>3. ASSUME NEW j \in Pid, Waiting(j)', workers'[proc'[j].port].uuid # NoReq
        PROVE  Unstarted(workers[proc[j].port].uuid)'
    <3>1. CASE j = i
      <4>1. proc'[i].port = p
        BY <2>3, <3>1 DEF Waiting, Registered, Alive
      <4> QED
        BY <2>3, <3>1, <4>1
    <3>2. CASE j # i
      <4>1. Waiting(j) /\ Alive(j) /\ proc'[j] = proc[j]
        BY <2>3, <3>2 DEF Waiting, Registered, Alive
      <4>2. PICK q \in Port : q = proc[j].port
        BY <4>1 DEF Inv, PoolInv, PcTypes
      <4>3. q # p
        BY <3>2, <4>1, <4>2, OwnRow DEF Owner
      <4>4. PICK r \in Uuid : r = workers[q].uuid
        BY <4>2 DEF Inv, TypeOK, Row
      <4>5. r \in Req /\ workers'[q] = workers[q]
        BY <2>3, <4>1, <4>2, <4>3, <4>4 DEF Uuid
      <4>6. Unstarted(r)
        BY <4>1, <4>2, <4>4, <4>5, Constants DEF LifeInv, FreshInv
      <4>7. r # workers[p].uuid
        BY <1>1, <4>3, <4>4, <4>5
      <4> QED
        BY <2>1, <4>1, <4>2, <4>4, <4>5, <4>6, <4>7
    <3> QED
      BY <3>1, <3>2
  <2> QED
    BY <2>2, <2>3 DEF FreshInv
<1> QED
  BY <1>2, <1>3, <1>4, <1>5 DEF LifeInv, OutcomeInv, TriedInv

\* A request whose status and runs do not change, in a row that keeps it or
\* that had not been started from, is accounted for.
LEMMA AccountedSame ==
    ASSUME StablePorts, Inv, LifeInv, NEW p \in Port, UNCHANGED <<requests, runs>>,
           \A q \in Port \ {p} : workers'[q] = workers[q],
           workers'[p].uuid = workers[p].uuid \/ ~Tried(p)
    PROVE  \A r \in Req : Accounted(r)'
<1> SUFFICES ASSUME NEW r \in Req PROVE Accounted(r)'
  OBVIOUS
<1>1. Accounted(r)
  BY DEF LifeInv, OutcomeInv
<1>2. ASSUME Pending(r), runs[r] > 0 PROVE Assigned(r)'
  <2>1. PICK q \in Port : workers[q].uuid = r
    BY <1>1, <1>2 DEF Accounted, Assigned
  <2>2. Tried(q)
    BY <1>2, <2>1 DEF Tried
  <2>3. workers'[q].uuid = r
    BY <2>1, <2>2
  <2> QED
    BY <2>3 DEF Assigned
<1> QED
  BY <1>1, <1>2 DEF Accounted, Pending

\* The steps and the death of a worker preserve LifeInv.
LEMMA LifeWorker ==
    ASSUME StablePorts, Inv, LifeInv, NEW i \in Pid, Worker(i) \/ WrkCrash(i)
    PROVE  LifeInv'
<1> USE DEF wrkFrame, dbVars
<1>x. /\ Alive(i) /\ proc[i].port \in Port /\ proc[i].copy \in Row
      /\ workers \in [Port -> Row] /\ proc \in [Pid -> Proc]
      /\ proc[i].pc = "boot" => ~Present(proc[i].port)
  <2>1. /\ Alive(i) /\ proc[i].port \in Port /\ proc[i].copy \in Row
        /\ workers \in [Port -> Row] /\ proc \in [Pid -> Proc]
    BY ActingWorker
  <2>2. proc[i].pc = "boot" => ~Present(proc[i].port)
    BY DEF Inv, PoolInv, SteadyInv, RowInv
  <2> QED
    BY <2>1, <2>2
<1>p. PICK p \in Port : p = proc[i].port
  BY <1>x
<1>c. PICK c \in Row : c = proc[i].copy
  BY <1>x
<1>o. Owner(i, p)
  BY <1>x, <1>p DEF Owner
<1>a. /\ AtWork(i) => workers[p].uuid = c.uuid /\ c.uuid \in Req
      /\ Waiting(i) /\ workers[p].uuid # NoReq => Unstarted(workers[p].uuid)
      /\ proc[i].pc \notin {"exec", "unlocked"} => ~Tried(p)
      /\ Registered(i) => workers[p].status \in {"Idle", "Running"}
      /\ wm.pc = "dereg" => wm.port # p
      /\ wm.pc = "resetting" => p \notin wm.todo
      /\ \A j \in Pid \ {i} : ~Owner(j, p)
  BY <1>o, <1>c, OwnRow
<1>b. DeadProc.pc = "dead"
  BY DEF DeadProc, UnbornProc
<1>d. dsp' = dsp
  BY DEF Worker, WrkBindFails, mRegister, WrkTop, WrkLoad, WrkRun, WrkLock,
         WrkUnlock, WrkFinish, WrkReset, WrkDeregister, WrkCrash
<1>1. CASE \/ WrkBindFails(i) \/ WrkTop(i) \/ WrkLoad(i) \/ WrkUnlock(i)
           \/ WrkCrash(i)
  <2>1. /\ UNCHANGED <<requests, workers, runs, wm>>
        /\ \A j \in Pid \ {i} : proc'[j] = proc[j]
    BY <1>1, <1>x DEF WrkBindFails, WrkTop, WrkLoad, WrkUnlock, WrkCrash
  <2>2. /\ Alive(i)' => proc'[i].port = p
        /\ proc'[i].pc \in {"exec", "unlocked"} =>
              proc[i].pc = "exec" /\ proc'[i].copy = c
        /\ proc[i].pc \in {"exec", "unlocked"} =>
              proc'[i].pc \in {"unlocked", "dead"}
        /\ proc'[i].pc # "done"
        /\ Waiting(i)' => Waiting(i)
    <3>1. CASE WrkBindFails(i) \/ WrkCrash(i)
      <4>1. proc'[i] = DeadProc
        BY <1>x, <3>1 DEF WrkBindFails, WrkCrash
      <4> QED
        BY <1>b, <4>1 DEF Alive, Waiting, Registered
    <3>2. CASE WrkTop(i)
      <4>1. /\ proc'[i].pc \in {"stop", "sleep"} /\ proc'[i].port = p
            /\ proc[i].pc = "top"
        BY <1>x, <1>p, <3>2 DEF WrkTop, Proc
      <4> QED
        BY <4>1 DEF Waiting, Registered
    <3>3. CASE WrkLoad(i)
      <4>1. /\ proc'[i].pc \in {"top", "assigned"} /\ proc'[i].port = p
            /\ proc[i].pc = "sleep"
        BY <1>x, <1>p, <3>3 DEF WrkLoad, Proc
      <4> QED
        BY <4>1 DEF Waiting, Registered
    <3>4. CASE WrkUnlock(i)
      BY <1>x, <1>p, <1>c, <3>4 DEF WrkUnlock, Proc, Waiting
    <3> QED
      BY <1>1, <3>1, <3>2, <3>3, <3>4
  <2>3. Tried(p)' => Kept(p)'
    <3>1. Tried(p)' = Tried(p)
      BY <2>1 DEF Tried, Pending
    <3>2. Tried(p) => Kept(p)
      BY DEF LifeInv, TriedInv
    <3>3. ASSUME Tried(p), NEW j \in Pid, Owner(j, p)'
          PROVE  proc'[j].pc \in {"exec", "unlocked"}
      <4>1. CASE j = i
        BY <1>a, <2>2, <3>3, <4>1 DEF Owner, Alive
      <4>2. CASE j # i
        BY <1>a, <2>1, <3>3, <4>2 DEF Owner, Alive
      <4> QED
        BY <4>1, <4>2
    <3> QED
      BY <2>1, <3>1, <3>2, <3>3 DEF Kept
  <2>4. \A r \in Req : Accounted(r)'
    BY <2>1, AccountedSame
  <2>5. proc'[i].pc \in {"exec", "unlocked"} => runs'[proc'[i].copy.uuid] > 0
    BY <1>c, <2>1, <2>2 DEF LifeInv, AttemptInv
  <2>6. Waiting(i)' /\ workers'[p].uuid # NoReq => Unstarted(workers[p].uuid)'
    BY <1>a, <2>1, <2>2 DEF Unstarted
  <2> QED
    BY <1>o, <1>d, <2>1, <2>2, <2>3, <2>4, <2>5, <2>6, LifeWorkerStep
<1>2. CASE mRegister(i) \/ WrkRun(i) \/ WrkReset(i) \/ WrkDeregister(i)
  <2>1. /\ UNCHANGED <<requests, runs, wm>>
        /\ \A j \in Pid \ {i} : proc'[j] = proc[j]
    BY <1>2, <1>x DEF mRegister, WrkRun, WrkReset, WrkDeregister
  <2>2. /\ proc'[i].pc \in {"top", "running", "dead"}
        /\ Alive(i)' => proc'[i].port = p
        /\ ~Tried(p)
    <3>1. CASE WrkDeregister(i)
      <4>1. proc'[i] = DeadProc /\ proc[i].pc = "stop"
        BY <1>x, <3>1 DEF WrkDeregister
      <4> QED
        BY <1>a, <1>b, <4>1 DEF Alive
    <3>2. CASE mRegister(i) \/ WrkRun(i) \/ WrkReset(i)
      <4>1. proc'[i].pc \in {"top", "running"} /\ proc'[i].port = p
        <5>1. CASE mRegister(i) \/ WrkRun(i)
          <6>1. \/ proc' = [proc EXCEPT ![i].pc = "top"]
                \/ proc' = [proc EXCEPT ![i].pc = "running"]
            BY <5>1 DEF mRegister, WrkRun
          <6> QED
            BY <1>x, <1>p, <6>1 DEF Proc
        <5>2. CASE WrkReset(i)
          <6>1. proc' = [proc EXCEPT ![i] = [proc[i] EXCEPT !.pc = "top", !.copy = NoRow]]
            BY <5>2 DEF WrkReset
          <6> QED
            BY <1>x, <1>p, <6>1 DEF Proc
        <5> QED
          BY <3>2, <5>1, <5>2
      <4> QED
        BY <1>a, <3>2, <4>1 DEF mRegister, WrkRun, WrkReset
    <3> QED
      BY <1>2, <3>1, <3>2
  <2>3. /\ \A q \in Port \ {p} : workers'[q] = workers[q]
        /\ workers'[p].uuid \in {NoReq, workers[p].uuid}
        /\ mRegister(i) \/ WrkReset(i) => workers'[p].uuid = NoReq
    <3>1. CASE mRegister(i)
      <4>1. workers' = [workers EXCEPT ![p] = FreshRow(i)]
        BY <1>p, <3>1 DEF mRegister
      <4> QED
        BY <1>x, <4>1 DEF FreshRow, NoRow
    <3>2. CASE WrkRun(i)
      <4> DEFINE row == [c EXCEPT !.status = "Running"]
      <4>1. row.uuid = c.uuid /\ mUpdateWorker(p, row)
        BY <1>p, <1>c, <3>2 DEF WrkRun, Row
      <4>2. c.uuid = workers[p].uuid /\ ~mRegister(i) /\ ~WrkReset(i)
        BY <1>a, <3>2 DEF WrkRun, AtWork, mRegister, WrkReset
      <4> QED
        BY <1>x, <4>1, <4>2 DEF mUpdateWorker
    <3>3. CASE WrkReset(i)
      <4> DEFINE row == [c EXCEPT !.status = "Idle", !.uuid = NoReq]
                 bad == [row EXCEPT !.state = "CORRUPTED"]
      <4>1. row.uuid = NoReq /\ bad.uuid = NoReq
        BY DEF Row
      <4>2. mUpdateWorker(p, row) \/ mUpdateWorker(p, bad)
        BY <1>p, <1>c, <3>3 DEF WrkReset
      <4>3. Present(p)
        BY <1>a, <3>3 DEF WrkReset, Registered, Present
      <4> HIDE DEF row, bad
      <4> QED
        BY <1>x, <4>1, <4>2, <4>3 DEF mUpdateWorker
    <3>4. CASE WrkDeregister(i)
      <4>1. ExitedRow(NoReq).uuid = NoReq /\ mUpdateWorker(p, ExitedRow(NoReq))
        BY <1>p, <3>4 DEF WrkDeregister, ExitedRow, NoRow
      <4>2. ~mRegister(i) /\ ~WrkReset(i)
        BY <3>4 DEF WrkDeregister, mRegister, WrkReset
      <4> QED
        BY <1>x, <4>1, <4>2 DEF mUpdateWorker
    <3> QED
      BY <1>2, <3>1, <3>2, <3>3, <3>4
  <2>4. ~Tried(p)'
    BY <2>1, <2>2, <2>3, Constants DEF Tried, Pending
  <2>5. \A r \in Req : Accounted(r)'
    BY <2>1, <2>2, <2>3, AccountedSame
  <2>6. Waiting(i)' /\ workers'[p].uuid # NoReq => Unstarted(workers[p].uuid)'
    <3>1. CASE WrkRun(i)
      <4>1. Waiting(i)
        BY <3>1 DEF WrkRun, Waiting, Registered
      <4> QED
        BY <1>a, <2>1, <2>3, <4>1 DEF Unstarted
    <3>2. CASE WrkDeregister(i)
      <4>1. proc'[i] = DeadProc
        BY <1>x, <3>2 DEF WrkDeregister
      <4> QED
        BY <1>b, <4>1 DEF Waiting, Registered
    <3> QED
      BY <1>2, <2>3, <3>1, <3>2
  <2> QED
    BY <1>o, <1>d, <2>1, <2>2, <2>3, <2>4, <2>5, <2>6, LifeWorkerStep
<1>3. CASE WrkLock(i)
  <2>1. /\ proc[i].pc = "running" /\ proc'[i].pc = "exec"
        /\ proc'[i].port = p /\ proc'[i].copy = c
        /\ UNCHANGED <<requests, workers, wm>>
        /\ \A j \in Pid \ {i} : proc'[j] = proc[j]
    BY <1>x, <1>p, <1>c, <1>3 DEF WrkLock, Proc
  <2>2. PICK r \in Req : r = c.uuid /\ r = workers[p].uuid
    BY <1>a, <2>1 DEF AtWork
  <2>3. requests[r].status # "none" /\ runs[r] = 0
    BY <1>a, <2>1, <2>2, Constants DEF Waiting, Registered, Unstarted
  <2>4. runs' = [runs EXCEPT ![r] = 1]
    <3>1. runs' = [runs EXCEPT ![r] = IF runs[r] < 2 THEN runs[r] + 1 ELSE runs[r]]
      BY <1>3, <1>c, <2>2 DEF WrkLock
    <3> QED
      BY <2>3, <3>1
  <2>5. runs'[r] = 1 /\ \A s \in Req \ {r} : runs'[s] = runs[s]
    BY <2>4 DEF Inv, TypeOK
  <2>6. Accounted(r)'
    BY <2>1, <2>2, <2>3, <2>5 DEF Accounted, Assigned, Pending, LifeInv, OutcomeInv
  <2>7. Kept(p)'
    <3>1. \A j \in Pid : Owner(j, p)' => j = i
      BY <1>a, <2>1 DEF Owner, Alive
    <3>2. workers[p].status # "Exited"
      BY <1>a, <2>1 DEF Registered
    <3> QED
      BY <1>a, <2>1, <3>1, <3>2 DEF Kept
  <2>8. /\ \A q \in Port \ {p} : workers'[q] = workers[q]
        /\ \A s \in Req : s # workers[p].uuid
              => requests'[s] = requests[s] /\ runs'[s] = runs[s]
        /\ runs'[proc'[i].copy.uuid] > 0
    BY <2>1, <2>2, <2>5
  <2> QED
    BY <1>o, <1>d, <2>1, <2>2, <2>6, <2>7, <2>8, LifeWorkerStep DEF Waiting
<1>4. CASE WrkFinish(i)
  <2>1. /\ proc[i].pc = "unlocked" /\ proc'[i].pc = "done"
        /\ proc'[i].port = p /\ proc'[i].copy = c
        /\ UNCHANGED <<runs, workers, wm>>
        /\ \A j \in Pid \ {i} : proc'[j] = proc[j]
    BY <1>x, <1>p, <1>c, <1>4 DEF WrkFinish, Proc
  <2>2. PICK r \in Req : r = c.uuid /\ r = workers[p].uuid
    BY <1>a, <2>1 DEF AtWork
  <2>3. requests' = [requests EXCEPT ![r] = [status |-> "Done", error |-> "own"]]
    BY <1>4, <1>c, <2>2 DEF WrkFinish
  <2>4. /\ requests'[r].status = "Done" /\ requests'[r].error = "own"
        /\ \A s \in Req \ {r} : requests'[s] = requests[s]
    BY <2>3 DEF Inv, TypeOK
  <2>5. Accounted(r)' /\ ~Tried(p)'
    <3>1. runs[r] > 0
      BY <1>c, <2>1, <2>2 DEF LifeInv, AttemptInv
    <3> QED
      BY <2>1, <2>2, <2>4, <3>1 DEF Accounted, Pending, Tried, LifeInv, OutcomeInv
  <2> QED
    BY <1>o, <1>d, <2>1, <2>2, <2>4, <2>5, LifeWorkerStep DEF Waiting
<1> QED
  BY <1>1, <1>2, <1>3, <1>4 DEF Worker

\* A step that changes no request and starts none preserves LifeInv when every
\* row from which one was started keeps it.
LEMMA LifeQuiet ==
    ASSUME StablePorts, Inv, LifeInv, UNCHANGED <<requests, runs>>,
           \A q \in Port : \/ ~Tried(q) /\ ~Tried(q)'
                          \/ /\ workers'[q].uuid = workers[q].uuid
                             /\ Tried(q) => Kept(q)',
           \A i \in Pid : proc'[i].pc \in {"exec", "unlocked", "done"} =>
               proc'[i].pc = proc[i].pc /\ proc'[i].copy = proc[i].copy,
           wm'.pc = "failreq" => Open(wm'.uuid),
           FreshInv'
    PROVE  LifeInv'
<1>1. ASSUME NEW r \in Req PROVE Accounted(r)'
  <2>1. Accounted(r)
    BY DEF LifeInv, OutcomeInv
  <2>2. ASSUME Pending(r), runs[r] > 0 PROVE Assigned(r)'
    <3>1. PICK q \in Port : workers[q].uuid = r
      BY <2>1, <2>2 DEF Accounted, Assigned
    <3>2. Tried(q)
      BY <2>2, <3>1 DEF Tried
    <3>3. workers'[q].uuid = r
      BY <3>1, <3>2
    <3> QED
      BY <3>3 DEF Assigned
  <2> QED
    BY <2>1, <2>2 DEF Accounted, Pending
<1>2. TriedInv'
  <2>1. \A q \in Port : workers'[q].uuid = workers[q].uuid => Tried(q)' = Tried(q)
    BY DEF Tried, Pending
  <2> QED
    BY <2>1 DEF TriedInv
<1>3. AttemptInv'
  BY DEF LifeInv, AttemptInv, Open, Pending
<1> QED
  BY <1>1, <1>2, <1>3 DEF LifeInv, OutcomeInv

\* So does FreshInv when the workers that wait then waited before, with the same
\* requests, and the dispatcher holds the same request.
LEMMA FreshSame ==
    ASSUME FreshInv, UNCHANGED <<requests, runs, dsp>>,
           \A i \in Pid : Waiting(i)' =>
               /\ Waiting(i) /\ proc'[i].port = proc[i].port
               /\ workers'[proc[i].port].uuid = workers[proc[i].port].uuid
    PROVE  FreshInv'
BY DEF FreshInv, DspHolds, Unstarted

\* What the dispatcher changes: at most the row it assigns its request to.
LEMMA DispatcherFrame ==
    ASSUME Inv, Dispatcher
    PROVE  /\ UNCHANGED <<requests, runs, proc, wm>>
           /\ \/ SameRows
              \/ \E p \in Port, r \in Req :
                    /\ workers[p].uuid = NoReq /\ ~Assigned(r)
                    /\ workers'[p].uuid \in {NoReq, r}
                    /\ \A q \in Port \ {p} : workers'[q] = workers[q]
<1> USE DEF dspFrame, Inv, PoolInv, SteadyInv
<1>0. /\ dsp \in Dsp /\ workers \in [Port -> Row]
      /\ ~DspResetList /\ ~DspReady /\ \A p \in Port : ~DspResetDelete(p)
  BY DEF TypeOK, DspInv, DspResetList, DspResetDelete, DspReady
<1>1. CASE \/ \E r \in Req : mGetPendingRequest(r)
           \/ mGetIdleWorkers \/ \E p \in Port : DspLoad(p)
  BY <1>1 DEF mGetPendingRequest, mGetIdleWorkers, DspLoad, SameRows
<1>2. CASE DspLock \/ DspRelease
  <2>1. dsp.port \in Port /\ "Dispatcher" \in Lock
    BY <1>2 DEF DspLock, DspRelease, PcTypes, Lock
  <2>2. \/ workers' = workers
        \/ mAcquireWorkerSyncLock(dsp.port, "Dispatcher")
        \/ mReleaseWorkerSyncLock(dsp.port, "Dispatcher")
    BY <1>2 DEF DspLock, DspRelease
  <2>3. SameRows
    BY <2>1, <2>2, LockSameRows DEF SameRows
  <2> QED
    BY <1>2, <2>3 DEF DspLock, DspRelease
<1>3. CASE DspAssign
  <2>1. PICK p \in Port, r \in Req : p = dsp.port /\ r = dsp.req
    BY <1>3 DEF DspAssign, PcTypes
  <2>2. workers[p].uuid = NoReq /\ ~Assigned(r)
    BY <1>3, <2>1 DEF DspAssign, DspInv, DspHolds
  <2>3. PICK row \in Row : row.uuid = r /\ mUpdateWorker(p, row)
    <3> DEFINE row == [dsp.copy EXCEPT !.uuid = dsp.req]
    <3>1. row \in Row /\ row.uuid = r
      BY <1>0, <2>1 DEF Dsp, Row, Uuid
    <3>2. mUpdateWorker(p, row)
      BY <1>3, <2>1 DEF DspAssign
    <3> HIDE DEF row
    <3> QED
      BY <3>1, <3>2
  <2>4. /\ workers'[p].uuid \in {NoReq, r}
        /\ \A q \in Port \ {p} : workers'[q] = workers[q]
    BY <1>0, <2>2, <2>3 DEF mUpdateWorker
  <2> QED
    BY <1>3, <2>2, <2>4 DEF DspAssign
<1> QED
  BY <1>0, <1>1, <1>2, <1>3 DEF Dispatcher

\* The dispatcher takes a request that has not been started, and hands no other
\* to a worker.
LEMMA FreshDispatcher ==
    ASSUME Inv, LifeInv, Dispatcher
    PROVE  FreshInv'
<1> USE DEF dspFrame, Inv, PoolInv, SteadyInv
<1>0. /\ dsp \in Dsp /\ workers \in [Port -> Row] /\ PcTypes
      /\ ~DspResetList /\ ~DspReady /\ \A p \in Port : ~DspResetDelete(p)
      /\ UNCHANGED <<requests, runs, proc>>
      /\ FreshInv
  BY DispatcherFrame DEF TypeOK, DspInv, DspResetList, DspResetDelete, DspReady, LifeInv
<1>1. DspHolds' => Unstarted(dsp.req)'
  <2>1. ASSUME NEW r \in Req, mGetPendingRequest(r) PROVE Unstarted(dsp.req)'
    <3>1. dsp'.req = r /\ Pending(r) /\ ~Assigned(r)
      BY <1>0, <2>1 DEF mGetPendingRequest, Dsp
    <3>2. Unstarted(r)
      BY <3>1 DEF LifeInv, OutcomeInv, Accounted, Pending, Unstarted
    <3> QED
      BY <1>0, <3>1, <3>2 DEF Unstarted
  <2>2. CASE \/ mGetIdleWorkers \/ \E p \in Port : DspLoad(p)
             \/ DspLock \/ DspAssign \/ DspRelease
    <3>i. IdleDsp.pc = "idle"
      BY DEF IdleDsp
    <3>1. CASE \/ mGetIdleWorkers \/ \E p \in Port : DspLoad(p)
      BY <1>0, <3>1, <3>i DEF mGetIdleWorkers, DspLoad, FreshInv, Unstarted, DspHolds, Dsp
    <3>2. CASE DspLock
      <4>1. \/ dsp' = IdleDsp
            \/ dsp'.pc \in {"locked", "pick", "scan"} /\ dsp'.req = dsp.req
        BY <1>0, <3>2 DEF DspLock, NextOfScan, Dsp
      <4> QED
        BY <1>0, <3>2, <3>i, <4>1 DEF DspLock, FreshInv, Unstarted, DspHolds
    <3>3. CASE DspAssign \/ DspRelease
      <4>1. dsp' = IdleDsp \/ dsp'.pc = "release"
        BY <1>0, <3>3 DEF DspAssign, DspRelease, Dsp
      <4> QED
        BY <3>i, <4>1 DEF DspHolds
    <3> QED
      BY <2>2, <3>1, <3>2, <3>3
  <2> QED
    BY <1>0, <2>1, <2>2 DEF Dispatcher
<1>2. ASSUME NEW i \in Pid, Waiting(i)', workers'[proc'[i].port].uuid # NoReq
      PROVE  Unstarted(workers[proc[i].port].uuid)'
  <2>1. PICK p \in Port : p = proc[i].port
    BY <1>0, <1>2 DEF Waiting, Registered, PcTypes, Alive
  <2>2. Waiting(i) /\ proc'[i] = proc[i]
    BY <1>0, <1>2 DEF Waiting, Registered
  <2>3. \/ workers'[p].uuid = workers[p].uuid
        \/ workers'[p].uuid = dsp.req /\ DspHolds
    <3>1. CASE DspAssign
      BY <1>0, <2>1, <3>1 DEF DspAssign, mUpdateWorker, DspHolds, PcTypes
    <3>2. CASE DspLock \/ DspRelease
      <4>1. dsp.port \in Port /\ "Dispatcher" \in Lock
        BY <3>2 DEF DspLock, DspRelease, PcTypes, Lock
      <4>2. \/ workers' = workers
            \/ mAcquireWorkerSyncLock(dsp.port, "Dispatcher")
            \/ mReleaseWorkerSyncLock(dsp.port, "Dispatcher")
        BY <3>2 DEF DspLock, DspRelease
      <4> QED
        BY <2>1, <4>1, <4>2, LockSameRows DEF SameRows
    <3>3. CASE \/ \E r \in Req : mGetPendingRequest(r)
               \/ mGetIdleWorkers \/ \E q \in Port : DspLoad(q)
      BY <3>3 DEF mGetPendingRequest, mGetIdleWorkers, DspLoad
    <3> QED
      BY <1>0, <3>1, <3>2, <3>3 DEF Dispatcher
  <2> QED
    BY <1>0, <1>2, <2>1, <2>2, <2>3 DEF FreshInv, Unstarted
<1> QED
  BY <1>1, <1>2 DEF FreshInv

\* The dispatcher preserves LifeInv: it assigns a request that is in no row, so
\* one that has not been started.
LEMMA LifeDispatcher ==
    ASSUME StablePorts, Inv, LifeInv, Dispatcher
    PROVE  LifeInv'
<1>1. UNCHANGED <<requests, runs, proc, wm>>
  BY DispatcherFrame
<1>2. ASSUME NEW q \in Port, Tried(q),
             workers'[q].uuid = workers[q].uuid,
             workers'[q].status = workers[q].status
      PROVE  Kept(q)'
  BY <1>1, <1>2 DEF LifeInv, TriedInv, Kept, Owner, Alive
<1>3. wm'.pc = "failreq" => Open(wm'.uuid)
  BY <1>1 DEF LifeInv, AttemptInv
<1>4. CASE SameRows
  BY <1>1, <1>2, <1>3, <1>4, FreshDispatcher, LifeQuiet DEF SameRows
<1>5. CASE \E p \in Port, r \in Req :
              /\ workers[p].uuid = NoReq /\ ~Assigned(r)
              /\ workers'[p].uuid \in {NoReq, r}
              /\ \A q \in Port \ {p} : workers'[q] = workers[q]
  <2>1. PICK p \in Port, r \in Req :
              /\ workers[p].uuid = NoReq /\ ~Assigned(r)
              /\ workers'[p].uuid \in {NoReq, r}
              /\ \A q \in Port \ {p} : workers'[q] = workers[q]
    BY <1>5
  <2>2. ~(Pending(r) /\ runs[r] > 0)
    BY <2>1 DEF LifeInv, OutcomeInv, Accounted
  <2>3. ~Tried(p) /\ ~Tried(p)'
    BY <1>1, <2>1, <2>2, Constants DEF Tried, Pending
  <2>4. ASSUME NEW q \in Port, q # p
        PROVE  workers'[q].uuid = workers[q].uuid /\ (Tried(q) => Kept(q)')
    BY <1>2, <2>1, <2>4
  <2>5. \A q \in Port : \/ ~Tried(q) /\ ~Tried(q)'
                       \/ /\ workers'[q].uuid = workers[q].uuid
                          /\ Tried(q) => Kept(q)'
    BY <2>3, <2>4
  <2>6. \A i \in Pid : proc'[i] = proc[i]
    BY <1>1
  <2> QED
    BY <1>1, <1>3, <2>5, <2>6, FreshDispatcher, LifeQuiet
<1> QED
  BY <1>4, <1>5, DispatcherFrame

\* Steps of the worker manager that change neither a row nor a process, beyond
\* sync locks and exit flags.
ManagerStep ==
    \/ CheckList \/ DeregLoad \/ DeregReadRequest \/ ResetList \/ CountIdle
    \/ TermListCorrupted \/ TermListIdle
    \/ TermLock \/ TermShutdown \/ TermRelease
    \/ \E p \in Port : \/ CheckHealthy(p) \/ CheckDead(p)
                       \/ CheckUnreachable(p) \/ TermLoad(p)

\* Such a step leaves alone what the processes and the rows say about requests.
LEMMA ManagerFrame ==
    ASSUME Inv, ManagerStep
    PROVE  SameRows /\ SameProcs /\ UNCHANGED <<requests, runs>>
<1> USE DEF Inv, PoolInv, wmFrame, dbVars
<1>0. /\ wm \in Wm /\ proc \in [Pid -> Proc]
      /\ workers' = workers => SameRows
      /\ proc' = proc => SameProcs
  BY DEF TypeOK, SameRows, SameProcs
<1>1. CASE \/ CheckList \/ DeregLoad \/ DeregReadRequest \/ ResetList \/ CountIdle
           \/ TermListCorrupted \/ TermListIdle
           \/ \E p \in Port : CheckHealthy(p) \/ TermLoad(p)
  BY <1>0, <1>1 DEF CheckList, DeregLoad, DeregReadRequest, ResetList, CountIdle,
     TermListCorrupted, TermListIdle, CheckHealthy, TermLoad
<1>2. CASE TermLock \/ TermRelease
  <2>1. wm.port \in Port /\ "Wrkmanager" \in Lock
    BY <1>2 DEF TermLock, TermRelease, PcTypes, Lock
  <2>2. \/ workers' = workers
        \/ mAcquireWorkerSyncLock(wm.port, "Wrkmanager")
        \/ mReleaseWorkerSyncLock(wm.port, "Wrkmanager")
    BY <1>2 DEF TermLock, TermRelease
  <2>3. SameRows
    BY <1>0, <2>1, <2>2, LockSameRows
  <2> QED
    BY <1>0, <1>2, <2>3 DEF TermLock, TermRelease
<1>3. CASE TermShutdown \/ \E p \in Port : CheckDead(p)
  <2>1. wm.pc = "shutdown" => wm.port \in Port
    BY DEF PcTypes
  <2>2. SameProcs
    BY <1>3, <2>1, TypeShutdown DEF TermShutdown, CheckDead, SameProcs, TypeInv
  <2> QED
    BY <1>0, <1>3, <2>2 DEF TermShutdown, CheckDead
<1>4. CASE \E p \in Port : CheckUnreachable(p)
  <2>1. PICK p \in Port : CheckUnreachable(p)
    BY <1>4
  <2>2. wm.snap[p] \in Pid
    BY <1>0, <2>1 DEF CheckUnreachable, Alive, Wm
  <2>3. SameProcs
    BY <1>0, <2>1, <2>2 DEF CheckUnreachable, SameProcs, Proc
  <2> QED
    BY <1>0, <2>1, <2>3 DEF CheckUnreachable
<1> QED
  BY <1>1, <1>2, <1>3, <1>4 DEF ManagerStep

\* Where the worker manager stands after such a step, as far as LifeInv asks.
LEMMA ManagerPlace ==
    ASSUME Inv, ManagerStep
    PROVE  \/ wm'.pc \notin {"dereg", "readreq", "failreq", "resetting"}
              /\ (wm.pc \in {"readreq", "failreq"} => ~Pending(wm.uuid))
           \/ /\ wm.pc = "load" /\ wm'.pc = "dereg" /\ wm'.port = wm.port
              /\ wm'.uuid = workers[wm.port].uuid
           \/ /\ wm.pc = "readreq" /\ wm'.pc = "failreq" /\ wm'.port = wm.port
              /\ wm'.uuid = wm.uuid /\ Pending(wm.uuid)
           \/ /\ wm.pc \notin {"readreq", "failreq"} /\ wm'.pc = "resetting"
              /\ wm'.todo = ExitedPorts
<1>0. wm \in Wm
  BY DEF Inv, TypeOK
<1>b. BootWm.pc = "boot"
  BY DEF BootWm
<1> USE DEF Wm
<1>1. CASE \/ CheckList \/ CountIdle \/ TermListCorrupted
           \/ \E p \in Port : \/ CheckHealthy(p) \/ CheckDead(p)
                              \/ CheckUnreachable(p)
  <2>1. CASE CheckList
    <3>1. wm'.pc = "checking" /\ wm.pc \in {"resetting", "terminating"}
      BY <1>0, <2>1 DEF CheckList, WmPhaseDone
    <3> QED
      BY <3>1
  <2>2. CASE \E p \in Port : CheckHealthy(p) \/ CheckDead(p) \/ CheckUnreachable(p)
    <3>1. wm'.pc \in {"checking", "load", "kill"} /\ wm.pc = "checking"
      BY <1>0, <2>2 DEF CheckHealthy, CheckDead, CheckUnreachable, Checking, Checked
    <3> QED
      BY <3>1
  <2>3. CASE CountIdle \/ TermListCorrupted
    <3>1. wm'.pc \in {"start", "terminating"} /\ wm.pc \in {"resetting", "start"}
      BY <1>0, <2>3 DEF CountIdle, TermListCorrupted, WmPhaseDone, StartDone
    <3> QED
      BY <3>1
  <2> QED
    BY <1>1, <2>1, <2>2, <2>3
<1>2. CASE TermListIdle
  <2>1. PICK S \in SUBSET Port : wm' = [wm EXCEPT !.phase = "idle", !.todo = S]
    BY <1>2 DEF TermListIdle, Unassigned
  <2> QED
    BY <1>0, <1>2, <2>1 DEF TermListIdle, WmPhaseDone
<1>3. CASE \/ TermLock \/ TermShutdown \/ TermRelease
           \/ \E p \in Port : TermLoad(p)
  <2>1. wm'.pc \in {"boot", "lock", "shutdown", "poll", "terminating"}
    <3>1. CASE TermLock
      <4>1. \/ wm' = BootWm
            \/ wm' = [wm EXCEPT !.pc = IF wm.uuid = NoReq THEN "shutdown" ELSE "poll"]
            \/ wm' = [wm EXCEPT !.pc = "terminating", !.port = 0, !.uuid = NoReq]
        BY <3>1 DEF TermLock, WmRestart, WmGoto
      <4> QED
        BY <1>0, <1>b, <4>1
    <3>2. CASE TermShutdown \/ TermRelease
      BY <1>0, <3>2 DEF TermShutdown, TermRelease, WmGoto
    <3>3. ASSUME NEW p \in Port, TermLoad(p)
          PROVE  wm'.pc \in {"boot", "lock"}
      <4>1. \/ wm' = BootWm
            \/ wm' = [wm EXCEPT !.pc = "lock", !.port = p, !.todo = @ \ {p},
                                !.uuid = workers[p].uuid]
        BY <3>3 DEF TermLoad, WmRestart
      <4> QED
        BY <1>0, <1>b, <4>1
    <3> QED
      BY <1>3, <3>1, <3>2, <3>3
  <2>2. wm.pc \in {"lock", "shutdown", "poll", "terminating"}
    BY <1>3 DEF TermLock, TermShutdown, TermRelease, TermLoad
  <2> QED
    BY <2>1, <2>2
<1>4. CASE DeregLoad
  BY <1>0, <1>4 DEF DeregLoad, Deregistered
<1>5. CASE DeregReadRequest
  BY <1>0, <1>5 DEF DeregReadRequest, Deregistered, WmGoto
<1>6. CASE ResetList
  BY <1>0, <1>6 DEF ResetList, WmPhaseDone
<1> QED
  BY <1>1, <1>2, <1>3, <1>4, <1>5, <1>6 DEF ManagerStep

\* Those steps preserve LifeInv: rows are listed for deletion only after their
\* requests have been failed.
LEMMA LifeManagerLocal ==
    ASSUME StablePorts, Inv, LifeInv, ManagerStep
    PROVE  LifeInv'
<1>1. SameRows /\ SameProcs /\ UNCHANGED <<requests, runs>>
  BY ManagerFrame
<1>2. ASSUME NEW q \in Port, Tried(q) PROVE Kept(q)'
  <2>1. Kept(q) /\ workers[q].uuid \in Req /\ Pending(workers[q].uuid)
    BY <1>2 DEF LifeInv, TriedInv, Tried
  <2>2. wm.pc \in {"readreq", "failreq"} => workers[wm.port].uuid = wm.uuid
    BY DEF Inv, PoolInv, SteadyInv, WmInv
  <2>3. /\ workers'[q].status = workers[q].status
        /\ \A i \in Pid : Owner(i, q)' => proc'[i].pc \in {"exec", "unlocked"}
    BY <1>1, <2>1 DEF Kept, SameRows, SameProcs, Owner, Alive
  <2> QED
    BY <2>1, <2>2, <2>3, ManagerPlace, Constants DEF Kept, ExitedPorts
<1>3. wm'.pc = "failreq" => Open(wm'.uuid)
  BY ManagerPlace DEF Open
<1>4. FreshInv'
  <2>1. dsp' = dsp
    BY DEF ManagerStep, CheckList, DeregLoad, DeregReadRequest, ResetList, CountIdle,
       TermListCorrupted, TermListIdle, TermLock, TermShutdown, TermRelease,
       CheckHealthy, CheckDead, CheckUnreachable, TermLoad, wmFrame
  <2>2. ASSUME NEW i \in Pid, Waiting(i)'
        PROVE  /\ Waiting(i) /\ proc'[i].port = proc[i].port
               /\ workers'[proc[i].port].uuid = workers[proc[i].port].uuid
    <3>1. Waiting(i) /\ proc'[i].port = proc[i].port
      BY <1>1, <2>2 DEF SameProcs, Waiting, Registered
    <3>2. proc[i].port \in Port
      BY <3>1 DEF Waiting, Registered, Alive, Inv, PoolInv, PcTypes
    <3> QED
      BY <1>1, <3>1, <3>2 DEF SameRows
  <2> QED
    BY <1>1, <2>1, <2>2, FreshSame DEF LifeInv
<1> QED
  BY <1>1, <1>2, <1>3, <1>4, LifeQuiet DEF SameRows, SameProcs

\* Steps of the worker manager that write a row, fail a request, kill a worker
\* or start one preserve LifeInv.
LEMMA LifeManagerStores ==
    ASSUME StablePorts, Inv, LifeInv,
           \/ CheckKill \/ DeregRow \/ DeregFailRequest \/ StartWait \/ StartGiveUp
           \/ \E p \in Port : ResetDelete(p) \/ \E i \in Pid : StartWorker(p, i)
    PROVE  LifeInv'
<1> USE DEF wmFrame, dbVars
<1>0. /\ wm \in Wm /\ workers \in [Port -> Row] /\ proc \in [Pid -> Proc]
      /\ PcTypes /\ PortInv /\ RowInv /\ WmInv /\ AtMostOneRow
  BY DEF Inv, TypeOK, PoolInv, SteadyInv
<1>q. ASSUME NEW q \in Port, Tried(q), workers'[q] = workers[q],
             \A i \in Pid : Owner(i, q)' => proc'[i] = proc[i],
             wm.pc \notin {"readreq", "failreq"} \/ wm.port # q,
             wm'.pc # "dereg", wm'.pc = "resetting" => wm.pc = "resetting",
             wm'.todo \subseteq wm.todo
      PROVE  Kept(q)'
  <2>1. Kept(q)
    BY <1>q DEF LifeInv, TriedInv
  <2>2. \A i \in Pid : Owner(i, q)' => Owner(i, q)
    BY <1>q DEF Owner, Alive
  <2> QED
    BY <1>q, <2>1, <2>2 DEF Kept
<1>f. ASSUME UNCHANGED <<requests, runs>>,
             \A i \in Pid : Waiting(i)' => proc'[i] = proc[i],
             \A i \in Pid, q \in Port : Owner(i, q) /\ Waiting(i)
                  => workers'[q].uuid = workers[q].uuid
      PROVE  FreshInv'
  <2>1. dsp' = dsp
    BY DEF CheckKill, DeregRow, DeregFailRequest, StartWait, StartGiveUp, ResetDelete,
       StartWorker
  <2>2. ASSUME NEW i \in Pid, Waiting(i)'
        PROVE  /\ Waiting(i) /\ proc'[i].port = proc[i].port
               /\ workers'[proc[i].port].uuid = workers[proc[i].port].uuid
    <3>1. Waiting(i) /\ Alive(i) /\ proc'[i] = proc[i]
      BY <1>f, <2>2 DEF Waiting, Registered, Alive
    <3>2. PICK q \in Port : q = proc[i].port
      BY <1>0, <3>1 DEF PcTypes
    <3> QED
      BY <1>f, <3>1, <3>2 DEF Owner
  <2> QED
    BY <1>f, <2>1, <2>2, FreshSame DEF LifeInv
<1>1. CASE CheckKill
  <2>1. PICK k \in Port, d \in Pid \cup {0} : k = wm.port /\ d = wm.snap[k]
    BY <1>0, <1>1 DEF CheckKill, PcTypes, Wm
  <2>2. /\ wm.pc = "kill" /\ wm'.pc = "checking" /\ wm'.todo = wm.todo
        /\ UNCHANGED <<requests, workers, runs>>
    BY <1>0, <1>1, <2>1 DEF CheckKill, Wm
  <2>3. \A i \in Pid : proc'[i] = proc[i] \/ proc'[i].pc = "dead"
    <3>1. DeadProc.pc = "dead"
      BY DEF DeadProc, UnbornProc
    <3>2. \/ proc' = proc
          \/ proc' = [proc EXCEPT ![d] = DeadProc] /\ d \in Pid
      BY <1>1, <2>1 DEF CheckKill, Alive
    <3> QED
      BY <1>0, <3>1, <3>2
  <2>4. \A q \in Port : Tried(q) => Kept(q)'
    <3>1. \A i \in Pid, q \in Port : Owner(i, q)' => proc'[i] = proc[i]
      BY <2>3 DEF Owner, Alive
    <3> QED
      BY <1>q, <2>2, <3>1
  <2>5. \A i \in Pid : proc'[i].pc \in {"exec", "unlocked", "done"} =>
           proc'[i].pc = proc[i].pc /\ proc'[i].copy = proc[i].copy
    BY <2>3
  <2>6. FreshInv'
    <3>1. \A i \in Pid : Waiting(i)' => proc'[i] = proc[i]
      BY <2>3 DEF Waiting, Registered
    <3> QED
      BY <1>f, <2>2, <3>1
  <2> QED
    BY <2>2, <2>4, <2>5, <2>6, LifeQuiet
<1>2. CASE DeregRow
  <2>1. PICK p \in Port, u \in Uuid : p = wm.port /\ u = wm.uuid
    BY <1>0, <1>2 DEF DeregRow, PcTypes, Wm
  <2>2. /\ wm.pc = "dereg" /\ u \in {NoReq, workers[p].uuid}
        /\ \A i \in Pid : ~Owner(i, p)
        /\ ~Present(p) => workers[p].uuid = NoReq
        /\ Tried(p) => u # NoReq
    BY <1>0, <1>2, <2>1 DEF DeregRow, WmInv, Abandoned, RowInv, LifeInv, TriedInv, Kept
  <2>3. /\ \A q \in Port \ {p} : workers'[q] = workers[q]
        /\ workers'[p].uuid = u
    <3>1. ExitedRow(u).uuid = u
      BY DEF ExitedRow, NoRow
    <3>2. mUpdateWorker(p, ExitedRow(u))
      BY <1>2, <2>1 DEF DeregRow
    <3> QED
      BY <1>0, <2>2, <3>1, <3>2 DEF mUpdateWorker
  <2>4. /\ \/ u = NoReq /\ wm'.pc = "checking"
           \/ u # NoReq /\ wm'.pc = "readreq" /\ wm'.port = p
        /\ wm'.todo = wm.todo
        /\ UNCHANGED <<requests, runs, proc>>
    BY <1>0, <1>2, <2>1 DEF DeregRow, Deregistered, WmGoto, Wm
  <2>5. \/ ~Tried(p) /\ ~Tried(p)'
        \/ workers'[p].uuid = workers[p].uuid /\ (Tried(p) => Kept(p)')
    <3>1. CASE u = NoReq
      BY <2>2, <2>3, <3>1, Constants DEF Tried
    <3>2. CASE u # NoReq
      BY <2>2, <2>3, <2>4, <3>2 DEF Kept, Owner, Alive
    <3> QED
      BY <3>1, <3>2
  <2>6. ASSUME NEW q \in Port, q # p
        PROVE  workers'[q].uuid = workers[q].uuid /\ (Tried(q) => Kept(q)')
    BY <1>q, <2>2, <2>3, <2>4, <2>6
  <2>7. \A q \in Port : \/ ~Tried(q) /\ ~Tried(q)'
                       \/ /\ workers'[q].uuid = workers[q].uuid
                          /\ Tried(q) => Kept(q)'
    BY <2>5, <2>6
  <2>8. \A i \in Pid : proc'[i] = proc[i]
    BY <2>4
  <2>9. FreshInv'
    BY <1>f, <2>2, <2>4, <2>6, <2>8
  <2> QED
    BY <2>4, <2>7, <2>8, <2>9, LifeQuiet
<1>3. CASE DeregFailRequest
  <2>1. PICK p \in Port, r \in Req : p = wm.port /\ r = wm.uuid
    BY <1>0, <1>3 DEF DeregFailRequest, PcTypes
  <2>2. /\ wm.pc = "failreq" /\ workers[p].uuid = r
        /\ wm'.pc = "checking" /\ wm'.todo = wm.todo
        /\ UNCHANGED <<workers, proc, runs>>
    BY <1>0, <1>3, <2>1 DEF DeregFailRequest, Deregistered, WmInv, Wm
  <2>3. /\ requests'[r].status = "Done" /\ requests'[r].error = "709"
        /\ \A s \in Req \ {r} : requests'[s] = requests[s]
    BY <1>3, <2>1 DEF DeregFailRequest, mFailRequest, Inv, TypeOK
  <2>4. OutcomeInv'
    <3>1. ASSUME NEW s \in Req PROVE Accounted(s)'
      <4>1. Accounted(s)
        BY DEF LifeInv, OutcomeInv
      <4> QED
        BY <2>2, <2>3, <4>1 DEF Accounted, Pending, Assigned
    <3> QED
      BY <3>1 DEF OutcomeInv
  <2>5. ASSUME NEW q \in Port, Tried(q)' PROVE Kept(q)'
    <3>1. Tried(q) /\ q # p
      BY <2>2, <2>3, <2>5 DEF Tried, Pending
    <3> QED
      BY <1>q, <2>1, <2>2, <3>1
  <2>6. AttemptInv'
    BY <1>0, <2>2, <2>3 DEF LifeInv, AttemptInv, PcTypes, AtWork
  <2>7. FreshInv'
    <3>1. dsp' = dsp
      BY <1>3 DEF DeregFailRequest
    <3>2. \A s \in Req : Unstarted(s) => Unstarted(s)'
      BY <2>2, <2>3 DEF Unstarted
    <3>3. DspHolds => dsp.req \in Req
      BY <1>0 DEF DspHolds, PcTypes
    <3>4. \A i \in Pid : Waiting(i) => workers[proc[i].port].uuid \in Uuid
      BY <1>0 DEF Waiting, Registered, PcTypes, Alive, Row
    <3> QED
      BY <2>2, <3>1, <3>2, <3>3, <3>4
         DEF LifeInv, FreshInv, DspHolds, Waiting, Registered, Uuid
  <2> QED
    BY <2>4, <2>5, <2>6, <2>7 DEF LifeInv, TriedInv
<1>4. CASE StartWait
  <2>1. /\ wm.pc = "wait" /\ wm'.pc = "start" /\ wm'.todo = wm.todo
        /\ UNCHANGED <<requests, workers, proc, runs>>
    BY <1>0, <1>4 DEF StartWait, Wm
  <2>2. \A q \in Port : Tried(q) => Kept(q)'
    BY <1>q, <2>1
  <2>3. FreshInv'
    BY <1>f, <2>1
  <2> QED
    BY <2>1, <2>2, <2>3, LifeQuiet
<1>5. CASE StartGiveUp
  BY <1>0, <1>5 DEF StartGiveUp, Spend, PortInv
<1>6. ASSUME NEW p \in Port, ResetDelete(p) PROVE LifeInv'
  <2>1. /\ wm.pc = "resetting" /\ wm'.pc = "resetting" /\ p \in wm.todo
        /\ wm'.todo = wm.todo \ {p}
        /\ UNCHANGED <<requests, proc, runs>>
    BY <1>0, <1>6 DEF ResetDelete, Wm
  <2>2. /\ workers'[p].uuid = NoReq
        /\ \A q \in Port \ {p} : workers'[q] = workers[q]
    BY <1>6 DEF ResetDelete, mDelWorkerEntry, NoRow
  <2>3. ~Tried(p) /\ ~Tried(p)'
    BY <2>1, <2>2, Constants DEF LifeInv, TriedInv, Kept, Tried
  <2>4. ASSUME NEW q \in Port, q # p
        PROVE  workers'[q].uuid = workers[q].uuid /\ (Tried(q) => Kept(q)')
    BY <1>q, <2>1, <2>2, <2>4
  <2>5. \A q \in Port : \/ ~Tried(q) /\ ~Tried(q)'
                       \/ /\ workers'[q].uuid = workers[q].uuid
                          /\ Tried(q) => Kept(q)'
    BY <2>3, <2>4
  <2>6. \A i \in Pid : proc'[i] = proc[i]
    BY <2>1
  <2>7. FreshInv'
    <3>1. \A i \in Pid : ~Owner(i, p)
      BY <1>0, <2>1 DEF WmInv, Abandoned
    <3> QED
      BY <1>f, <2>1, <2>2, <3>1
  <2> QED
    BY <2>1, <2>5, <2>6, <2>7, LifeQuiet
<1>7. ASSUME NEW p \in Port, NEW i \in Pid, StartWorker(p, i) PROVE LifeInv'
  <2>1. /\ wm.pc = "start" /\ wm'.pc = "wait" /\ wm'.todo = wm.todo
        /\ ~Present(p) /\ UNCHANGED <<requests, workers, runs>>
    BY <1>0, <1>7 DEF StartWorker, mGetPort, FreePort, Wm
  <2>2. /\ proc'[i].pc = "boot" /\ proc'[i].port = p
        /\ \A j \in Pid \ {i} : proc'[j] = proc[j]
    <3>1. proc' = [proc EXCEPT ![i] = [proc[i] EXCEPT !.pc = "boot", !.port = p]]
      BY <1>7 DEF StartWorker
    <3> QED
      BY <1>0, <3>1 DEF Proc
  <2>3. ~Tried(p)
    BY <1>0, <2>1, Constants DEF RowInv, Tried
  <2>4. ASSUME NEW q \in Port, Tried(q) PROVE Kept(q)'
    <3>1. \A j \in Pid : Owner(j, q)' => proc'[j] = proc[j]
      BY <2>2, <2>3, <2>4 DEF Owner
    <3> QED
      BY <1>q, <2>1, <2>4, <3>1
  <2>5. \A j \in Pid : proc'[j].pc \in {"exec", "unlocked", "done"} =>
           proc'[j].pc = proc[j].pc /\ proc'[j].copy = proc[j].copy
    BY <2>2
  <2>6. FreshInv'
    <3>1. \A j \in Pid : Waiting(j)' => proc'[j] = proc[j]
      BY <2>2 DEF Waiting, Registered
    <3> QED
      BY <1>f, <2>1, <3>1
  <2> QED
    BY <2>1, <2>4, <2>5, <2>6, LifeQuiet
<1> QED
  BY <1>1, <1>2, <1>3, <1>4, <1>5, <1>6, <1>7

\* A step that only inserts requests or reports them Done preserves FreshInv.
LEMMA FreshRequests ==
    ASSUME Inv, FreshInv, UNCHANGED <<workers, proc, dsp, runs>>,
           \A r \in Req : requests[r].status # "none" => requests'[r].status # "none"
    PROVE  FreshInv'
<1>1. \A r \in Req : Unstarted(r) => Unstarted(r)'
  BY DEF Unstarted
<1>2. DspHolds => dsp.req \in Req
  BY DEF DspHolds, Inv, PoolInv, PcTypes
<1>3. \A i \in Pid : Waiting(i) => workers[proc[i].port].uuid \in Uuid
  BY DEF Waiting, Registered, Alive, Row, Inv, TypeOK, PoolInv, PcTypes
<1> QED
  BY <1>1, <1>2, <1>3 DEF FreshInv, DspHolds, Waiting, Registered, Uuid

\* New requests, idle timeouts and the supervisor preserve LifeInv; with stable
\* ports the rest of Next cannot happen.
LEMMA LifeRest ==
    ASSUME StablePorts, Inv, LifeInv,
           \/ \E r \in Req : mRegisterRequest(r) \/ dispatchJobToWorker(r)
           \/ \E p \in Port : IdleTimeout(p)
           \/ DspCrash \/ WmCrash \/ Supervisor \/ UNCHANGED vars
    PROVE  LifeInv'
<1> USE DEF dbVars
<1>1. ASSUME NEW r \in Req, mRegisterRequest(r) PROVE LifeInv'
  <2>1. /\ UNCHANGED <<workers, proc, wm, runs>> /\ requests[r].status = "none"
        /\ requests'[r].status = "Pending" /\ requests'[r].error = requests[r].error
        /\ \A s \in Req \ {r} : requests'[s] = requests[s]
    BY <1>1 DEF mRegisterRequest, Inv, TypeOK
  <2>2. runs[r] = 0
    BY <2>1 DEF LifeInv, OutcomeInv, Accounted
  <2>3. OutcomeInv'
    <3>1. ASSUME NEW s \in Req PROVE Accounted(s)'
      <4>1. Accounted(s)
        BY DEF LifeInv, OutcomeInv
      <4> QED
        BY <2>1, <2>2, <4>1 DEF Accounted, Pending, Assigned
    <3> QED
      BY <3>1 DEF OutcomeInv
  <2>4. TriedInv'
    <3>1. \A p \in Port : Tried(p)' => Tried(p)
      BY <2>1, <2>2 DEF Tried, Pending
    <3> QED
      BY <2>1, <3>1 DEF LifeInv, TriedInv, Kept, Owner, Alive
  <2>5. AttemptInv'
    BY <2>1 DEF LifeInv, AttemptInv, Open, Pending, Inv, PoolInv, PcTypes, AtWork
  <2>6. FreshInv'
    <3>1. dsp' = dsp
      BY <1>1 DEF mRegisterRequest
    <3> QED
      BY <2>1, <3>1, FreshRequests DEF LifeInv
  <2> QED
    BY <2>3, <2>4, <2>5, <2>6 DEF LifeInv
<1>2. CASE \/ \E r \in Req : dispatchJobToWorker(r)
           \/ \E p \in Port : IdleTimeout(p)
           \/ mOrphanRequests \/ UNCHANGED vars
  <2>1. UNCHANGED <<requests, workers, proc, dsp, wm, runs>>
    BY <1>2 DEF dispatchJobToWorker, IdleTimeout, mOrphanRequests, vars
  <2>2. \A q \in Port : Tried(q) => Kept(q)'
    BY <2>1 DEF LifeInv, TriedInv, Kept, Owner, Alive
  <2>3. wm'.pc = "failreq" => Open(wm'.uuid)
    BY <2>1 DEF LifeInv, AttemptInv
  <2>4. FreshInv'
    BY <2>1, FreshRequests DEF LifeInv
  <2> QED
    BY <2>1, <2>2, <2>3, <2>4, LifeQuiet
<1>3. ASSUME NEW r \in Req, CleanOrphan(r) PROVE LifeInv'
  <2>1. /\ UNCHANGED <<workers, proc, dsp, wm, runs>> /\ SupervisorEnabled
        /\ requests'[r].status = "Done" /\ requests'[r].error = "709"
        /\ \A s \in Req \ {r} : requests'[s] = requests[s]
    BY <1>3 DEF CleanOrphan, mFailRequest, Inv, TypeOK, PoolInv, SteadyInv, PortInv
  <2>2. OutcomeInv'
    <3>1. ASSUME NEW s \in Req PROVE Accounted(s)'
      <4>1. Accounted(s)
        BY DEF LifeInv, OutcomeInv
      <4> QED
        BY <2>1, <4>1 DEF Accounted, Pending, Assigned
    <3> QED
      BY <3>1 DEF OutcomeInv
  <2>3. TriedInv'
    <3>1. \A p \in Port : Tried(p)' => Tried(p)
      BY <2>1 DEF Tried, Pending
    <3> QED
      BY <2>1, <3>1 DEF LifeInv, TriedInv, Kept, Owner, Alive
  <2>4. AttemptInv'
    BY <2>1 DEF LifeInv, AttemptInv, Open, Pending, Inv, PoolInv, PcTypes, AtWork
  <2>5. FreshInv'
    BY <2>1, FreshRequests DEF LifeInv
  <2> QED
    BY <2>2, <2>3, <2>4, <2>5 DEF LifeInv
<1>4. ~DspCrash /\ ~WmCrash
  BY DEF StablePorts, DspCrash, WmCrash
<1> QED
  BY <1>1, <1>2, <1>3, <1>4 DEF Supervisor

\* LifeInv holds initially.
LEMMA LifeInit == ASSUME Init PROVE LifeInv
<1>1. \A p \in Port : workers[p].uuid = NoReq
  BY DEF Init, NoRow
<1>2. /\ \A i \in Pid : proc[i].pc = "unborn"
      /\ wm.pc = "boot" /\ dsp.pc = "idle"
  BY DEF Init, UnbornProc, BootWm, IdleDsp
<1>3. \A r \in Req : /\ requests[r].status = "none" /\ requests[r].error = "Undef"
                    /\ runs[r] = 0
  BY DEF Init
<1> QED
  BY <1>1, <1>2, <1>3, Constants
     DEF LifeInv, OutcomeInv, Accounted, Pending, TriedInv, Tried, AttemptInv,
         FreshInv, DspHolds, Waiting, Registered

\* The inductive step.
LEMMA LifeNext == ASSUME StablePorts, Inv, LifeInv, [Next]_vars PROVE LifeInv'
<1>1. CASE \E i \in Pid : Worker(i) \/ WrkCrash(i)
  BY <1>1, LifeWorker
<1>2. CASE Dispatcher
  BY <1>2, LifeDispatcher
<1>3. CASE WorkerManager
  BY <1>3, LifeManagerLocal, LifeManagerStores DEF WorkerManager, ManagerStep
<1>4. CASE \/ \E r \in Req : mRegisterRequest(r) \/ dispatchJobToWorker(r)
           \/ \E p \in Port : IdleTimeout(p)
           \/ DspCrash \/ WmCrash \/ Supervisor \/ UNCHANGED vars
  BY <1>4, LifeRest
<1> QED
  BY <1>1, <1>2, <1>3, <1>4 DEF Next

\* With stable ports a row from which a request was started keeps it until it is
\* Done, and is neither reset nor deleted before the worker manager has failed the
\* request; what the dispatcher or a waiting worker holds has not been started.
THEOREM LifecycleInvariant == ASSUME StablePorts PROVE Spec => [](Inv /\ LifeInv)
<1>1. Init => Inv /\ LifeInv
  BY InitInv, LifeInit
<1>2. Inv /\ LifeInv /\ [Next]_vars => Inv' /\ LifeInv'
  BY NextInv, LifeNext
<1> QED
  BY <1>1, <1>2, PTL DEF Spec

\* No request is started twice, for any number of requests, ports, processes, worker
\* crashes, failed probes and idle timeouts, the supervisor's cleanup on or off.
THEOREM StartedAtMostOnce == ASSUME StablePorts PROVE Spec => []StartedOnce
<1>1. LifeInv => StartedOnce
  BY DEF LifeInv, OutcomeInv, Accounted, StartedOnce
<1> QED
  BY <1>1, LifecycleInvariant, PTL
-----------------------------------------------------------------------------
(* The refinement of RequestLifecycle.                                      *)

\* No step makes an inserted request one that is not there.
LEMMA OrphanNext ==
    ASSUME Inv, OrphanInv, [Next]_vars PROVE OrphanInv'
<1> USE DEF dbVars
<1>1. ASSUME UNCHANGED <<requests, sup>> PROVE OrphanInv'
  BY <1>1 DEF OrphanInv
<1>2. ASSUME NEW r \in Req, UNCHANGED sup, mFailRequest(r) PROVE OrphanInv'
  <2>1. requests'[r].status = "Done" /\ \A s \in Req \ {r} : requests'[s] = requests[s]
    BY <1>2 DEF mFailRequest, Inv, TypeOK
  <2>2. sup \subseteq Req
    BY DEF Inv, TypeOK
  <2> QED
    BY <1>2, <2>1, <2>2 DEF OrphanInv
<1>3. ASSUME NEW i \in Pid, Worker(i) \/ WrkCrash(i) PROVE OrphanInv'
  <2>1. CASE WrkFinish(i)
    <3>1. PICK r \in Req : r = proc[i].copy.uuid
      BY <2>1 DEF WrkFinish, Inv, PoolInv, PcTypes, AtWork
    <3>2. requests' = [requests EXCEPT ![r] = [status |-> "Done", error |-> "own"]]
      BY <2>1, <3>1 DEF WrkFinish
    <3>3. requests'[r].status = "Done" /\ \A s \in Req \ {r} : requests'[s] = requests[s]
      BY <3>2 DEF Inv, TypeOK
    <3>4. sup' = sup /\ sup \subseteq Req
      BY <2>1 DEF WrkFinish, wrkFrame, Inv, TypeOK
    <3> QED
      BY <3>3, <3>4 DEF OrphanInv
  <2>2. CASE WrkBindFails(i) \/ mRegister(i) \/ WrkTop(i) \/ WrkLoad(i) \/ WrkRun(i)
    BY <1>1, <2>2 DEF WrkBindFails, mRegister, WrkTop, WrkLoad, WrkRun, wrkFrame
  <2>3. CASE \/ WrkLock(i) \/ WrkUnlock(i) \/ WrkReset(i) \/ WrkDeregister(i)
             \/ WrkCrash(i)
    BY <1>1, <2>3
       DEF WrkLock, WrkUnlock, WrkReset, WrkDeregister, WrkCrash, wrkFrame
  <2> QED
    BY <1>3, <2>1, <2>2, <2>3 DEF Worker
<1>4. CASE WorkerManager
  <2>1. CASE DeregFailRequest
    <3>1. wm.uuid \in Req /\ sup' = sup
      BY <2>1 DEF DeregFailRequest, wmFrame, Inv, PoolInv, PcTypes
    <3> QED
      BY <1>2, <2>1, <3>1 DEF DeregFailRequest
  <2>2. CASE ManagerStep
    <3>1. requests' = requests
      BY <2>2, ManagerFrame
    <3>2. sup' = sup
      BY <2>2 DEF ManagerStep, CheckList, DeregLoad, DeregReadRequest, ResetList,
         CountIdle, TermListCorrupted, TermListIdle, TermLock, TermShutdown,
         TermRelease, CheckHealthy, CheckDead, CheckUnreachable, TermLoad, wmFrame
    <3> QED
      BY <1>1, <3>1, <3>2
  <2>3. CASE \/ CheckKill \/ DeregRow \/ StartWait \/ StartGiveUp
             \/ \E p \in Port : ResetDelete(p) \/ \E i \in Pid : StartWorker(p, i)
    BY <1>1, <2>3
       DEF CheckKill, DeregRow, StartWait, StartGiveUp, ResetDelete, StartWorker, wmFrame
  <2> QED
    BY <1>4, <2>1, <2>2, <2>3 DEF WorkerManager, ManagerStep
<1>5. CASE Dispatcher
  <2>1. requests' = requests
    BY <1>5, DispatcherFrame
  <2>2. sup' = sup
    BY <1>5 DEF Dispatcher, mGetPendingRequest, mGetIdleWorkers, DspLoad,
       DspResetDelete, DspLock, DspAssign, DspRelease, DspResetList, DspReady, dspFrame
  <2> QED
    BY <1>1, <2>1, <2>2
<1>6. ASSUME NEW r \in Req, mRegisterRequest(r) PROVE OrphanInv'
  <2>1. requests'[r].status = "Pending" /\ \A s \in Req \ {r} : requests'[s] = requests[s]
    BY <1>6 DEF mRegisterRequest, Inv, TypeOK
  <2>2. sup' = sup /\ sup \subseteq Req
    BY <1>6 DEF mRegisterRequest, Inv, TypeOK
  <2> QED
    BY <2>1, <2>2 DEF OrphanInv
<1>7. CASE Supervisor
  <2>1. ASSUME NEW r \in Req, CleanOrphan(r) PROVE OrphanInv'
    <3>1. requests'[r].status = "Done" /\ \A s \in Req \ {r} : requests'[s] = requests[s]
      BY <2>1 DEF CleanOrphan, mFailRequest, Inv, TypeOK
    <3>2. sup' \subseteq sup /\ sup \subseteq Req
      BY <2>1 DEF CleanOrphan, Inv, TypeOK
    <3> QED
      BY <3>1, <3>2 DEF OrphanInv
  <2>2. CASE mOrphanRequests
    BY <2>2 DEF mOrphanRequests, OrphanInv, Pending
  <2> QED
    BY <1>7, <2>1, <2>2 DEF Supervisor
<1>8. CASE \/ \E r \in Req : dispatchJobToWorker(r)
           \/ \E p \in Port : IdleTimeout(p)
           \/ DspCrash \/ WmCrash \/ UNCHANGED vars
  BY <1>1, <1>8 DEF dispatchJobToWorker, IdleTimeout, DspCrash, WmCrash, dspFrame,
     wmFrame, vars
<1> QED
  BY <1>3, <1>4, <1>5, <1>6, <1>7, <1>8 DEF Next

\* While the supervisor is off, an unfinished request of a live worker is Pending.
LEMMA WorkPending ==
    ASSUME Inv, ~SupervisorEnabled, NEW i \in Pid, AtWork(i), proc[i].pc # "done"
    PROVE  Pending(proc[i].copy.uuid)
<1>1. Registered(i) /\ Alive(i) /\ proc[i].copy.uuid \in Req
  BY DEF AtWork, Registered, Alive, Inv, PoolInv, PcTypes
<1>2. workers[proc[i].port].uuid = proc[i].copy.uuid
  BY <1>1 DEF Inv, PoolInv, SteadyInv, RowInv
<1> QED
  BY <1>1, <1>2, Constants DEF Inv, PoolInv, SteadyInv, WorkInv

InExecution(r) == \E i \in Pid : Executing(i, r)

\* What a client reads of a request while the invariants hold.
LEMMA OutcomeOf ==
    ASSUME Inv, LifeInv, NEW r \in Req
    PROVE  /\ requests[r].status = "none" <=> outcomeOf(r) = "none"
           /\ Pending(r) <=> outcomeOf(r) = "pending"
           /\ requests[r].error = "709" <=> outcomeOf(r) = "failed"
           /\ requests[r].error = "own" <=> outcomeOf(r) = "reported"
<1>1. /\ requests[r].status \in {"none", "Pending", "Done"}
      /\ requests[r].error \in {"Undef", "own", "709"}
  BY DEF Inv, TypeOK
<1>2. requests[r].status = "Done" <=> requests[r].error # "Undef"
  BY DEF LifeInv, OutcomeInv, Accounted
<1> QED
  BY <1>1, <1>2 DEF outcomeOf, Pending

\* The outcome is made of the request's row, the attempt of its count and of the
\* workers that execute it.
LEMMA OutcomeSame ==
    ASSUME NEW r \in Req, requests'[r] = requests[r] PROVE outcomeOf(r)' = outcomeOf(r)
BY DEF outcomeOf

LEMMA AttemptSame ==
    ASSUME NEW r \in Req, runs'[r] = runs[r], InExecution(r)' <=> InExecution(r)
    PROVE  attemptOf(r)' = attemptOf(r)
BY DEF attemptOf, InExecution

\* A step that changes one request in a way the life cycle allows.
LEMMA LifeMove ==
    ASSUME NEW r \in Req, NEW o, NEW a,
           \/ outcomeOf(r) = "none" /\ o = "pending" /\ a = attemptOf(r)
           \/ /\ attemptOf(r) = "new" /\ o = outcomeOf(r) /\ a = "running"
              /\ o = "pending" \/ (SupervisorEnabled /\ o = "failed")
           \/ attemptOf(r) = "running" /\ o \in {outcomeOf(r), "reported"} /\ a = "over"
           \/ /\ outcomeOf(r) = "pending" /\ attemptOf(r) # "running"
              /\ o = "failed" /\ a = attemptOf(r)
           \/ /\ SupervisorEnabled /\ outcomeOf(r) # "none"
              /\ o = "failed" /\ a = attemptOf(r),
           outcomeOf(r)' = o, attemptOf(r)' = a,
           \A s \in Req \ {r} : outcomeOf(s)' = outcomeOf(s) /\ attemptOf(s)' = attemptOf(s)
    PROVE  Lifecycle!Next
<1>1. /\ outcome' = [outcome EXCEPT ![r] = o] /\ outcome[r] = outcomeOf(r)
      /\ attempt' = [attempt EXCEPT ![r] = a] /\ attempt[r] = attemptOf(r)
  BY DEF outcome, attempt
<1>2. Lifecycle!Move(r, o, a)
  BY <1>1 DEF Lifecycle!Move
<1>3. \/ Lifecycle!Submit(r) \/ Lifecycle!Start(r) \/ Lifecycle!Finish(r)
      \/ Lifecycle!Lose(r) \/ Lifecycle!Fail(r) \/ Lifecycle!Abort(r)
  BY <1>1, <1>2 DEF Lifecycle!Submit, Lifecycle!Start, Lifecycle!Finish,
     Lifecycle!Lose, Lifecycle!Fail, Lifecycle!Abort
<1> QED
  BY <1>3 DEF Lifecycle!Next

\* A step that begins and ends no execution and changes no request is none of
\* the life cycle.
LEMMA LifeStutter ==
    ASSUME UNCHANGED <<requests, runs>>,
           \A i \in Pid : \/ /\ proc[i].pc \notin {"exec", "unlocked"}
                            /\ proc'[i].pc \notin {"exec", "unlocked"}
                         \/ /\ proc[i].pc \in {"exec", "unlocked"}
                            /\ proc'[i].pc \in {"exec", "unlocked"}
                            /\ proc'[i].copy = proc[i].copy
    PROVE  UNCHANGED <<outcome, attempt>>
<1>1. ASSUME NEW r \in Req
      PROVE  outcomeOf(r)' = outcomeOf(r) /\ attemptOf(r)' = attemptOf(r)
  <2>1. \A i \in Pid : Executing(i, r)' <=> Executing(i, r)
    BY DEF Executing
  <2>2. InExecution(r)' <=> InExecution(r)
    BY <2>1 DEF InExecution
  <2> QED
    BY <2>2, OutcomeSame, AttemptSame
<1> QED
  BY <1>1 DEF outcome, attempt

\* A request is executed by one worker at a time.
LEMMA OneExecutor ==
    ASSUME StablePorts, Inv, LifeInv, NEW i \in Pid, NEW j \in Pid, AtWork(i), AtWork(j),
           proc[i].copy.uuid = proc[j].copy.uuid
    PROVE  i = j
<1>1. Alive(i) /\ Alive(j)
  BY DEF AtWork, Alive
<1>2. PICK p \in Port, q \in Port : p = proc[i].port /\ q = proc[j].port
  BY <1>1 DEF Inv, PoolInv, PcTypes
<1>3. Owner(i, p) /\ Owner(j, q)
  BY <1>1, <1>2 DEF Owner
<1>4. /\ workers[p].uuid = workers[q].uuid /\ workers[q].uuid \in Req
      /\ \A k \in Pid \ {i} : ~Owner(k, p)
      /\ \A s \in Port \ {p} : workers[s].uuid \in Req
                                => workers[s].uuid # workers[p].uuid
  BY <1>3, OwnRow
<1> QED
  BY <1>3, <1>4

\* When an execution ends the worker's request is in no other execution, and the
\* others stay as they were.
LEMMA ExecutionEnds ==
    ASSUME StablePorts, Inv, LifeInv, NEW d \in Pid, NEW r \in Req, Executing(d, r),
           UNCHANGED runs, proc'[d].pc \notin {"exec", "unlocked"},
           \A i \in Pid \ {d} : proc'[i] = proc[i]
    PROVE  /\ attemptOf(r) = "running" /\ attemptOf(r)' = "over"
           /\ \A s \in Req \ {r} : attemptOf(s)' = attemptOf(s)
<1>1. runs[r] > 0
  BY DEF Executing, LifeInv, AttemptInv
<1>2. attemptOf(r) = "running"
  BY DEF attemptOf
<1>3. \A i \in Pid \ {d} : ~Executing(i, r)
  BY OneExecutor DEF Executing, AtWork
<1>4. attemptOf(r)' = "over"
  BY <1>1, <1>3 DEF attemptOf, Executing
<1>5. ASSUME NEW s \in Req \ {r} PROVE attemptOf(s)' = attemptOf(s)
  <2>1. \A i \in Pid : Executing(i, s)' <=> Executing(i, s)
    BY DEF Executing
  <2>2. InExecution(s)' <=> InExecution(s)
    BY <2>1 DEF InExecution
  <2> QED
    BY <2>2, AttemptSame
<1> QED
  BY <1>2, <1>4, <1>5

\* The death of a process: what it executed is lost.
LEMMA LifecycleDeath ==
    ASSUME StablePorts, Inv, LifeInv, NEW d \in Pid, proc' = [proc EXCEPT ![d] = DeadProc],
           UNCHANGED <<requests, runs>>
    PROVE  [Lifecycle!Next]_<<outcome, attempt>>
<1>1. /\ proc'[d].pc = "dead"
      /\ \A i \in Pid \ {d} : proc'[i] = proc[i]
  BY DEF DeadProc, UnbornProc, Inv, TypeOK
<1>2. CASE proc[d].pc \notin {"exec", "unlocked"}
  BY <1>1, <1>2, LifeStutter
<1>3. CASE proc[d].pc \in {"exec", "unlocked"}
  <2>1. PICK r \in Req : r = proc[d].copy.uuid
    BY <1>3 DEF Inv, PoolInv, PcTypes, AtWork
  <2>2. Executing(d, r)
    BY <1>3, <2>1 DEF Executing
  <2>3. /\ attemptOf(r) = "running" /\ attemptOf(r)' = "over"
        /\ \A s \in Req \ {r} : attemptOf(s)' = attemptOf(s)
    BY <1>1, <2>2, ExecutionEnds
  <2>4. \A s \in Req : outcomeOf(s)' = outcomeOf(s)
    BY OutcomeSame
  <2> QED
    BY <2>3, <2>4, LifeMove
<1> QED
  BY <1>2, <1>3

\* Of a worker's steps WrkLock starts a request, WrkFinish finishes one, and a
\* death loses the one that is executed.
LEMMA LifecycleWorker ==
    ASSUME StablePorts, Inv, LifeInv, NEW i \in Pid, Worker(i) \/ WrkCrash(i)
    PROVE  [Lifecycle!Next]_<<outcome, attempt>>
<1> USE DEF wrkFrame, dbVars
<1>0. /\ proc \in [Pid -> Proc] /\ requests \in [Req -> [status : {"none", "Pending", "Done"},
                                                         error : {"Undef", "own", "709"}]]
      /\ runs \in [Req -> 0..2]
      /\ AtWork(i) => proc[i].copy.uuid \in Req
  BY DEF Inv, TypeOK, PoolInv, PcTypes
<1>c. PICK c \in Row : c = proc[i].copy
  BY <1>0 DEF Proc
<1>1. CASE WrkBindFails(i) \/ WrkDeregister(i) \/ WrkCrash(i)
  BY <1>1, LifecycleDeath DEF WrkBindFails, WrkDeregister, WrkCrash
<1>2. CASE \/ mRegister(i) \/ WrkTop(i) \/ WrkLoad(i) \/ WrkRun(i) \/ WrkUnlock(i)
           \/ WrkReset(i)
  <2>1. UNCHANGED <<requests, runs>>
    BY <1>2 DEF mRegister, WrkTop, WrkLoad, WrkRun, WrkUnlock, WrkReset
  <2>2. \A j \in Pid \ {i} : proc'[j] = proc[j]
    BY <1>2, <1>0 DEF mRegister, WrkTop, WrkLoad, WrkRun, WrkUnlock, WrkReset
  <2>3. CASE WrkUnlock(i)
    <3>1. /\ proc[i].pc = "exec" /\ proc'[i].pc = "unlocked"
          /\ proc'[i].copy = proc[i].copy
      BY <1>0, <2>3 DEF WrkUnlock, Proc
    <3> QED
      BY <2>1, <2>2, <3>1, LifeStutter
  <2>4. CASE \/ mRegister(i) \/ WrkTop(i) \/ WrkLoad(i) \/ WrkRun(i) \/ WrkReset(i)
    <3>1. proc[i].pc \in {"boot", "top", "sleep", "assigned", "done"}
      BY <2>4 DEF mRegister, WrkTop, WrkLoad, WrkRun, WrkReset
    <3>2. proc'[i].pc \in {"top", "stop", "sleep", "assigned", "running"}
      <4>1. CASE mRegister(i) \/ WrkTop(i) \/ WrkRun(i)
        <5>1. \E pc \in {"top", "stop", "sleep", "assigned", "running"} :
                 proc' = [proc EXCEPT ![i].pc = pc]
          BY <4>1 DEF mRegister, WrkTop, WrkRun
        <5> QED
          BY <1>0, <5>1 DEF Proc
      <4>2. CASE WrkLoad(i)
        BY <1>0, <4>2 DEF WrkLoad, Proc
      <4>3. CASE WrkReset(i)
        <5>1. proc' = [proc EXCEPT ![i] = [proc[i] EXCEPT !.pc = "top", !.copy = NoRow]]
          BY <4>3 DEF WrkReset
        <5> QED
          BY <1>0, <5>1 DEF Proc
      <4> QED
        BY <2>4, <4>1, <4>2, <4>3
    <3> QED
      BY <2>1, <2>2, <3>1, <3>2, LifeStutter
  <2> QED
    BY <1>2, <2>3, <2>4
<1>3. CASE WrkLock(i)
  <2>1. /\ proc[i].pc = "running" /\ proc'[i].pc = "exec" /\ proc'[i].copy = c
        /\ UNCHANGED requests
        /\ \A j \in Pid \ {i} : proc'[j] = proc[j]
    BY <1>0, <1>c, <1>3 DEF WrkLock, Proc
  <2>2. AtWork(i) /\ Alive(i)
    BY <2>1 DEF AtWork, Alive
  <2>3. PICK r \in Req : r = c.uuid
    BY <1>0, <1>c, <2>2
  <2>4. PICK p \in Port : p = proc[i].port
    BY <2>2 DEF Inv, PoolInv, PcTypes
  <2>5. /\ requests[r].status # "none" /\ runs[r] = 0
        /\ ~SupervisorEnabled => Pending(r)
    <3>1. Waiting(i) /\ Owner(i, p)
      BY <2>1, <2>2, <2>4 DEF Waiting, Registered, Owner
    <3>2. workers[p].uuid = r
      BY <1>c, <2>2, <2>3, <3>1, OwnRow
    <3>3. Unstarted(r)
      BY <3>1, <3>2, OwnRow, Constants
    <3>4. ~SupervisorEnabled => Pending(r)
      BY <1>c, <2>1, <2>2, <2>3, WorkPending
    <3> QED
      BY <3>3, <3>4 DEF Unstarted
  <2>6. \A j \in Pid : ~Executing(j, r)
    <3>1. ASSUME NEW j \in Pid, Executing(j, r) PROVE FALSE
      <4>1. AtWork(j) /\ proc[j].copy.uuid = proc[i].copy.uuid /\ j # i
        BY <1>c, <2>1, <2>3, <3>1 DEF Executing, AtWork
      <4> QED
        BY <2>2, <4>1, OneExecutor
    <3> QED
      BY <3>1
  <2>7. /\ attemptOf(r) = "new"
        /\ outcomeOf(r) = "pending" \/ (SupervisorEnabled /\ outcomeOf(r) = "failed")
    <3>1. attemptOf(r) = "new"
      BY <2>5, <2>6 DEF attemptOf
    <3>2. requests[r].error # "own"
      BY <1>0, <2>5 DEF LifeInv, OutcomeInv, Accounted
    <3>3. Pending(r) \/ (SupervisorEnabled /\ requests[r].error = "709")
      BY <1>0, <2>5, <3>2 DEF Pending, LifeInv, OutcomeInv, Accounted
    <3> QED
      BY <3>1, <3>3, OutcomeOf
  <2>8. attemptOf(r)' = "running"
    BY <2>1, <2>3 DEF attemptOf, Executing
  <2>9. ASSUME NEW s \in Req \ {r} PROVE attemptOf(s)' = attemptOf(s)
    <3>1. runs' = [runs EXCEPT ![r] = IF @ < 2 THEN @ + 1 ELSE @]
      BY <1>3, <1>c, <2>3 DEF WrkLock
    <3>2. runs'[s] = runs[s]
      BY <1>0, <3>1
    <3>3. \A j \in Pid : Executing(j, s)' <=> Executing(j, s)
      BY <1>c, <2>1, <2>3 DEF Executing
    <3>4. InExecution(s)' <=> InExecution(s)
      BY <3>3 DEF InExecution
    <3> QED
      BY <3>2, <3>4, AttemptSame
  <2>10. \A s \in Req : outcomeOf(s)' = outcomeOf(s)
    BY <2>1, OutcomeSame
  <2> QED
    BY <2>7, <2>8, <2>9, <2>10, LifeMove
<1>4. CASE WrkFinish(i)
  <2>1. /\ proc[i].pc = "unlocked" /\ proc'[i].pc = "done" /\ proc'[i].copy = c
        /\ UNCHANGED runs
        /\ \A j \in Pid \ {i} : proc'[j] = proc[j]
    BY <1>0, <1>c, <1>4 DEF WrkFinish, Proc
  <2>2. PICK r \in Req : r = c.uuid
    BY <1>0, <1>c, <2>1 DEF AtWork
  <2>3. /\ attemptOf(r) = "running" /\ attemptOf(r)' = "over"
        /\ \A s \in Req \ {r} : attemptOf(s)' = attemptOf(s)
    <3>1. Executing(i, r)
      BY <1>c, <2>1, <2>2 DEF Executing
    <3> QED
      BY <2>1, <3>1, ExecutionEnds
  <2>4. requests' = [requests EXCEPT ![r] = [status |-> "Done", error |-> "own"]]
    BY <1>4, <1>c, <2>2 DEF WrkFinish
  <2>5. /\ requests'[r].status = "Done" /\ requests'[r].error = "own"
        /\ \A s \in Req \ {r} : requests'[s] = requests[s]
    BY <1>0, <2>4
  <2>6. outcomeOf(r)' = "reported"
    BY <2>5 DEF outcomeOf
  <2>7. \A s \in Req \ {r} : outcomeOf(s)' = outcomeOf(s)
    BY <2>5, OutcomeSame
  <2> QED
    BY <2>3, <2>6, <2>7, LifeMove
<1> QED
  BY <1>1, <1>2, <1>3, <1>4 DEF Worker

\* The worker manager loses an execution when it kills a worker, and fails the
\* requests of abandoned rows, which nobody executes.
LEMMA LifecycleManager ==
    ASSUME StablePorts, Inv, LifeInv, WorkerManager
    PROVE  [Lifecycle!Next]_<<outcome, attempt>>
<1> USE DEF wmFrame, dbVars
<1>0. /\ proc \in [Pid -> Proc] /\ wm \in Wm
      /\ requests \in [Req -> [status : {"none", "Pending", "Done"},
                               error : {"Undef", "own", "709"}]]
  BY DEF Inv, TypeOK
<1>1. CASE ManagerStep
  <2>1. SameProcs /\ UNCHANGED <<requests, runs>>
    BY <1>1, ManagerFrame
  <2> QED
    BY <2>1, LifeStutter DEF SameProcs
<1>2. CASE CheckKill
  <2>1. UNCHANGED <<requests, runs>>
    BY <1>2 DEF CheckKill
  <2>2. \/ proc' = proc
        \/ \E d \in Pid : proc' = [proc EXCEPT ![d] = DeadProc]
    <3>1. PICK k \in Port : k = wm.port
      BY <1>2 DEF CheckKill, Inv, PoolInv, PcTypes
    <3>2. wm.snap[k] \in Pid \cup {0}
      BY <1>0 DEF Wm
    <3> QED
      BY <1>2, <3>1, <3>2 DEF CheckKill, Alive
  <2>3. CASE proc' = proc
    BY <2>1, <2>3, LifeStutter
  <2> QED
    BY <2>1, <2>2, <2>3, LifecycleDeath
<1>3. CASE DeregFailRequest
  <2>1. PICK r \in Req, p \in Port : r = wm.uuid /\ p = wm.port
    BY <1>3 DEF DeregFailRequest, Inv, PoolInv, PcTypes
  <2>2. Open(r) /\ workers[p].uuid = r /\ wm.pc = "failreq"
    BY <1>3, <2>1 DEF DeregFailRequest, LifeInv, AttemptInv, Inv, PoolInv, SteadyInv, WmInv
  <2>3. ~InExecution(r)
    <3>1. ASSUME NEW i \in Pid, Executing(i, r) PROVE FALSE
      <4>1. AtWork(i) /\ Alive(i)
        BY <3>1 DEF Executing, AtWork, Alive
      <4>2. PICK q \in Port : q = proc[i].port
        BY <4>1 DEF Inv, PoolInv, PcTypes
      <4>3. Owner(i, q)
        BY <4>1, <4>2 DEF Owner
      <4>4. workers[q].uuid = r /\ q # p
        BY <2>1, <2>2, <3>1, <4>1, <4>3, OwnRow DEF Executing
      <4> QED
        BY <2>1, <2>2, <4>3, <4>4, OwnRow
    <3> QED
      BY <3>1 DEF InExecution
  <2>4. attemptOf(r) # "running"
    BY <2>3 DEF attemptOf, InExecution
  <2>5. /\ requests'[r].status = "Done" /\ requests'[r].error = "709"
        /\ \A s \in Req \ {r} : requests'[s] = requests[s]
        /\ UNCHANGED <<proc, runs>>
    BY <1>0, <1>3, <2>1 DEF DeregFailRequest, mFailRequest
  <2>6. /\ outcomeOf(r)' = "failed"
        /\ \A s \in Req \ {r} : outcomeOf(s)' = outcomeOf(s)
    <3>1. outcomeOf(r)' = "failed"
      BY <2>5 DEF outcomeOf
    <3> QED
      BY <2>5, <3>1, OutcomeSame
  <2>7. ASSUME NEW s \in Req PROVE attemptOf(s)' = attemptOf(s)
    <3>1. InExecution(s)' <=> InExecution(s)
      BY <2>5 DEF InExecution, Executing
    <3> QED
      BY <2>5, <3>1, AttemptSame
  <2>8. CASE Pending(r)
    <3>1. outcomeOf(r) = "pending"
      BY <2>8, OutcomeOf
    <3> QED
      BY <2>4, <2>6, <2>7, <3>1, LifeMove
  <2>9. CASE requests[r].error = "709"
    <3>1. outcomeOf(r) = "failed"
      BY <2>9, OutcomeOf
    <3>2. \A s \in Req : outcomeOf(s)' = outcomeOf(s)
      BY <2>6, <3>1
    <3> QED
      BY <2>7, <3>2 DEF outcome, attempt
  <2> QED
    BY <2>2, <2>8, <2>9 DEF Open
<1>4. CASE \/ DeregRow \/ StartWait \/ StartGiveUp \/ \E p \in Port : ResetDelete(p)
  <2>1. UNCHANGED <<requests, runs, proc>>
    BY <1>4 DEF DeregRow, StartWait, StartGiveUp, ResetDelete
  <2> QED
    BY <2>1, LifeStutter
<1>5. ASSUME NEW p \in Port, NEW i \in Pid, StartWorker(p, i)
      PROVE  [Lifecycle!Next]_<<outcome, attempt>>
  <2>1. proc[i].pc = "unborn" /\ UNCHANGED <<requests, runs>>
    BY <1>5 DEF StartWorker, Unborn
  <2>2. /\ proc'[i].pc = "boot"
        /\ \A j \in Pid \ {i} : proc'[j] = proc[j]
    <3>1. proc' = [proc EXCEPT ![i] = [proc[i] EXCEPT !.pc = "boot", !.port = p]]
      BY <1>5 DEF StartWorker
    <3> QED
      BY <1>0, <3>1 DEF Proc
  <2> QED
    BY <2>1, <2>2, LifeStutter
<1> QED
  BY <1>1, <1>2, <1>3, <1>4, <1>5 DEF WorkerManager, ManagerStep

\* Every other step submits a request, aborts one or leaves the life cycle alone.
LEMMA LifecycleRest ==
    ASSUME StablePorts, Inv, LifeInv, OrphanInv,
           \/ Dispatcher
           \/ \E r \in Req : mRegisterRequest(r) \/ dispatchJobToWorker(r)
           \/ \E p \in Port : IdleTimeout(p)
           \/ DspCrash \/ WmCrash \/ Supervisor \/ UNCHANGED vars
    PROVE  [Lifecycle!Next]_<<outcome, attempt>>
<1> USE DEF dbVars
<1>1. ASSUME UNCHANGED <<proc, runs>> PROVE \A s \in Req : attemptOf(s)' = attemptOf(s)
  <2>1. \A s \in Req : InExecution(s)' <=> InExecution(s)
    BY <1>1 DEF InExecution, Executing
  <2> QED
    BY <1>1, <2>1, AttemptSame
<1>2. ASSUME NEW r \in Req, mRegisterRequest(r) PROVE Lifecycle!Next
  <2>1. /\ requests[r].status = "none" /\ UNCHANGED <<proc, runs>>
        /\ requests'[r].status = "Pending" /\ requests'[r].error = requests[r].error
        /\ \A s \in Req \ {r} : requests'[s] = requests[s]
    BY <1>2 DEF mRegisterRequest, Inv, TypeOK
  <2>2. requests[r].error = "Undef" /\ outcomeOf(r) = "none"
    BY <2>1, OutcomeOf DEF LifeInv, OutcomeInv, Accounted
  <2>3. outcomeOf(r)' = "pending"
    BY <2>1, <2>2 DEF outcomeOf
  <2>4. \A s \in Req \ {r} : outcomeOf(s)' = outcomeOf(s)
    BY <2>1, OutcomeSame
  <2> QED
    BY <1>1, <2>1, <2>2, <2>3, <2>4, LifeMove
<1>3. ASSUME NEW r \in Req, CleanOrphan(r) PROVE Lifecycle!Next
  <2>1. /\ r \in sup /\ UNCHANGED <<proc, runs>>
        /\ requests'[r].status = "Done" /\ requests'[r].error = "709"
        /\ \A s \in Req \ {r} : requests'[s] = requests[s]
    BY <1>3 DEF CleanOrphan, mFailRequest, Inv, TypeOK
  <2>2. SupervisorEnabled
    BY <2>1 DEF Inv, PoolInv, SteadyInv, PortInv
  <2>3. outcomeOf(r) # "none"
    BY <2>1, OutcomeOf DEF OrphanInv
  <2>4. outcomeOf(r)' = "failed"
    BY <2>1 DEF outcomeOf
  <2>5. \A s \in Req \ {r} : outcomeOf(s)' = outcomeOf(s)
    BY <2>1, OutcomeSame
  <2> QED
    BY <1>1, <2>1, <2>2, <2>3, <2>4, <2>5, LifeMove
<1>4. CASE \/ Dispatcher
           \/ \E r \in Req : dispatchJobToWorker(r)
           \/ \E p \in Port : IdleTimeout(p)
           \/ mOrphanRequests \/ UNCHANGED vars
  <2>1. UNCHANGED <<requests, runs, proc>>
    BY <1>4, DispatcherFrame DEF dispatchJobToWorker, IdleTimeout, mOrphanRequests, vars
  <2> QED
    BY <2>1, LifeStutter
<1>5. ~DspCrash /\ ~WmCrash
  BY DEF StablePorts, DspCrash, WmCrash
<1> QED
  BY <1>2, <1>3, <1>4, <1>5 DEF Supervisor

\* Every step of a pool with stable ports is a step of the life cycle or a stutter.
LEMMA LifecycleNext ==
    ASSUME StablePorts, Inv, LifeInv, OrphanInv, [Next]_vars
    PROVE  [Lifecycle!Next]_<<outcome, attempt>>
<1>1. CASE \E i \in Pid : Worker(i) \/ WrkCrash(i)
  BY <1>1, LifecycleWorker
<1>2. CASE WorkerManager
  BY <1>2, LifecycleManager
<1>3. CASE \/ Dispatcher
           \/ \E r \in Req : mRegisterRequest(r) \/ dispatchJobToWorker(r)
           \/ \E p \in Port : IdleTimeout(p)
           \/ DspCrash \/ WmCrash \/ Supervisor \/ UNCHANGED vars
  BY <1>3, LifecycleRest
<1> QED
  BY <1>1, <1>2, <1>3 DEF Next

\* With stable ports the pool implements the life cycle of requests, for any number
\* of requests, ports, processes, worker crashes, failed probes and idle timeouts: a
\* request is started at most once; while the supervisor is off, an execution lost
\* with its worker is reported as failed and a reported outcome is final; while it
\* is on, it may fail a request at any time, also one that is executed or reported.
THEOREM PoolImplementsLifecycle ==
    ASSUME StablePorts PROVE Spec => ImplementsLifecycle
<1>1. Init => Lifecycle!Init /\ OrphanInv
  <2>1. ASSUME Init, NEW r \in Req PROVE outcomeOf(r) = "none" /\ attemptOf(r) = "new"
    <3>1. /\ requests[r].status = "none" /\ requests[r].error = "Undef"
          /\ runs[r] = 0 /\ \A i \in Pid : proc[i].pc = "unborn"
      BY <2>1 DEF Init, UnbornProc
    <3>2. \A i \in Pid : ~Executing(i, r)
      BY <3>1 DEF Executing
    <3> QED
      BY <3>1, <3>2 DEF outcomeOf, attemptOf
  <2>2. Init => OrphanInv
    BY DEF Init, OrphanInv
  <2> QED
    BY <2>1, <2>2 DEF Lifecycle!Init, outcome, attempt
<1>2. Inv /\ LifeInv /\ OrphanInv /\ [Next]_vars => [Lifecycle!Next]_<<outcome, attempt>>
  BY LifecycleNext
<1>3. Inv /\ OrphanInv /\ [Next]_vars => OrphanInv'
  BY OrphanNext
<1> QED
  BY <1>1, <1>2, <1>3, LifecycleInvariant, PTL DEF Spec, ImplementsLifecycle, Lifecycle!Spec
=============================================================================
