----------------------------- MODULE Scheduler -----------------------------
(***************************************************************************)
(* The scheduler of exacloud (agent/Scheduler.py), with the part of the    *)
(* agent that writes the schedule table (agent/Agent.py) and the           *)
(* supervisor's restart of a dead scheduler.                               *)
(*                                                                         *)
(* Three actors share the tables schedule and requests: the agent, the     *)
(* scheduler's main thread with its SIGUSR1 handler, and the timer process *)
(* it forks.  The file lock scheduler_lock orders only some of their       *)
(* accesses.  The dispatcher and the workers appear as WorkerStart and     *)
(* WorkerEnd: the module WorkerPool models them in detail.                 *)
(***************************************************************************)
EXTENDS Integers, FiniteSets

CONSTANTS
    Job,          \* the uuids of scheduled jobs
    Timer,        \* jobs with event timer_job
    FollowUp,     \* jobs with event follow_up_job; the others: no_active_jobs
    Generic,      \* timer jobs of mode generic, run by the timer process
    Registered,   \* jobs ScheduleRegistry inserts at start, without a request
    Once,         \* timer jobs of timer_type once; the other timers repeat
    RepeatCount,  \* repeat_count of a job, Forever for 'forever'
    Monitor,      \* the request a follow-up job waits for, NoJob if unknown
    Tid,          \* timer processes
    Sched,        \* the scheduler's main process, as owner of the file lock
    NoJob, None,  \* model values
    MaxUpdates,   \* bound: cancel or modify requests
    MaxKill,      \* bound: times the scheduler's main process is killed
    MaxRuns       \* bound: times the clock makes one job due

Forever == -1

ASSUME SchedulerAssumption ==
    /\ Timer \subseteq Job /\ FollowUp \subseteq Job \ Timer
    /\ Generic \subseteq Timer /\ Registered \subseteq Generic
    /\ Once \subseteq Timer
    /\ RepeatCount \in [Job -> Nat \cup {Forever}]
    /\ Monitor \in [Job -> Job \cup {NoJob}] /\ NoJob \notin Job
    /\ None \notin Tid \cup {Sched} /\ Sched \notin Tid
    /\ MaxUpdates \in Nat /\ MaxKill \in Nat /\ MaxRuns \in Nat

VARIABLES
    schedule,   \* table schedule
    requests,   \* table requests
    workers,    \* requests some worker executes
    lock,       \* owner of the file lock scheduler_lock
    main,       \* the scheduler's main loop
    handler,    \* its SIGUSR1 handler, which suspends the main loop
    child,      \* the timer process of the current scheduler
    timers,     \* every timer process
    agent,      \* the agent between writing a row and sending the signal
    history     \* what the properties and the bounds count

vars == <<schedule, requests, workers, lock, main, handler, child, timers,
          agent, history>>

-----------------------------------------------------------------------------
(* Tables and process states *)

NoEntry == [op |-> "none", due |-> FALSE, last |-> -1]
NewEntry == [op |-> "schedule", due |-> FALSE, last |-> -1]
Entry(j) == schedule[j] # NoEntry

NoRequest == [status |-> "none", error |-> "Undef"]

IdleTimer == [pc |-> "wait", event |-> FALSE, left |-> {}, job |-> NoJob,
              copy |-> NoEntry, req |-> NoRequest]
UnbornTimer == [IdleTimer EXCEPT !.pc = "unborn"]

BootMain == [pc |-> "list", left |-> {}, job |-> NoJob]
IdleHandler == [pc |-> "off", signal |-> FALSE, left |-> {}, job |-> NoJob,
                req |-> NoRequest]
IdleAgent == [job |-> NoJob, op |-> "none"]

(* The rows of ScheduleRegistry carry the current time: they are due at once *)
Init ==
    /\ schedule = [j \in Job |-> IF j \in Registered
                                 THEN [NewEntry EXCEPT !.due = TRUE]
                                 ELSE NoEntry]
    /\ requests = [j \in Job |-> NoRequest]
    /\ workers = {}
    /\ lock = None
    /\ main = BootMain
    /\ handler = IdleHandler
    /\ child = None
    /\ timers = [t \in Tid |-> UnbornTimer]
    /\ agent = IdleAgent
    /\ history = [runs |-> [j \in Job |-> 0],
                  ticks |-> [j \in Job |-> IF j \in Registered THEN 1 ELSE 0],
                  cancelled |-> {}, updates |-> 0, kills |-> 0]

(* UPDATE schedule ... WHERE uuid and UPDATE requests ... WHERE uuid: a    *)
(* row that is not there stays away                                        *)
mUpdateSchedule(j, e) ==
    schedule' = [schedule EXCEPT ![j] = IF Entry(j) THEN e ELSE NoEntry]
mDelScheduleEntry(j) == schedule' = [schedule EXCEPT ![j] = NoEntry]
mUpdateRequest(j, r) ==
    requests' = [requests EXCEPT ![j] = IF @ = NoRequest THEN @ ELSE r]

-----------------------------------------------------------------------------
(* The agent *)

(* mCLURequest, mScheduleGenericRequest: the request is inserted as        *)
(* Pending, then its row of the schedule table.  A client that names a     *)
(* request to monitor has submitted it before.                             *)
Schedule(j) ==
    /\ requests[j] = NoRequest /\ j \notin Registered
    /\ Monitor[j] # NoJob => requests[Monitor[j]] # NoRequest
    /\ requests' = [requests EXCEPT ![j].status = "Pending"]
    /\ schedule' = [schedule EXCEPT ![j] = NewEntry]
    /\ UNCHANGED <<workers, lock, main, handler, child, timers, agent, history>>

(* A cancel or modify request stores a whole new row, its repeat counter   *)
(* reset; a modified job gets another timestamp                            *)
ModifyRow(j, op) ==
    [op |-> op, due |-> schedule[j].due /\ op = "cancel", last |-> -1]

Update(j, op) ==
    /\ agent = IdleAgent /\ Entry(j)
    /\ history.updates < MaxUpdates
    /\ mUpdateSchedule(j, ModifyRow(j, op))
    /\ agent' = [job |-> j, op |-> op]
    /\ history' = [history EXCEPT !.updates = @ + 1]
    /\ UNCHANGED <<requests, workers, lock, main, handler, child, timers>>

(* SIGUSR1 to the pid scheduler_running() finds, then the answer Done; no  *)
(* pid is a ValueError and the request is not answered                     *)
Signal ==
    /\ agent # IdleAgent
    /\ \/ /\ main.pc # "dead"
          /\ handler' = [handler EXCEPT !.signal = TRUE]
          /\ history' = [history EXCEPT !.cancelled =
                            IF agent.op = "cancel" THEN @ \cup {agent.job}
                                                   ELSE @]
       \/ /\ main.pc = "dead"
          /\ UNCHANGED <<handler, history>>
    /\ agent' = IdleAgent
    /\ UNCHANGED <<schedule, requests, workers, lock, main, child, timers>>

-----------------------------------------------------------------------------
(* Dispatcher and workers, and the clock *)

(* The dispatcher takes any Pending request no worker has *)
WorkerStart(j) ==
    /\ requests[j].status = "Pending" /\ j \notin workers
    /\ workers' = workers \cup {j}
    /\ UNCHANGED <<schedule, requests, lock, main, handler, child, timers,
                   agent, history>>

(* A worker knows no request type genericctrl: such a request fails *)
WorkerEnd(j, e) ==
    /\ j \in workers
    /\ j \in Generic => e = "own"
    /\ workers' = workers \ {j}
    /\ mUpdateRequest(j, [status |-> "Done", error |-> e])
    /\ UNCHANGED <<schedule, lock, main, handler, child, timers, agent, history>>

(* The timestamp of a row passes *)
Tick(j) ==
    /\ Entry(j) /\ j \in Timer /\ ~schedule[j].due
    /\ history.ticks[j] < MaxRuns
    /\ schedule' = [schedule EXCEPT ![j].due = TRUE]
    /\ history' = [history EXCEPT !.ticks[j] = @ + 1]
    /\ UNCHANGED <<requests, workers, lock, main, handler, child, timers, agent>>

-----------------------------------------------------------------------------
(* The main loop of the scheduler, mStart *)

\* The main loop runs while its thread is not in the signal handler.
MainAt(pc) == main.pc = pc /\ handler.pc = "off"

MainList ==
    /\ MainAt("list") /\ lock = None
    /\ main' = [main EXCEPT !.pc = "rows", !.left = {j \in Job : Entry(j)}]
    /\ UNCHANGED <<schedule, requests, workers, lock, handler, child, timers,
                   agent, history>>

\* Mutant: no new timer process while another scheduler's one is there.
MainTimerRowOnce(j) ==
    /\ MainAt("rows") /\ j \in main.left \cap Timer
    /\ main' = [main EXCEPT !.left = @ \ {j}]
    /\ \/ /\ child = None /\ \A t \in Tid : timers[t].pc = "unborn"
          /\ \E t \in Tid : child' = t /\ timers' = [timers EXCEPT ![t] = IdleTimer]
       \/ /\ child # None \/ \E t \in Tid : timers[t].pc # "unborn"
          /\ UNCHANGED <<child, timers>>
    /\ UNCHANGED <<schedule, requests, workers, lock, handler, agent, history>>

(* The first timer row a scheduler meets starts the timer process *)
MainTimerRow(j) ==
    /\ MainAt("rows") /\ j \in main.left \cap Timer
    /\ main' = [main EXCEPT !.left = @ \ {j}]
    /\ \/ /\ child = None
          /\ \E t \in Tid : /\ timers[t].pc = "unborn"
                            /\ child' = t
                            /\ timers' = [timers EXCEPT ![t] = IdleTimer]
       \/ /\ child # None
          /\ UNCHANGED <<child, timers>>
    /\ UNCHANGED <<schedule, requests, workers, lock, handler, agent, history>>

(* An exception leaves mStart; the interpreter then joins the timer process, *)
(* if there is one, before it exits                                          *)
Crashed == [BootMain EXCEPT !.pc = IF child = None THEN "dead" ELSE "hung"]

(* mProcessFollowupJobs reads the monitored request; a request that is not *)
(* there is None, and None[1] raises                                       *)
Monitored(j) == IF Monitor[j] = NoJob THEN NoRequest ELSE requests[Monitor[j]]

\* Mutant: no branch for a monitored request that failed.
FollowReadSuccessOnly(j) ==
    /\ MainAt("rows") /\ j \in main.left \cap FollowUp
    /\ main' = CASE Monitored(j) = NoRequest -> Crashed
                 [] Monitored(j).status = "Done" /\ Monitored(j).error = "0" ->
                      [main EXCEPT !.pc = "follow", !.left = @ \ {j}, !.job = j]
                 [] OTHER -> [main EXCEPT !.left = @ \ {j}]
    /\ UNCHANGED <<schedule, requests, workers, lock, handler, child, timers,
                   agent, history>>

FollowRead(j) ==
    /\ MainAt("rows") /\ j \in main.left \cap FollowUp
    /\ main' = CASE Monitored(j) = NoRequest -> Crashed
                 [] Monitored(j).status = "Done" ->
                      [main EXCEPT !.pc = "follow", !.left = @ \ {j}, !.job = j]
                 [] OTHER -> [main EXCEPT !.left = @ \ {j}]
    /\ UNCHANGED <<schedule, requests, workers, lock, handler, child, timers,
                   agent, history>>

(* Both branches read the row again (None if the handler deleted it) and   *)
(* delete it; the dispatch of the first is the dispatcher's business       *)
FollowEnd ==
    /\ MainAt("follow")
    /\ main' = IF Entry(main.job)
               THEN [main EXCEPT !.pc = "rows", !.job = NoJob] ELSE Crashed
    /\ mDelScheduleEntry(main.job)
    /\ UNCHANGED <<requests, workers, lock, handler, child, timers, agent,
                   history>>

(* mProcessNoactiveJobs with get_worker_status('all') *)
NoActiveRow(j) ==
    /\ MainAt("rows") /\ j \in main.left \ (Timer \cup FollowUp)
    /\ main' = [main EXCEPT !.left = @ \ {j}]
    /\ schedule' = IF workers = {} THEN [schedule EXCEPT ![j] = NoEntry]
                                   ELSE schedule
    /\ UNCHANGED <<requests, workers, lock, handler, child, timers, agent,
                   history>>

(* The wait between two rounds, after which the timer process is woken *)
MainWait ==
    /\ MainAt("rows") /\ main.left = {}
    /\ main' = BootMain
    /\ timers' = [t \in Tid |-> IF t = child
                                THEN [timers[t] EXCEPT !.event = TRUE]
                                ELSE timers[t]]
    /\ UNCHANGED <<schedule, requests, workers, lock, handler, child, agent,
                   history>>

-----------------------------------------------------------------------------
(* The SIGUSR1 handler, _mSigHandler *)

HandlerList ==
    /\ handler.pc = "off" /\ handler.signal /\ main.pc # "dead" /\ lock = None
    /\ lock' = Sched
    /\ handler' = [handler EXCEPT !.pc = "rows", !.signal = FALSE,
                       !.left = {j \in Job : schedule[j].op = "cancel"}]
    /\ UNCHANGED <<schedule, requests, workers, main, child, timers, agent,
                   history>>

(* Delete the row, then load its request; a registered job has none, and   *)
(* the exception leaves the handler and the main loop                      *)
HandlerDelete(j) ==
    /\ handler.pc = "rows" /\ j \in handler.left
    /\ mDelScheduleEntry(j)
    /\ \/ /\ requests[j] # NoRequest
          /\ handler' = [handler EXCEPT !.pc = "store", !.left = @ \ {j},
                                        !.job = j, !.req = requests[j]]
          /\ UNCHANGED <<lock, main>>
       \/ /\ requests[j] = NoRequest
          /\ handler' = [IdleHandler EXCEPT !.signal = handler.signal]
          /\ lock' = None
          /\ main' = Crashed
    /\ UNCHANGED <<requests, workers, child, timers, agent, history>>

HandlerStore ==
    /\ handler.pc = "store"
    /\ mUpdateRequest(handler.job, [handler.req EXCEPT !.status = "Done"])
    /\ handler' = [handler EXCEPT !.pc = "rows", !.job = NoJob,
                                  !.req = NoRequest]
    /\ UNCHANGED <<schedule, workers, lock, main, child, timers, agent, history>>

HandlerEnd ==
    /\ handler.pc = "rows" /\ handler.left = {}
    /\ handler' = [handler EXCEPT !.pc = "off"]
    /\ lock' = None
    /\ UNCHANGED <<schedule, requests, workers, main, child, timers, agent,
                   history>>

-----------------------------------------------------------------------------
(* A timer process, process_timer_jobs and request_handler *)

TimerWake(t) ==
    /\ timers[t].pc = "wait" /\ timers[t].event
    /\ timers' = [timers EXCEPT ![t].pc = "list"]
    /\ UNCHANGED <<schedule, requests, workers, lock, main, handler, child,
                   agent, history>>

TimerList(t) ==
    /\ timers[t].pc = "list" /\ lock = None
    /\ timers' = [timers EXCEPT ![t].pc = "rows",
                      ![t].left = {j \in Timer : schedule[j].due}]
    /\ UNCHANGED <<schedule, requests, workers, lock, main, handler, child,
                   agent, history>>

\* Mutant: request_handler without scheduler_lock.
HandleLoadUnlocked(t, j) ==
    /\ timers[t].pc = "rows" /\ j \in timers[t].left
    /\ lock' = t
    /\ timers' = [timers EXCEPT ![t].pc = "run", ![t].left = @ \ {j},
                      ![t].job = j, ![t].copy = schedule[j],
                      ![t].req = requests[j]]
    /\ UNCHANGED <<schedule, requests, workers, main, handler, child, agent,
                   history>>

(* The copies request_handler works with; a row that is gone leaves the    *)
(* defaults of ebScheduleInfo: mode default, no timer type                 *)
HandleLoad(t, j) ==
    /\ timers[t].pc = "rows" /\ j \in timers[t].left /\ lock = None
    /\ lock' = t
    /\ timers' = [timers EXCEPT ![t].pc = "run", ![t].left = @ \ {j},
                      ![t].job = j, ![t].copy = schedule[j],
                      ![t].req = requests[j]]
    /\ UNCHANGED <<schedule, requests, workers, main, handler, child, agent,
                   history>>

(* dispatchInternalJob for a generic job, which is then reported Done; the *)
(* dispatch of another job is left to the dispatcher                       *)
HandleRun(t) ==
    LET j == timers[t].job
    IN  /\ timers[t].pc = "run"
        /\ timers' = [timers EXCEPT ![t].pc = "store"]
        /\ \/ /\ timers[t].copy # NoEntry /\ j \in Generic
              /\ mUpdateRequest(j, [timers[t].req EXCEPT !.status = "Done"])
              /\ history' = [history EXCEPT !.runs[j] = @ + 1]
           \/ /\ timers[t].copy = NoEntry \/ j \notin Generic
              /\ UNCHANGED <<requests, history>>
        /\ UNCHANGED <<schedule, workers, lock, main, handler, child, agent>>

\* Mutant: <= instead of < in the repeat test.
MoreByOne(j, last) == RepeatCount[j] = Forever \/ last <= RepeatCount[j]
More(j, last) == RepeatCount[j] = Forever \/ last < RepeatCount[j]

\* Mutant: a repeating job keeps its old timestamp.
HandledStillDue(j, copy) ==
    CASE copy = NoEntry -> schedule[j]
      [] copy # NoEntry /\ j \in Once -> NoEntry
      [] OTHER -> [copy EXCEPT !.last = IF More(j, @) /\ RepeatCount[j] # Forever
                                        THEN @ + 1 ELSE @]

(* Count the repetition and store the copy; drop the row of a job that is  *)
(* over, or give it the timestamp of its next run.  The counter of a job   *)
(* that repeats for ever is never looked at and stays as it is.            *)
Handled(j, copy) ==
    LET last == IF More(j, copy.last) THEN copy.last + 1 ELSE copy.last
    IN  CASE copy = NoEntry -> schedule[j]
          [] copy # NoEntry /\ j \in Once -> NoEntry
          [] copy # NoEntry /\ j \notin Once /\ More(j, last) ->
               [copy EXCEPT !.due = FALSE,
                            !.last = IF RepeatCount[j] = Forever THEN @ ELSE last]
          [] copy # NoEntry /\ j \notin Once /\ last = RepeatCount[j] -> NoEntry
          [] OTHER -> [copy EXCEPT !.last = last]

HandleStore(t) ==
    /\ timers[t].pc = "store"
    /\ mUpdateSchedule(timers[t].job, Handled(timers[t].job, timers[t].copy))
    /\ timers' = [timers EXCEPT ![t].pc = "rows", ![t].job = NoJob,
                      ![t].copy = NoEntry, ![t].req = NoRequest]
    /\ lock' = None
    /\ UNCHANGED <<requests, workers, main, handler, child, agent, history>>

TimerDone(t) ==
    /\ timers[t].pc = "rows" /\ timers[t].left = {}
    /\ timers' = [timers EXCEPT ![t] = IdleTimer]
    /\ UNCHANGED <<schedule, requests, workers, lock, main, handler, child,
                   agent, history>>

-----------------------------------------------------------------------------
(* Failure and restart *)

(* SIGKILL of the main process; its timer process lives on as an orphan *)
Kill ==
    /\ main.pc # "dead" /\ history.kills < MaxKill
    /\ main' = [BootMain EXCEPT !.pc = "dead"]
    /\ handler' = IdleHandler
    /\ child' = None
    /\ lock' = IF lock = Sched THEN None ELSE lock
    /\ history' = [history EXCEPT !.kills = @ + 1]
    /\ UNCHANGED <<schedule, requests, workers, timers, agent>>

(* mCheckScheduler of the supervisor starts a scheduler when the pid of the *)
(* last one is gone                                                         *)
mCheckScheduler ==
    /\ main.pc = "dead"
    /\ main' = BootMain
    /\ handler' = IdleHandler
    /\ UNCHANGED <<schedule, requests, workers, lock, child, timers, agent,
                   history>>

MainStep ==
    \/ MainList \/ FollowEnd \/ MainWait
    \/ \E j \in Job : MainTimerRow(j) \/ FollowRead(j) \/ NoActiveRow(j)

HandlerStep ==
    \/ HandlerList \/ HandlerStore \/ HandlerEnd
    \/ \E j \in Job : HandlerDelete(j)

TimerStep(t) ==
    \/ TimerWake(t) \/ TimerList(t) \/ HandleRun(t) \/ HandleStore(t)
    \/ TimerDone(t)
    \/ \E j \in Job : HandleLoad(t, j)

WorkerStep(j) ==
    \/ WorkerStart(j)
    \/ \E e \in {"0", "own"} : WorkerEnd(j, e)

Next ==
    \/ Signal \/ Kill \/ mCheckScheduler \/ MainStep \/ HandlerStep
    \/ \E j \in Job : \/ Schedule(j) \/ WorkerStep(j) \/ Tick(j)
                      \/ \E op \in {"cancel", "modify"} : Update(j, op)
    \/ \E t \in Tid : TimerStep(t)

Spec == Init /\ [][Next]_vars

(* Every process keeps running, the supervisor restarts a dead scheduler,  *)
(* jobs and requests end and time passes; nobody has to schedule or cancel *)
FairSpec ==
    /\ Spec
    /\ WF_vars(Signal) /\ WF_vars(mCheckScheduler)
    /\ WF_vars(MainStep) /\ WF_vars(HandlerStep)
    /\ \A t \in Tid : WF_vars(TimerStep(t))
    /\ \A j \in Job : WF_vars(WorkerStep(j)) /\ WF_vars(Tick(j))

-----------------------------------------------------------------------------
(* Properties *)

TypeOK ==
    /\ schedule \in [Job -> [op : {"none", "schedule", "cancel", "modify"},
                             due : BOOLEAN, last : Int]]
    /\ requests \in [Job -> [status : {"none", "Pending", "Done"},
                             error : {"Undef", "0", "own"}]]
    /\ \A j \in Job : schedule[j].last <= RepeatCount[j]
    /\ workers \subseteq Job
    /\ lock \in Tid \cup {Sched, None}
    /\ main.pc \in {"list", "rows", "follow", "hung", "dead"}
    /\ main.left \subseteq Job /\ main.job \in Job \cup {NoJob}
    /\ handler.pc \in {"off", "rows", "store"} /\ handler.signal \in BOOLEAN
    /\ child \in Tid \cup {None}
    /\ \A t \in Tid : timers[t].pc \in {"unborn", "wait", "list", "rows",
                                        "run", "store"}

\* request_handler: each timer process runs a generic timer job at most once
\* for each time its timestamp passed, whatever rows the agent, the signal
\* handler and the timer processes delete or write back in between; only a
\* killed scheduler leaves a second timer process behind.
RunsWhenDue ==
    \A j \in Job : history.runs[j] <= history.ticks[j] * (1 + history.kills)

\* A repeating job runs at most repeat_count times after its first run, and a
\* one-shot job once; a cancel or modify request may start the count again,
\* as ModifyRow stores a fresh counter.
RepeatBound ==
    \A j \in Generic :
        RepeatCount[j] # Forever =>
            history.runs[j] <= (1 + history.updates) *
                               (IF j \in Once THEN 1 ELSE RepeatCount[j] + 1)

\* scheduler_lock serves its purpose: while a timer process is between the
\* load and the store of request_handler no other timer process is, and the
\* signal handler deletes no row.
HandlersExclusive ==
    /\ \A t, u \in Tid :
         /\ timers[t].pc \in {"run", "store"} /\ timers[u].pc \in {"run", "store"}
         => t = u
    /\ handler.pc # "off" => \A t \in Tid : timers[t].pc \notin {"run", "store"}

\* A scheduled job whose schedule is finite leaves the table in the end: timers
\* run out, follow-up jobs see their monitored request end, whether well or
\* not, and no_active_jobs sees the workers idle.
JobsEnd ==
    \A j \in Job : j \notin Timer \/ j \in Once \/ RepeatCount[j] # Forever
                   => (Entry(j) ~> ~Entry(j))

\* A timer job that is due is handled in the end.
DueJobsRun ==
    \A j \in Timer : (Entry(j) /\ schedule[j].due)
                       ~> ~(Entry(j) /\ schedule[j].due)

\* A cancel that was answered with status Done removes the job.
CancelledStops == \A j \in Job : (j \in history.cancelled) ~> ~Entry(j)

\* A follow-up job starts only after the request it monitors is Done without
\* errors.
FollowupWaits ==
    [][\A j \in FollowUp : j \in workers' \ workers =>
            Monitored(j).status = "Done" /\ Monitored(j).error = "0"]_vars

=============================================================================
