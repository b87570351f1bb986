---------------------------- MODULE SchedulerProofs ----------------------------
(* Theorems about the scheduler for every value of the constants.            *)
EXTENDS SchedulerInv, FiniteSetTheorems, TLAPS

-----------------------------------------------------------------------------
(* What a step may change                                                   *)

\* The main loop deletes rows and starts and wakes timer processes.
LEMMA MainFrame ==
    ASSUME MainStep
    PROVE  /\ UNCHANGED <<requests, workers, lock, handler, agent, history>>
           /\ UNCHANGED schedule \/ FollowEnd \/ (\E j \in Job : NoActiveRow(j))
           /\ UNCHANGED <<timers, child>> \/ MainWait \/ (\E j \in Job : MainTimerRow(j))
<1>1. CASE MainList \/ MainWait
  BY <1>1 DEF MainList, MainWait
<1>2. CASE FollowEnd
  BY <1>2 DEF FollowEnd
<1>3. ASSUME NEW j \in Job, MainTimerRow(j)
      PROVE  UNCHANGED <<schedule, requests, workers, lock, handler, agent, history>>
  BY <1>3 DEF MainTimerRow
<1>4. ASSUME NEW j \in Job, FollowRead(j)
      PROVE  UNCHANGED <<schedule, requests, workers, lock, handler, child, timers,
                         agent, history>>
  BY <1>4 DEF FollowRead
<1>5. ASSUME NEW j \in Job, NoActiveRow(j)
      PROVE  UNCHANGED <<requests, workers, lock, handler, child, timers, agent, history>>
  BY <1>5 DEF NoActiveRow
<1> QED
  BY <1>1, <1>2, <1>3, <1>4, <1>5 DEF MainStep

\* The signal handler deletes rows and answers requests.
LEMMA HandlerFrame ==
    ASSUME HandlerStep
    PROVE  /\ UNCHANGED <<workers, child, timers, agent, history>>
           /\ UNCHANGED schedule \/ (\E j \in Job : HandlerDelete(j))
           /\ UNCHANGED requests \/ HandlerStore
<1>1. CASE HandlerList \/ HandlerEnd \/ HandlerStore
  BY <1>1 DEF HandlerList, HandlerEnd, HandlerStore
<1>2. ASSUME NEW j \in Job, HandlerDelete(j)
      PROVE  UNCHANGED <<requests, workers, child, timers, agent, history>>
  BY <1>2 DEF HandlerDelete
<1> QED
  BY <1>1, <1>2 DEF HandlerStep

\* A timer process runs jobs and stores rows.
LEMMA TimerFrame ==
    ASSUME NEW t \in Tid, TimerStep(t)
    PROVE  /\ UNCHANGED <<workers, main, handler, child, agent>>
           /\ UNCHANGED schedule \/ HandleStore(t)
           /\ UNCHANGED <<requests, history>> \/ HandleRun(t)
           /\ UNCHANGED lock \/ HandleStore(t) \/ (\E j \in Job : HandleLoad(t, j))
<1>1. CASE TimerWake(t) \/ TimerList(t) \/ TimerDone(t)
  BY <1>1 DEF TimerWake, TimerList, TimerDone
<1>2. CASE HandleRun(t)
  BY <1>2 DEF HandleRun
<1>3. CASE HandleStore(t)
  BY <1>3 DEF HandleStore
<1>4. ASSUME NEW j \in Job, HandleLoad(t, j)
      PROVE  UNCHANGED <<schedule, requests, workers, main, handler, child, agent, history>>
  BY <1>4 DEF HandleLoad
<1> QED
  BY <1>1, <1>2, <1>3, <1>4 DEF TimerStep

\* Workers only change requests and the workers' table.
LEMMA WorkerFrame ==
    ASSUME NEW j \in Job, WorkerStep(j)
    PROVE  UNCHANGED <<schedule, lock, main, handler, child, timers, agent, history>>
BY DEF WorkerStep, WorkerStart, WorkerEnd

\* Which steps change a row of the schedule table,
LEMMA ScheduleFrame ==
    ASSUME [Next]_vars
    PROVE  \/ UNCHANGED schedule \/ FollowEnd
           \/ \E j \in Job : Schedule(j) \/ Tick(j) \/ NoActiveRow(j) \/ HandlerDelete(j)
           \/ \E j \in Job, op \in {"cancel", "modify"} : Update(j, op)
           \/ \E t \in Tid : HandleStore(t)
<1>1. CASE Signal \/ Kill \/ mCheckScheduler \/ UNCHANGED vars
  BY <1>1 DEF Signal, Kill, mCheckScheduler, vars
<1>2. CASE MainStep \/ HandlerStep
  BY <1>2, MainFrame, HandlerFrame
<1>3. CASE \E j \in Job : WorkerStep(j)
  BY <1>3, WorkerFrame
<1>4. CASE \E t \in Tid : TimerStep(t)
  BY <1>4, TimerFrame
<1> QED
  BY <1>1, <1>2, <1>3, <1>4 DEF Next

\* ... which ones a request,
LEMMA RequestsFrame ==
    ASSUME [Next]_vars
    PROVE  \/ UNCHANGED requests \/ HandlerStore
           \/ \E j \in Job : Schedule(j) \/ WorkerStep(j)
           \/ \E t \in Tid : HandleRun(t)
<1>1. CASE \/ Signal \/ Kill \/ mCheckScheduler \/ UNCHANGED vars
           \/ \E j \in Job : Tick(j) \/ \E op \in {"cancel", "modify"} : Update(j, op)
  BY <1>1 DEF Signal, Kill, mCheckScheduler, Tick, Update, vars
<1>2. CASE MainStep \/ HandlerStep
  BY <1>2, MainFrame, HandlerFrame
<1>3. CASE \E t \in Tid : TimerStep(t)
  BY <1>3, TimerFrame
<1> QED
  BY <1>1, <1>2, <1>3 DEF Next

\* ... which ones a timer process,
LEMMA TimersFrame ==
    ASSUME [Next]_vars
    PROVE  \/ UNCHANGED timers \/ MainWait
           \/ \E j \in Job : MainTimerRow(j)
           \/ \E t \in Tid : TimerStep(t)
<1>1. CASE Signal \/ Kill \/ mCheckScheduler \/ UNCHANGED vars
  BY <1>1 DEF Signal, Kill, mCheckScheduler, vars
<1>2. CASE MainStep \/ HandlerStep
  BY <1>2, MainFrame, HandlerFrame
<1>3. CASE \E j \in Job : Schedule(j) \/ Tick(j) \/ \E op \in {"cancel", "modify"} : Update(j, op)
  BY <1>3 DEF Schedule, Tick, Update
<1>4. CASE \E j \in Job : WorkerStep(j)
  BY <1>4, WorkerFrame
<1> QED
  BY <1>1, <1>2, <1>3, <1>4 DEF Next

\* ... and which ones what has happened so far.
LEMMA HistoryFrame ==
    ASSUME [Next]_vars
    PROVE  \/ UNCHANGED history \/ Signal \/ Kill
           \/ \E j \in Job : Tick(j)
           \/ \E j \in Job, op \in {"cancel", "modify"} : Update(j, op)
           \/ \E t \in Tid : HandleRun(t)
<1>1. CASE mCheckScheduler \/ UNCHANGED vars \/ \E j \in Job : Schedule(j)
  BY <1>1 DEF mCheckScheduler, Schedule, vars
<1>2. CASE MainStep \/ HandlerStep
  BY <1>2, MainFrame, HandlerFrame
<1>3. CASE \E j \in Job : WorkerStep(j)
  BY <1>3, WorkerFrame
<1>4. CASE \E t \in Tid : TimerStep(t)
  BY <1>4, TimerFrame
<1> QED
  BY <1>1, <1>2, <1>3, <1>4 DEF Next

-----------------------------------------------------------------------------
(* Type correctness                                                         *)

LEMMA Constants ==
    /\ Timer \subseteq Job /\ FollowUp \subseteq Job /\ NoJob \notin Job
    /\ \A j \in Job : RepeatCount[j] \in Int /\ RepeatCount[j] >= -1
    /\ None \notin Tid /\ None # Sched /\ Sched \notin Tid
<1> QED
  BY SchedulerAssumption DEF SchedulerAssumption, Forever

\* The values the actions store.
LEMMA Values ==
    /\ NoEntry \in Entries /\ NoEntry.last = -1 /\ NoEntry.due = FALSE
    /\ NewEntry \in Entries /\ NewEntry.last = -1
    /\ NoRequest \in Requests
    /\ IdleTimer \in Timers /\ IdleTimer.pc = "wait" /\ IdleTimer.left = {}
    /\ UnbornTimer \in Timers /\ UnbornTimer.pc = "unborn" /\ UnbornTimer.left = {}
    /\ IdleHandler \in Handlers /\ IdleHandler.pc = "off"
<1>1. NoEntry \in Entries /\ NoEntry.last = -1 /\ NoEntry.due = FALSE
  BY DEF NoEntry, Entries, Forever
<1>2. NewEntry \in Entries /\ NewEntry.last = -1
  BY DEF NewEntry, Entries, Forever
<1>3. NoRequest \in Requests
  BY DEF NoRequest, Requests
<1>4. IdleTimer \in Timers /\ IdleTimer.pc = "wait" /\ IdleTimer.left = {}
  BY <1>1, <1>3 DEF IdleTimer, Timers
<1>5. UnbornTimer \in Timers /\ UnbornTimer.pc = "unborn" /\ UnbornTimer.left = {}
  BY <1>4 DEF UnbornTimer, Timers
<1>6. IdleHandler \in Handlers /\ IdleHandler.pc = "off"
  BY <1>3 DEF IdleHandler, Handlers
<1> QED
  BY <1>1, <1>2, <1>3, <1>4, <1>5, <1>6

\* What request_handler stores is a row, whose counter respects repeat_count.
LEMMA HandledRow ==
    ASSUME NEW j \in Job, NEW copy \in Entries, schedule[j] \in Entries,
           schedule[j].last <= RepeatCount[j], copy.last <= RepeatCount[j]
    PROVE  /\ Handled(j, copy) \in Entries
           /\ Handled(j, copy).last <= RepeatCount[j]
           /\ copy # NoEntry => ~Handled(j, copy).due
           /\ copy = NoEntry => Handled(j, copy) = schedule[j]
<1> USE Constants, Values DEF Entries, Forever
<1> DEFINE last == IF More(j, copy.last) THEN copy.last + 1 ELSE copy.last
<1>1. /\ last \in Nat \cup {-1} /\ copy.last <= last
      /\ More(j, copy.last) => last >= 0
      /\ RepeatCount[j] # Forever => last <= RepeatCount[j]
  BY DEF More
<1> HIDE DEF last
<1>2. Handled(j, copy) =
        CASE copy = NoEntry -> schedule[j]
          [] copy # NoEntry /\ j \in Once -> NoEntry
          [] copy # NoEntry /\ j \notin Once /\ More(j, last) ->
               [copy EXCEPT !.due = FALSE,
                            !.last = IF RepeatCount[j] = Forever THEN @ ELSE last]
          [] copy # NoEntry /\ j \notin Once /\ last = RepeatCount[j] -> NoEntry
          [] OTHER -> [copy EXCEPT !.last = last]
  BY Zenon DEF Handled, last
<1>3. CASE copy = NoEntry
  BY <1>2, <1>3
<1>4. CASE copy # NoEntry /\ j \in Once
  BY <1>2, <1>4
<1>5. CASE copy # NoEntry /\ j \notin Once /\ More(j, last)
  <2>1. last # RepeatCount[j]
    <3>1. last >= 0 \/ (last = copy.last /\ ~More(j, last))
      BY <1>1 DEF last
    <3> QED
      BY <1>1, <1>5, <3>1 DEF More
  <2>2. Handled(j, copy) =
          [copy EXCEPT !.due = FALSE,
                       !.last = IF RepeatCount[j] = Forever THEN @ ELSE last]
    BY <1>2, <1>5, <2>1
  <2>3. CASE RepeatCount[j] = Forever
    <3>1. Handled(j, copy) = [copy EXCEPT !.due = FALSE]
      BY <2>2, <2>3
    <3> QED
      BY <1>5, <3>1
  <2>4. CASE RepeatCount[j] # Forever
    <3>1. Handled(j, copy) = [copy EXCEPT !.due = FALSE, !.last = last]
      BY <2>2, <2>4
    <3> QED
      BY <1>1, <1>5, <2>4, <3>1
  <2> QED
    BY <2>3, <2>4
<1>6. CASE copy # NoEntry /\ j \notin Once /\ ~More(j, last)
  <2>1. RepeatCount[j] # -1 /\ ~(last < RepeatCount[j])
    BY <1>6, Zenon DEF More
  <2>2. last = RepeatCount[j]
    <3>1. last \in Int /\ RepeatCount[j] \in Int
      BY <1>1
    <3>2. last <= RepeatCount[j]
      BY <1>1, <2>1
    <3> QED
      BY <2>1, <3>1, <3>2
  <2> QED
    BY <1>2, <1>6, <2>2
<1> QED
  BY <1>3, <1>4, <1>5, <1>6

LEMMA InitTypes == ASSUME Init PROVE TypeInv
<1>1. TableTypes
  <2>1. [NewEntry EXCEPT !.due = TRUE] \in Entries
        /\ [NewEntry EXCEPT !.due = TRUE].last = -1
    BY Values DEF Entries
  <2> QED
    BY <2>1, Constants, Values DEF Init, TableTypes
<1>2. ThreadTypes
  BY Values DEF Init, ThreadTypes, BootMain, IdleAgent
<1>3. TimerTypes
  BY Values DEF Init, TimerTypes, Handling
<1>4. history \in Histories
  BY DEF Init, Histories
<1> QED
  BY <1>1, <1>2, <1>3, <1>4 DEF TypeInv

LEMMA TablesNext ==
    ASSUME TypeInv, [Next]_vars
    PROVE  TableTypes'
<1> USE Constants, Values DEF TypeInv, TableTypes
<1>1. ASSUME NEW j \in Job, Schedule(j) PROVE TableTypes'
  BY <1>1 DEF Schedule, Requests
<1>2. ASSUME NEW j \in Job, NEW op \in {"cancel", "modify"}, Update(j, op)
      PROVE TableTypes'
  <2>1. ModifyRow(j, op) \in Entries /\ ModifyRow(j, op).last = -1
    BY DEF ModifyRow, Entries, Forever
  <2> QED
    BY <1>2, <2>1 DEF Update, mUpdateSchedule
<1>3. ASSUME NEW j \in Job, WorkerStep(j) PROVE TableTypes'
  BY <1>3 DEF WorkerStep, WorkerStart, WorkerEnd, mUpdateRequest, Requests
<1>4. ASSUME NEW j \in Job, Tick(j) PROVE TableTypes'
  BY <1>4 DEF Tick, Entries
<1>5. CASE FollowEnd
  BY <1>5 DEF FollowEnd, mDelScheduleEntry
<1>6. ASSUME NEW j \in Job, NoActiveRow(j) PROVE TableTypes'
  BY <1>6 DEF NoActiveRow
<1>7. ASSUME NEW j \in Job, HandlerDelete(j) PROVE TableTypes'
  BY <1>7 DEF HandlerDelete, mDelScheduleEntry
<1>8. CASE HandlerStore
  <2>1. [handler.req EXCEPT !.status = "Done"] \in Requests
    BY DEF ThreadTypes, Handlers, Requests
  <2> QED
    BY <1>8, <2>1 DEF HandlerStore, mUpdateRequest
<1>9. ASSUME NEW t \in Tid, HandleRun(t) PROVE TableTypes'
  <2>1. timers[t] \in Timers
    BY DEF TimerTypes
  <2>2. [timers[t].req EXCEPT !.status = "Done"] \in Requests
    BY <2>1 DEF Timers, Requests
  <2> QED
    BY <1>9, <2>2 DEF HandleRun, mUpdateRequest
<1>10. ASSUME NEW t \in Tid, HandleStore(t) PROVE TableTypes'
  <2>1. /\ timers[t].job \in Job /\ timers[t].copy \in Entries
        /\ timers[t].copy.last <= RepeatCount[timers[t].job]
    BY <1>10 DEF HandleStore, TimerTypes, Timers, Handling
  <2>2. /\ Handled(timers[t].job, timers[t].copy) \in Entries
        /\ Handled(timers[t].job, timers[t].copy).last
             <= RepeatCount[timers[t].job]
    BY <2>1, HandledRow
  <2> QED
    BY <1>10, <2>1, <2>2 DEF HandleStore, mUpdateSchedule
<1>11. CASE UNCHANGED <<schedule, requests, workers>>
  BY <1>11
<1>12. CASE MainStep
  BY <1>5, <1>6, <1>11, <1>12, MainFrame
<1>13. CASE HandlerStep
  BY <1>7, <1>8, <1>11, <1>13, HandlerFrame
<1>14. ASSUME NEW t \in Tid, TimerStep(t) PROVE TableTypes'
  BY <1>9, <1>10, <1>11, <1>14, TimerFrame
<1>15. CASE Signal \/ Kill \/ mCheckScheduler \/ UNCHANGED vars
  BY <1>11, <1>15 DEF Signal, Kill, mCheckScheduler, vars
<1> QED
  BY <1>1, <1>2, <1>3, <1>4, <1>12, <1>13, <1>14, <1>15 DEF Next

LEMMA ThreadsNext ==
    ASSUME TypeInv, [Next]_vars
    PROVE  ThreadTypes'
<1> USE Constants, Values DEF TypeInv, ThreadTypes
<1>1. CASE Signal
  <2>1. [handler EXCEPT !.signal = TRUE] \in Handlers
        /\ [handler EXCEPT !.signal = TRUE].pc = handler.pc
        /\ [handler EXCEPT !.signal = TRUE].job = handler.job
    BY DEF Handlers
  <2>2. IdleAgent \in [job : Job \cup {NoJob}, op : {"none", "cancel", "modify"}]
    BY DEF IdleAgent
  <2> QED
    BY <1>1, <2>1, <2>2 DEF Signal
<1>2. CASE Kill \/ mCheckScheduler
  <2>1. BootMain.pc = "list" /\ [BootMain EXCEPT !.pc = "dead"].pc = "dead"
        /\ [BootMain EXCEPT !.pc = "dead"] \in [pc : {"dead"}, left : SUBSET Job,
                                               job : Job \cup {NoJob}]
        /\ BootMain \in [pc : {"list"}, left : SUBSET Job, job : Job \cup {NoJob}]
    BY DEF BootMain
  <2> QED
    BY <1>2, <2>1 DEF Kill, mCheckScheduler
<1>3. ASSUME NEW j \in Job, NEW op \in {"cancel", "modify"}, Update(j, op)
      PROVE ThreadTypes'
  BY <1>3 DEF Update
<1>4. CASE MainList
  BY <1>4 DEF MainList, MainAt
<1>5. CASE FollowEnd
  BY <1>5 DEF FollowEnd, MainAt, Crashed, BootMain
<1>6. CASE MainWait
  BY <1>6 DEF MainWait, BootMain
<1>7. ASSUME NEW j \in Job, MainTimerRow(j) \/ NoActiveRow(j) PROVE ThreadTypes'
  BY <1>7 DEF MainTimerRow, NoActiveRow, MainAt
<1>8. ASSUME NEW j \in Job, FollowRead(j) PROVE ThreadTypes'
  <2>1. CASE main' = Crashed
    BY <1>8, <2>1 DEF FollowRead, Crashed, BootMain
  <2>2. CASE main' = [main EXCEPT !.pc = "follow", !.left = @ \ {j}, !.job = j]
    BY <1>8, <2>2 DEF FollowRead
  <2>3. CASE main' = [main EXCEPT !.left = @ \ {j}]
    BY <1>8, <2>3 DEF FollowRead, MainAt
  <2> QED
    BY <1>8, <2>1, <2>2, <2>3 DEF FollowRead
<1>9. CASE HandlerList \/ HandlerEnd
  <2>1. CASE HandlerList
    <3>1. [handler EXCEPT !.pc = "rows", !.signal = FALSE,
              !.left = {j \in Job : schedule[j].op = "cancel"}] \in Handlers
      BY DEF Handlers
    <3> QED
      BY <2>1, <3>1 DEF HandlerList
  <2>2. CASE HandlerEnd
    BY <2>2 DEF HandlerEnd, Handlers
  <2> QED
    BY <1>9, <2>1, <2>2
<1>10. CASE HandlerStore
  BY <1>10 DEF HandlerStore, Handlers
<1>11. ASSUME NEW j \in Job, HandlerDelete(j) PROVE ThreadTypes'
  <2>1. requests[j] \in Requests
    BY DEF TableTypes
  <2>2. CASE requests[j] # NoRequest
    <3>1. [handler EXCEPT !.pc = "store", !.left = @ \ {j}, !.job = j,
                          !.req = requests[j]] \in Handlers
      BY <2>1 DEF Handlers
    <3> QED
      BY <1>11, <2>2, <3>1 DEF HandlerDelete, Handlers
  <2>3. CASE requests[j] = NoRequest
    <3>1. [IdleHandler EXCEPT !.signal = handler.signal] \in Handlers
          /\ [IdleHandler EXCEPT !.signal = handler.signal].pc = "off"
      BY DEF Handlers
    <3>2. Crashed \in [pc : {"hung", "dead"}, left : SUBSET Job,
                       job : Job \cup {NoJob}]
      BY DEF Crashed, BootMain
    <3> QED
      BY <1>11, <2>3, <3>1, <3>2 DEF HandlerDelete
  <2> QED
    BY <2>2, <2>3
<1>12. ASSUME NEW t \in Tid, HandleStore(t) \/ \E j \in Job : HandleLoad(t, j)
       PROVE ThreadTypes'
  BY <1>12 DEF HandleStore, HandleLoad
<1>13. CASE UNCHANGED <<lock, main, handler, child, agent>>
  BY <1>13
<1>14. ASSUME NEW t \in Tid, TimerStep(t) PROVE ThreadTypes'
  BY <1>12, <1>13, <1>14, TimerFrame
<1>15. CASE MainStep
  BY <1>4, <1>5, <1>6, <1>7, <1>8, <1>15 DEF MainStep
<1>16. CASE HandlerStep
  BY <1>9, <1>10, <1>11, <1>16 DEF HandlerStep
<1>17. ASSUME NEW j \in Job, Schedule(j) \/ Tick(j) \/ WorkerStep(j)
       PROVE  ThreadTypes'
  <2>1. UNCHANGED <<lock, main, handler, child, agent>>
    BY <1>17, WorkerFrame DEF Schedule, Tick
  <2> QED
    BY <1>13, <2>1
<1>18. CASE UNCHANGED vars
  BY <1>13, <1>18 DEF vars
<1> QED
  BY <1>1, <1>2, <1>3, <1>14, <1>15, <1>16, <1>17, <1>18 DEF Next

LEMMA TimersNext ==
    ASSUME TypeInv, [Next]_vars
    PROVE  TimerTypes'
<1> USE Values DEF TypeInv, TimerTypes
<1>1. ASSUME NEW t \in Tid, NEW x \in Timers, timers' = [timers EXCEPT ![t] = x],
             x.pc \in {"run", "store"} =>
                /\ x.job \in Job /\ x.copy.last <= RepeatCount[x.job]
      PROVE  TimerTypes'
  BY <1>1 DEF Handling
<1>2. ASSUME NEW t \in Tid, timers' = [timers EXCEPT ![t] = IdleTimer]
      PROVE  TimerTypes'
  BY <1>1, <1>2
<1>3. ASSUME NEW j \in Job, MainTimerRow(j) PROVE TimerTypes'
  <2>1. CASE child = None
    <3>1. PICK t \in Tid : timers' = [timers EXCEPT ![t] = IdleTimer]
      BY <1>3, <2>1 DEF MainTimerRow
    <3> QED
      BY <1>2, <3>1
  <2>2. CASE UNCHANGED timers
    BY <2>2 DEF Handling
  <2> QED
    BY <1>3, <2>1, <2>2 DEF MainTimerRow
<1>4. CASE MainWait
  <2>1. \A t \in Tid : [timers[t] EXCEPT !.event = TRUE] \in Timers
    BY DEF Timers
  <2>2. timers' \in [Tid -> Timers]
    BY <1>4, <2>1 DEF MainWait
  <2>3. \A t \in Tid : /\ timers'[t].pc = timers[t].pc
                       /\ timers'[t].job = timers[t].job
                       /\ timers'[t].copy = timers[t].copy
    BY <1>4 DEF MainWait, Timers
  <2> QED
    BY <2>2, <2>3 DEF Handling
<1>5. ASSUME NEW t \in Tid, TimerWake(t) \/ TimerList(t) PROVE TimerTypes'
  <2>1. [timers[t] EXCEPT !.pc = "list"] \in Timers
    BY DEF Timers
  <2>2. [timers[t] EXCEPT !.pc = "rows", !.left = {j \in Timer : schedule[j].due}]
          \in Timers
    BY DEF Timers
  <2>3. /\ [timers[t] EXCEPT !.pc = "list"].pc = "list"
        /\ [timers[t] EXCEPT !.pc = "rows",
                !.left = {j \in Timer : schedule[j].due}].pc = "rows"
    BY DEF Timers
  <2>4. \/ timers' = [timers EXCEPT ![t] = [timers[t] EXCEPT !.pc = "list"]]
        \/ timers' = [timers EXCEPT ![t] = [timers[t] EXCEPT !.pc = "rows",
                          !.left = {j \in Timer : schedule[j].due}]]
    BY <1>5 DEF TimerWake, TimerList
  <2> QED
    BY <1>1, <2>1, <2>2, <2>3, <2>4
<1>6. ASSUME NEW t \in Tid, NEW j \in Job, HandleLoad(t, j) PROVE TimerTypes'
  <2> DEFINE x == [timers[t] EXCEPT !.pc = "run", !.left = @ \ {j}, !.job = j,
                       !.copy = schedule[j], !.req = requests[j]]
  <2>1. schedule[j] \in Entries /\ requests[j] \in Requests
        /\ schedule[j].last <= RepeatCount[j]
    BY DEF TableTypes
  <2>2. x \in Timers /\ x.job = j /\ x.copy = schedule[j]
    BY <2>1 DEF Timers
  <2>3. timers' = [timers EXCEPT ![t] = x]
    BY <1>6 DEF HandleLoad
  <2> HIDE DEF x
  <2> QED
    BY <1>1, <2>1, <2>2, <2>3
<1>7. ASSUME NEW t \in Tid, HandleRun(t) PROVE TimerTypes'
  <2> DEFINE x == [timers[t] EXCEPT !.pc = "store"]
  <2>1. x \in Timers /\ x.job = timers[t].job /\ x.copy = timers[t].copy
    BY DEF Timers
  <2>2. timers' = [timers EXCEPT ![t] = x] /\ Handling(t)
    BY <1>7 DEF HandleRun, Handling
  <2> HIDE DEF x
  <2> QED
    BY <1>1, <2>1, <2>2
<1>8. ASSUME NEW t \in Tid, HandleStore(t) PROVE TimerTypes'
  <2> DEFINE x == [timers[t] EXCEPT !.pc = "rows", !.job = NoJob, !.copy = NoEntry,
                                    !.req = NoRequest]
  <2>1. x \in Timers /\ x.pc = "rows"
    BY DEF Timers
  <2>2. timers' = [timers EXCEPT ![t] = x]
    BY <1>8 DEF HandleStore
  <2> HIDE DEF x
  <2> QED
    BY <1>1, <2>1, <2>2
<1>9. ASSUME NEW t \in Tid, TimerDone(t) PROVE TimerTypes'
  BY <1>2, <1>9 DEF TimerDone
<1>10. CASE UNCHANGED timers
  BY <1>10 DEF Handling
<1> QED
  BY <1>3, <1>4, <1>5, <1>6, <1>7, <1>8, <1>9, <1>10, TimersFrame DEF TimerStep

LEMMA HistoryNext ==
    ASSUME TypeInv, [Next]_vars
    PROVE  history' \in Histories
<1> USE DEF TypeInv, Histories
<1>1. CASE Signal
  <2>1. agent.job \in Job
    BY <1>1 DEF Signal, ThreadTypes
  <2> QED
    BY <1>1, <2>1 DEF Signal
<1>2. CASE Kill
  BY <1>2 DEF Kill
<1>3. ASSUME NEW j \in Job, Tick(j) PROVE history' \in Histories
  BY <1>3 DEF Tick
<1>4. ASSUME NEW j \in Job, NEW op \in {"cancel", "modify"}, Update(j, op)
      PROVE history' \in Histories
  BY <1>4 DEF Update
<1>5. ASSUME NEW t \in Tid, HandleRun(t) PROVE history' \in Histories
  <2>1. \/ UNCHANGED history
        \/ history' = [history EXCEPT !.runs[timers[t].job] = @ + 1]
    BY <1>5 DEF HandleRun
  <2>2. timers[t].job \in Job
    BY <1>5 DEF HandleRun, TimerTypes, Handling
  <2> QED
    BY <2>1, <2>2
<1>6. CASE UNCHANGED history
  BY <1>6
<1> QED
  BY <1>1, <1>2, <1>3, <1>4, <1>5, <1>6, HistoryFrame

LEMMA TypeNext == ASSUME TypeInv, [Next]_vars PROVE TypeInv'
<1> QED
  BY TablesNext, ThreadsNext, TimersNext, HistoryNext DEF TypeInv

\* The tables and the state of every process keep their types, and no row
\* counts more repetitions than its repeat_count.
THEOREM SchedulerTypes == Spec => []TypeOK
<1>1. TypeInv => TypeOK
  <2> SUFFICES ASSUME TypeInv PROVE TypeOK
    OBVIOUS
  <2>1. Entries \subseteq [op : {"none", "schedule", "cancel", "modify"},
                           due : BOOLEAN, last : Int]
    BY DEF Entries, Forever
  <2>2. /\ schedule \in [Job -> [op : {"none", "schedule", "cancel", "modify"},
                                 due : BOOLEAN, last : Int]]
        /\ \A j \in Job : schedule[j].last <= RepeatCount[j]
        /\ workers \subseteq Job
    BY <2>1 DEF TypeInv, TableTypes
  <2>3. requests \in [Job -> [status : {"none", "Pending", "Done"},
                              error : {"Undef", "0", "own"}]]
    BY DEF TypeInv, TableTypes, Requests
  <2>4. handler.pc \in {"off", "rows", "store"} /\ handler.signal \in BOOLEAN
    BY DEF TypeInv, ThreadTypes, Handlers
  <2>5. \A t \in Tid : timers[t].pc \in {"unborn", "wait", "list", "rows", "run",
                                         "store"}
    BY DEF TypeInv, TimerTypes, Timers
  <2> QED
    BY <2>2, <2>3, <2>4, <2>5 DEF TypeInv, ThreadTypes, TypeOK
<1> QED
  BY <1>1, InitTypes, TypeNext, PTL DEF Spec

-----------------------------------------------------------------------------
(* Mutual exclusion by scheduler_lock                                       *)

LEMMA LockNext ==
    ASSUME TypeInv, LockInv, [Next]_vars
    PROVE  LockInv'
<1> USE Constants DEF LockInv, Handling, TypeInv, ThreadTypes, TimerTypes
<1>1. ASSUME NEW t \in Tid, TimerStep(t) PROVE LockInv'
  <2> timers[t] \in Timers /\ t # None /\ t # Sched
    OBVIOUS
  <2>1. CASE TimerWake(t) \/ TimerList(t) \/ TimerDone(t)
    <3>1. \A u \in Tid : Handling(u)' <=> Handling(u)
      BY <2>1 DEF TimerWake, TimerList, TimerDone, IdleTimer, Timers
    <3> QED
      BY <2>1, <3>1 DEF TimerWake, TimerList, TimerDone
  <2>2. CASE HandleRun(t)
    BY <2>2 DEF HandleRun, Timers
  <2>3. CASE HandleStore(t)
    BY <2>3 DEF HandleStore, Timers
  <2>4. ASSUME NEW j \in Job, HandleLoad(t, j) PROVE LockInv'
    BY <2>4 DEF HandleLoad, Timers
  <2> QED
    BY <1>1, <2>1, <2>2, <2>3, <2>4 DEF TimerStep
<1>2. CASE HandlerStep
  <2>1. CASE HandlerList
    BY <2>1 DEF HandlerList, Handlers
  <2>2. CASE HandlerStore
    BY <2>2 DEF HandlerStore, Handlers
  <2>3. CASE HandlerEnd
    BY <2>3 DEF HandlerEnd, Handlers
  <2>4. ASSUME NEW j \in Job, HandlerDelete(j) PROVE LockInv'
    <3>1. handler'.pc # "off" <=> lock' = Sched
      BY <2>4, Values DEF HandlerDelete, Handlers
    <3>2. UNCHANGED lock \/ (lock = Sched /\ lock' = None)
      BY <2>4 DEF HandlerDelete
    <3>3. main'.pc = "dead" => handler'.pc = "off"
      BY <2>4, Values DEF HandlerDelete, Handlers
    <3> QED
      BY <2>4, <3>1, <3>2, <3>3 DEF HandlerDelete
  <2> QED
    BY <1>2, <2>1, <2>2, <2>3, <2>4 DEF HandlerStep
<1>3. CASE Kill \/ mCheckScheduler
  BY <1>3, Values DEF Kill, mCheckScheduler, BootMain
<1>4. CASE MainStep
  <2>1. CASE MainWait
    <3>1. \A t \in Tid : timers'[t].pc = timers[t].pc
      BY <2>1 DEF MainWait, Timers
    <3> QED
      BY <2>1, <3>1 DEF MainWait, MainAt, BootMain
  <2>2. ASSUME NEW j \in Job, MainTimerRow(j) PROVE LockInv'
    <3>1. \A t \in Tid : Handling(t)' <=> Handling(t)
      <4>1. CASE child = None
        <5>1. PICK t \in Tid : /\ timers[t].pc = "unborn"
                               /\ timers' = [timers EXCEPT ![t] = IdleTimer]
          BY <2>2, <4>1 DEF MainTimerRow
        <5> QED
          BY <5>1, Values
      <4> QED
        BY <2>2, <4>1 DEF MainTimerRow
    <3> QED
      BY <2>2, <3>1 DEF MainTimerRow, MainAt
  <2>3. CASE UNCHANGED <<timers, lock, handler>> /\ handler.pc = "off"
    BY <2>3
  <2> QED
    BY <1>4, <2>1, <2>2, <2>3 DEF MainStep, MainAt, MainList, FollowEnd,
       FollowRead, NoActiveRow
<1>5. CASE Signal
  <2>1. handler'.pc = handler.pc
    BY <1>5 DEF Signal, Handlers
  <2> QED
    BY <1>5, <2>1 DEF Signal
<1>6. CASE UNCHANGED <<timers, lock, handler, main>>
  BY <1>6
<1> QED
  BY <1>1, <1>2, <1>3, <1>4, <1>5, <1>6
     DEF Next, vars, Schedule, WorkerStep, WorkerStart, WorkerEnd, Tick, Update

\* scheduler_lock keeps request_handler of every timer process and the signal
\* handler apart, also when the scheduler is killed and started again beside
\* the timer process it left.
THEOREM LockKeepsApart == Spec => []HandlersExclusive
<1>1. Init => LockInv
  BY Constants, Values DEF Init, LockInv, Handling, BootMain
<1>2. LockInv => HandlersExclusive
  BY Constants DEF LockInv, HandlersExclusive, Handling
<1> QED
  BY <1>1, <1>2, InitTypes, TypeNext, LockNext, PTL DEF Spec

-----------------------------------------------------------------------------
(* Runs and due times                                                       *)

\* A request that is in table requests stays there.
LEMMA KnownStays ==
    ASSUME TypeInv, [Next]_vars, NEW j \in Job, Known(j)
    PROVE  Known(j)'
<1> USE DEF TypeInv, TableTypes, Known
<1>1. ASSUME NEW k \in Job, NEW r \in Requests, r.status # "none",
             mUpdateRequest(k, r)
      PROVE  Known(j)'
  BY <1>1 DEF mUpdateRequest, NoRequest
<1>2. ASSUME NEW k \in Job, Schedule(k) PROVE Known(j)'
  BY <1>2 DEF Schedule, Requests, NoRequest
<1>3. ASSUME NEW k \in Job, WorkerStep(k) PROVE Known(j)'
  BY <1>1, <1>3 DEF WorkerStep, WorkerStart, WorkerEnd, Requests
<1>4. CASE HandlerStore
  <2>1. /\ [handler.req EXCEPT !.status = "Done"] \in Requests
        /\ [handler.req EXCEPT !.status = "Done"].status = "Done"
        /\ handler.job \in Job
    BY <1>4 DEF HandlerStore, ThreadTypes, Handlers, Requests
  <2> QED
    BY <1>1, <1>4, <2>1 DEF HandlerStore
<1>5. ASSUME NEW t \in Tid, HandleRun(t) PROVE Known(j)'
  <2>1. timers[t].req \in Requests /\ timers[t].job \in Job
    BY <1>5 DEF HandleRun, TimerTypes, Timers, Handling
  <2>2. /\ [timers[t].req EXCEPT !.status = "Done"] \in Requests
        /\ [timers[t].req EXCEPT !.status = "Done"].status = "Done"
    BY <2>1 DEF Requests
  <2> QED
    BY <1>1, <1>5, <2>1, <2>2 DEF HandleRun
<1>6. CASE UNCHANGED requests
  BY <1>6
<1> QED
  BY <1>2, <1>3, <1>4, <1>5, <1>6, RequestsFrame

\* No step but Schedule brings a row back, and none but Tick makes one due.
LEMMA RowsStay ==
    ASSUME TypeInv, RowInv, [Next]_vars, NEW j \in Job
    PROVE  /\ Entry(j)' => Entry(j) \/ Schedule(j)
           /\ schedule'[j].due => schedule[j].due \/ Tick(j)
<1> USE Values DEF TypeInv, TableTypes, Entry
<1>1. ASSUME NEW k \in Job, Schedule(k) PROVE /\ Entry(j)' => Entry(j) \/ Schedule(j)
                                              /\ schedule'[j].due => schedule[j].due
  <2>1. ~NewEntry.due
    BY DEF NewEntry
  <2> QED
    BY <1>1, <2>1 DEF Schedule
<1>2. ASSUME NEW k \in Job, NEW op \in {"cancel", "modify"}, Update(k, op)
      PROVE  /\ Entry(j)' => Entry(j)
             /\ schedule'[j].due => schedule[j].due
  BY <1>2 DEF Update, mUpdateSchedule, ModifyRow
<1>3. ASSUME NEW k \in Job, Tick(k) PROVE /\ Entry(j)' => Entry(j)
                                          /\ schedule'[j].due => schedule[j].due \/ Tick(j)
  BY <1>3 DEF Tick
<1>4. ASSUME NEW t \in Tid, HandleStore(t)
      PROVE  /\ Entry(j)' => Entry(j)
             /\ schedule'[j].due => schedule[j].due
  <2>1. /\ timers[t].job \in Job /\ timers[t].copy \in Entries
        /\ timers[t].copy.last <= RepeatCount[timers[t].job]
    BY <1>4 DEF HandleStore, TimerTypes, Timers, Handling
  <2>2. \/ Handled(timers[t].job, timers[t].copy) = schedule[timers[t].job]
        \/ ~Handled(timers[t].job, timers[t].copy).due
    BY <2>1, HandledRow
  <2> HIDE DEF Entry
  <2>3. schedule' = [schedule EXCEPT ![timers[t].job] =
            IF Entry(timers[t].job) THEN Handled(timers[t].job, timers[t].copy)
                                    ELSE NoEntry]
    BY <1>4 DEF HandleStore, mUpdateSchedule
  <2>4. CASE j = timers[t].job
    BY <2>1, <2>2, <2>3, <2>4 DEF Entry
  <2>5. CASE j # timers[t].job
    BY <2>3, <2>5 DEF Entry
  <2> QED
    BY <2>4, <2>5
<1>5. CASE FollowEnd \/ (\E k \in Job : NoActiveRow(k) \/ HandlerDelete(k))
  BY <1>5 DEF FollowEnd, NoActiveRow, HandlerDelete, mDelScheduleEntry
<1>6. CASE UNCHANGED schedule
  BY <1>6
<1> QED
  BY <1>1, <1>2, <1>3, <1>4, <1>5, <1>6, ScheduleFrame

LEMMA RowsNext ==
    ASSUME TypeInv, LockInv, RowInv, [Next]_vars
    PROVE  RowInv'
<1>1. \A j \in Job : Entry(j)' => Known(j)'
  <2> SUFFICES ASSUME NEW j \in Job, Entry(j)' PROVE Known(j)'
    OBVIOUS
  <2>1. CASE Entry(j)
    BY <2>1, KnownStays DEF RowInv
  <2>2. CASE Schedule(j)
    BY <2>2 DEF Schedule, Known, TypeInv, TableTypes, Requests, NoRequest
  <2> QED
    BY <2>1, <2>2, RowsStay
<1>2. ASSUME NEW t \in Tid
      PROVE  /\ \A j \in (timers[t].left)' : Known(j)'
             /\ (timers[t].pc)' \in {"unborn", "wait", "list"} => (timers[t].left)' = {}
             /\ Handling(t)' => /\ Known(timers[t].job)'
                                /\ (timers[t].job)' \notin (timers[t].left)'
  <2> DEFINE x == timers[t]
             y == timers'[t]
  <2>1. x \in Timers /\ x.left \subseteq Job
    BY Constants DEF TypeInv, TimerTypes, Timers
  <2>2. CASE /\ y.left \subseteq x.left /\ y.pc = x.pc /\ y.job = x.job
    BY <2>1, <2>2, KnownStays DEF RowInv, Handling, TypeInv, TimerTypes
  <2>3. CASE y.left = {} /\ ~(y.pc \in {"run", "store"})
    BY <2>3 DEF Handling
  <2>4. CASE TimerList(t)
    <3>1. y.left = {j \in Timer : schedule[j].due} /\ y.pc = "rows"
      BY <2>1, <2>4 DEF TimerList, TypeInv, TimerTypes, Timers
    <3>2. \A j \in y.left : j \in Job /\ Entry(j)
      BY <3>1, Constants, Values DEF Entry
    <3> QED
      BY <3>1, <3>2, KnownStays DEF RowInv, Handling
  <2>5. ASSUME NEW j \in Job, HandleLoad(t, j)
        PROVE  /\ y.left = x.left \ {j} /\ y.job = j /\ y.pc = "run" /\ j \in x.left
    BY <2>1, <2>5 DEF HandleLoad, TypeInv, TimerTypes, Timers
  <2>6. CASE \E j \in Job : HandleLoad(t, j)
    BY <2>1, <2>5, <2>6, KnownStays DEF RowInv, Handling
  <2>7. CASE HandleRun(t)
    <3>1. y.left = x.left /\ y.job = x.job /\ y.pc = "store" /\ x.pc = "run"
      BY <2>1, <2>7 DEF HandleRun, TypeInv, TimerTypes, Timers
    <3> QED
      BY <2>1, <3>1, KnownStays DEF RowInv, Handling, TypeInv, TimerTypes
  <2>8. CASE HandleStore(t)
    <3>1. y.left = x.left /\ y.pc = "rows"
      BY <2>1, <2>8 DEF HandleStore, TypeInv, TimerTypes, Timers
    <3> QED
      BY <2>1, <3>1, KnownStays DEF RowInv, Handling
  <2>9. CASE TimerDone(t)
    BY <2>3, <2>9, Values DEF TimerDone, TypeInv, TimerTypes
  <2>10. CASE TimerWake(t)
    <3>1. y.left = x.left /\ y.pc = "list" /\ x.pc = "wait"
      BY <2>1, <2>10 DEF TimerWake, TypeInv, TimerTypes, Timers
    <3> QED
      BY <2>3, <3>1 DEF RowInv
  <2>11. ASSUME NEW j \in Job, MainTimerRow(j) PROVE y = x \/ y = IdleTimer
    <3>1. CASE child = None
      <4>1. PICK u \in Tid : timers' = [timers EXCEPT ![u] = IdleTimer]
        BY <2>11, <3>1 DEF MainTimerRow
      <4> QED
        BY <4>1 DEF TypeInv, TimerTypes
    <3> QED
      BY <2>11, <3>1 DEF MainTimerRow
  <2>12. CASE MainWait
    BY <2>1, <2>2, <2>12 DEF MainWait, Timers
  <2>13. ASSUME NEW u \in Tid, u # t, TimerStep(u) PROVE y = x
    BY <2>13 DEF TimerStep, TimerWake, TimerList, HandleLoad, HandleRun, HandleStore,
       TimerDone, TypeInv, TimerTypes
  <2>14. y = x \/ y = IdleTimer \/ MainWait \/ TimerStep(t)
    BY <2>11, <2>13, TimersFrame DEF TimerStep
  <2>15. CASE y = IdleTimer
    BY <2>3, <2>15, Values
  <2> HIDE DEF x, y
  <2>16. CASE y = x
    BY <2>2, <2>16
  <2> QED
    BY <2>4, <2>6, <2>7, <2>8, <2>9, <2>10, <2>12, <2>14, <2>15, <2>16 DEF TimerStep
<1>3. ASSUME NEW t \in Tid, Handling(t)', (timers[t].copy)' = NoEntry
      PROVE  ~Entry(timers[t].job)'
  <2>1. CASE \E j \in Job : HandleLoad(t, j)
    BY <2>1, <1>3 DEF HandleLoad, TypeInv, TimerTypes, Timers, Entry
  <2>2. CASE /\ Handling(t) /\ timers'[t].copy = timers[t].copy
             /\ timers'[t].job = timers[t].job
    <3>1. PICK k \in Job : k = timers[t].job
      BY <2>2 DEF TypeInv, TimerTypes
    <3>2. ~Entry(k) /\ Known(k)
      BY <1>3, <2>2, <3>1 DEF RowInv
    <3>3. ~Schedule(k)
      BY <3>2 DEF Schedule, Known
    <3>4. ~Entry(k)'
      BY <3>2, <3>3, RowsStay
    <3> QED
      BY <2>2, <3>1, <3>4 DEF Entry
  <2>3. CASE HandleRun(t)
    BY <2>2, <2>3 DEF HandleRun, TypeInv, TimerTypes, Timers, Handling
  <2> USE Values
  <2>4. CASE MainStep
    <3>1. \A j \in Job : MainTimerRow(j) =>
             timers'[t] = timers[t] \/ timers'[t] = IdleTimer
      BY DEF MainTimerRow, TypeInv, TimerTypes
    <3>2. CASE MainWait
      BY <1>3, <2>2, <3>2 DEF MainWait, TypeInv, TimerTypes, Timers, Handling
    <3> QED
      BY <1>3, <2>2, <2>4, <3>1, <3>2 DEF MainStep, MainList, FollowEnd,
         FollowRead, NoActiveRow, Handling
  <2>5. ASSUME NEW u \in Tid, TimerStep(u)
        PROVE  \/ \E j \in Job : HandleLoad(t, j)
               \/ HandleRun(t)
               \/ timers'[t] = timers[t]
               \/ ~Handling(t)'
    <3>1. CASE u # t
      BY <2>5, <3>1 DEF TimerStep, TimerWake, TimerList, HandleLoad, HandleRun,
         HandleStore, TimerDone, TypeInv, TimerTypes
    <3>2. CASE u = t
      <4>1. timers[t] \in Timers
        BY DEF TypeInv, TimerTypes
      <4>2. CASE TimerWake(t) \/ TimerList(t) \/ HandleStore(t)
        BY <4>1, <4>2 DEF TimerWake, TimerList, HandleStore, TypeInv, TimerTypes,
                          Timers, Handling
      <4>3. CASE TimerDone(t)
        BY <4>3 DEF TimerDone, TypeInv, TimerTypes, Handling
      <4> QED
        BY <2>5, <3>2, <4>2, <4>3 DEF TimerStep
    <3> QED
      BY <3>1, <3>2
  <2>6. CASE timers'[t] = timers[t]
    BY <1>3, <2>2, <2>6 DEF Handling
  <2> QED
    BY <1>3, <2>1, <2>3, <2>4, <2>5, <2>6
       DEF Next, vars, Signal, Kill, mCheckScheduler, HandlerStep,
           HandlerList, HandlerStore, HandlerEnd, HandlerDelete, Schedule,
           WorkerStep, WorkerStart, WorkerEnd, Tick, Update
<1> QED
  BY <1>1, <1>2, <1>3 DEF RowInv

\* Only Kill counts.
LEMMA KillsNext ==
    ASSUME TypeInv, [Next]_vars
    PROVE  history'.kills = history.kills \/ Kill
<1> USE DEF TypeInv, Histories
<1>1. CASE Signal \/ (\E j \in Job, op \in {"cancel", "modify"} : Update(j, op))
           \/ (\E j \in Job : Tick(j)) \/ (\E t \in Tid : HandleRun(t))
  BY <1>1 DEF Signal, Update, Tick, HandleRun
<1>2. CASE UNCHANGED history
  BY <1>2
<1> QED
  BY <1>1, <1>2, HistoryFrame

LEMMA BornNext ==
    ASSUME TypeInv, BornInv, [Next]_vars
    PROVE  BornInv'
<1> USE DEF TypeInv
<1> history.kills \in Nat /\ Cardinality(Born) \in Nat
  BY FS_CardinalityType DEF BornInv, Histories
<1>1. CASE Born' = Born /\ child' = child /\ history'.kills = history.kills
  BY <1>1 DEF BornInv
<1>2. CASE Kill
  <2>1. Born' = Born /\ child' = None /\ history'.kills = history.kills + 1
    BY <1>2 DEF Kill, Born, Histories
  <2> QED
    BY <2>1 DEF BornInv
<1>3. ASSUME NEW j \in Job, MainTimerRow(j), child = None PROVE BornInv'
  <2>1. PICK t \in Tid : child' = t /\ timers' = [timers EXCEPT ![t] = IdleTimer]
    BY <1>3 DEF MainTimerRow
  <2>2. Born' = Born \cup {t}
    BY <2>1, Values DEF Born, TimerTypes
  <2>3. IsFiniteSet(Born') /\ Cardinality(Born') <= Cardinality(Born) + 1
    <3>1. IsFiniteSet(Born)
      BY DEF BornInv
    <3>2. IsFiniteSet(Born \cup {t}) /\ Cardinality(Born \cup {t}) <= Cardinality(Born) + 1
      <4> HIDE DEF Born, TypeInv, BornInv
      <4>1. /\ IsFiniteSet(Born \cup {t})
            /\ \/ Cardinality(Born \cup {t}) = Cardinality(Born)
               \/ Cardinality(Born \cup {t}) = Cardinality(Born) + 1
        BY <3>1, FS_AddElement
      <4> QED
        BY <4>1
    <3> QED
      BY <2>2, <3>2
  <2>4. Cardinality(Born') \in Nat /\ t # None
    BY <2>3, FS_CardinalityType, Constants
  <2>5. history' = history
    BY <1>3 DEF MainTimerRow
  <2> QED
    BY <1>3, <2>1, <2>2, <2>3, <2>4, <2>5 DEF BornInv
<1>4. CASE UNCHANGED <<timers, child>>
  <2>1. Born' = Born /\ child' = child
    BY <1>4 DEF Born
  <2> QED
    BY <1>1, <1>2, <2>1, KillsNext
<1>5. ASSUME NEW j \in Job, MainTimerRow(j), child # None PROVE UNCHANGED <<timers, child>>
  BY <1>5 DEF MainTimerRow
<1>6. CASE MainWait
  <2>1. Born' = Born /\ child' = child /\ history' = history
    BY <1>6 DEF MainWait, Born, TimerTypes, Timers
  <2> QED
    BY <1>1, <2>1
<1>7. ASSUME NEW t \in Tid, TimerStep(t) PROVE BornInv'
  <2> timers[t] \in Timers /\ timers \in [Tid -> Timers]
    BY DEF TimerTypes
  <2>1. /\ timers[t].pc # "unborn" /\ timers'[t].pc # "unborn"
        /\ \A u \in Tid \ {t} : timers'[u] = timers[u]
        /\ child' = child
    <3>1. CASE TimerWake(t) \/ TimerList(t)
      BY <3>1 DEF TimerWake, TimerList, Timers
    <3>2. CASE \E j \in Job : HandleLoad(t, j)
      BY <3>2 DEF HandleLoad, Timers
    <3>3. CASE HandleRun(t)
      BY <3>3 DEF HandleRun, Timers
    <3>4. CASE HandleStore(t)
      BY <3>4 DEF HandleStore, Timers
    <3>5. CASE TimerDone(t)
      BY <3>5, Values DEF TimerDone
    <3> QED
      BY <1>7, <3>1, <3>2, <3>3, <3>4, <3>5 DEF TimerStep
  <2>2. history'.kills = history.kills
    <3>1. CASE HandleRun(t)
      BY <3>1 DEF HandleRun, Histories
    <3>2. CASE history' = history
      BY <3>2
    <3> QED
      BY <1>7, <3>1, <3>2 DEF TimerStep, TimerWake, TimerList, HandleLoad, HandleStore,
         TimerDone
  <2>3. \A u \in Tid : timers'[u].pc # "unborn" <=> timers[u].pc # "unborn"
    BY <2>1
  <2>4. Born' = Born
    BY <2>3 DEF Born
  <2> QED
    BY <1>1, <2>1, <2>2, <2>4
<1> QED
  BY <1>2, <1>3, <1>4, <1>5, <1>6, <1>7
     DEF Next, vars, Signal, Kill, mCheckScheduler, MainStep, HandlerStep,
         MainList, FollowEnd, FollowRead, NoActiveRow, HandlerList, HandlerStore,
         HandlerEnd, HandlerDelete, Schedule, WorkerStep, WorkerStart, WorkerEnd,
         Tick, Update

\* Only timer processes that were started owe a run.
LEMMA OwedBound ==
    ASSUME TypeInv, RowInv, BornInv, NEW j \in Job
    PROVE  /\ IsFiniteSet(Owing(j)) /\ Cardinality(Owing(j)) \in Nat
           /\ Cardinality(Owing(j)) <= 1 + history.kills
           /\ Owed(j) \in Nat /\ Owed(j) <= 1 + history.kills
<1>1. Owing(j) \subseteq Born
  BY DEF Owing, Born, RowInv
<1>2. /\ IsFiniteSet(Owing(j)) /\ Cardinality(Owing(j)) <= Cardinality(Born)
      /\ Cardinality(Owing(j)) \in Nat /\ Cardinality(Born) \in Nat
  BY <1>1, FS_Subset, FS_CardinalityType DEF BornInv
<1>3. history.kills \in Nat
  BY DEF TypeInv, Histories
<1> QED
  BY <1>2, <1>3 DEF BornInv, Owed

LEMMA OwedBoundNext ==
    ASSUME TypeInv, RowInv, BornInv, [Next]_vars, LockInv, NEW j \in Job
    PROVE  Owed(j)' \in Nat /\ Owed(j)' <= 1 + history'.kills
<1>1. BornInv' /\ RowInv' /\ history' \in Histories
  BY BornNext, RowsNext, HistoryNext
<1>2. Owing(j)' \subseteq Born'
  BY <1>1 DEF Owing, Born, RowInv
<1>3. /\ Cardinality(Owing(j)') <= Cardinality(Born')
      /\ Cardinality(Owing(j)') \in Nat /\ Cardinality(Born') \in Nat
  BY <1>1, <1>2, FS_Subset, FS_CardinalityType DEF BornInv
<1>4. history'.kills \in Nat
  BY <1>1 DEF Histories
<1>5. Cardinality(Born') <= 1 + history'.kills
  BY <1>1, <1>3, <1>4 DEF BornInv
<1> QED
  BY <1>3, <1>4, <1>5 DEF Owed

\* What is owed to a job grows by no step that neither makes the job due nor
\* shows it to a timer process while it is not due.
LEMMA OwedKept ==
    ASSUME TypeInv, RowInv, BornInv, history'.kills = history.kills, NEW j \in Job,
           schedule'[j].due => schedule[j].due,
           Stored(j) => Stored(j)' \/ ~schedule'[j].due,
           (schedule'[j].due /\ ~Stored(j)') \/ Owing(j)' \subseteq Owing(j)
    PROVE  Owed(j)' <= Owed(j)
<1> USE OwedBound
<1>1. history.kills \in Nat
  BY DEF TypeInv, Histories
<1>2. CASE schedule'[j].due /\ ~Stored(j)'
  BY <1>1, <1>2 DEF Owed
<1>3. CASE ~(schedule'[j].due /\ ~Stored(j)')
  <2>1. Cardinality(Owing(j)') <= Cardinality(Owing(j))
    BY <1>3, FS_Subset
  <2>2. Cardinality(Owing(j)') \in Nat
    BY <1>3, FS_Subset, FS_CardinalityType
  <2> QED
    BY <1>1, <1>3, <2>1, <2>2 DEF Owed
<1> QED
  BY <1>2, <1>3

\* A timer process finds a job to run only where the row says due, and forgets
\* to have run it only once the row does not.
LEMMA OwingNext ==
    ASSUME TypeInv, LockInv, RowInv, [Next]_vars, NEW j \in Job
    PROVE  /\ Stored(j) => Stored(j)' \/ ~schedule'[j].due
           /\ (schedule'[j].due /\ ~Stored(j)') \/ Owing(j)' \subseteq Owing(j)
<1> USE DEF TypeInv, TimerTypes
<1> timers \in [Tid -> Timers]
  OBVIOUS
<1>1. ASSUME \A t \in Tid : /\ timers'[t].left \subseteq timers[t].left
                            /\ timers[t].pc = "store" => /\ timers'[t].pc = "store"
                                                         /\ timers'[t].job = timers[t].job
                            /\ timers'[t].pc = "run" => /\ timers[t].pc = "run"
                                                        /\ timers'[t].job = timers[t].job
      PROVE  (Stored(j) => Stored(j)') /\ Owing(j)' \subseteq Owing(j)
  BY <1>1 DEF Stored, Owing
<1>2. ASSUME NEW t \in Tid, TimerStep(t)
      PROVE  /\ Stored(j) => Stored(j)' \/ ~schedule'[j].due
             /\ (schedule'[j].due /\ ~Stored(j)') \/ Owing(j)' \subseteq Owing(j)
  <2>1. \A u \in Tid \ {t} : timers'[u] = timers[u]
    BY <1>2 DEF TimerStep, TimerWake, TimerList, HandleLoad, HandleRun, HandleStore,
       TimerDone
  <2>2. CASE TimerWake(t) \/ TimerDone(t)
    <3>1. /\ timers'[t].left \subseteq timers[t].left /\ timers'[t].pc \in {"list", "wait"}
          /\ timers[t].pc # "store"
      BY <2>2, Values DEF TimerWake, TimerDone, Timers
    <3> QED
      BY <1>1, <2>1, <3>1
  <2>3. CASE TimerList(t)
    <3>1. /\ timers'[t].left = {k \in Timer : schedule[k].due}
          /\ timers'[t].pc = "rows" /\ timers[t].pc = "list"
          /\ UNCHANGED schedule
      BY <2>3 DEF TimerList, Timers
    <3>2. \A u \in Tid : timers[u].pc # "store"
      BY <2>3, Constants DEF TimerList, LockInv, Handling
    <3>3. \A u \in Tid : timers'[u].pc # "store"
      BY <2>1, <3>1, <3>2
    <3>4. ~schedule[j].due => j \notin timers'[t].left
      BY <3>1
    <3> QED
      BY <2>1, <3>1, <3>2, <3>3, <3>4 DEF Stored, Owing
  <2>4. ASSUME NEW k \in Job, HandleLoad(t, k)
        PROVE  (Stored(j) => Stored(j)') /\ Owing(j)' \subseteq Owing(j)
    <3>1. /\ timers'[t].left = timers[t].left \ {k} /\ timers'[t].job = k
          /\ timers'[t].pc = "run" /\ timers[t].pc = "rows" /\ k \in timers[t].left
      BY <2>4 DEF HandleLoad, Timers
    <3> QED
      BY <2>1, <3>1 DEF Stored, Owing
  <2>5. CASE HandleRun(t)
    <3>1. /\ timers'[t].left = timers[t].left /\ timers'[t].pc = "store"
          /\ timers[t].pc = "run"
      BY <2>5 DEF HandleRun, Timers
    <3> QED
      BY <1>1, <2>1, <3>1
  <2>6. CASE HandleStore(t)
    <3> PICK k \in Job : k = timers[t].job
      BY <2>6 DEF HandleStore, Handling
    <3>1. /\ timers'[t].left = timers[t].left
          /\ timers'[t].pc = "rows" /\ timers[t].pc = "store"
      BY <2>6 DEF HandleStore, Timers
    <3>2. \A u \in Tid \ {t} : timers[u].pc # "store"
      BY <3>1 DEF LockInv, Handling
    <3>3. ~schedule'[k].due
      <4>1. /\ timers[t].copy \in Entries /\ schedule[k] \in Entries
            /\ timers[t].copy.last <= RepeatCount[k]
            /\ schedule[k].last <= RepeatCount[k]
        BY <3>1 DEF TableTypes, Timers, Handling
      <4>2. timers[t].copy # NoEntry => ~Handled(k, timers[t].copy).due
        BY <4>1, HandledRow
      <4>3. timers[t].copy = NoEntry => ~Entry(k)
        BY <3>1 DEF RowInv, Handling
      <4>4. schedule'[k] = IF Entry(k) THEN Handled(k, timers[t].copy) ELSE NoEntry
        BY <2>6 DEF HandleStore, mUpdateSchedule, TableTypes
      <4> QED
        BY <4>2, <4>3, <4>4, Values
    <3>4. Owing(j)' \subseteq Owing(j)
      BY <2>1, <3>1 DEF Owing
    <3>5. Stored(j) => j = k
      BY <3>2 DEF Stored
    <3> QED
      BY <3>3, <3>4, <3>5
  <2> QED
    BY <1>2, <2>2, <2>3, <2>4, <2>5, <2>6 DEF TimerStep
<1>3. ASSUME NEW k \in Job, MainTimerRow(k)
      PROVE  (Stored(j) => Stored(j)') /\ Owing(j)' \subseteq Owing(j)
  <2>1. CASE child = None
    <3>1. PICK t \in Tid : /\ timers[t].pc = "unborn"
                           /\ timers' = [timers EXCEPT ![t] = IdleTimer]
      BY <1>3, <2>1 DEF MainTimerRow
    <3>2. /\ \A u \in Tid \ {t} : timers'[u] = timers[u]
          /\ timers'[t].left = {} /\ timers'[t].pc = "wait"
      BY <3>1, Values
    <3> QED
      BY <1>1, <3>1, <3>2
  <2>2. CASE UNCHANGED timers
    BY <1>1, <2>2
  <2> QED
    BY <1>3, <2>1, <2>2 DEF MainTimerRow
<1>4. CASE MainWait
  BY <1>1, <1>4 DEF MainWait, Timers
<1>5. CASE UNCHANGED timers
  BY <1>1, <1>5
<1> QED
  BY <1>2, <1>3, <1>4, <1>5, TimersFrame

\* What the steps count, for one job.
LEMMA CountsNext ==
    ASSUME TypeInv, [Next]_vars, NEW j \in Job
    PROVE  /\ \/ history'.ticks[j] = history.ticks[j]
              \/ Tick(j) /\ history'.ticks[j] = history.ticks[j] + 1
           /\ \/ history'.runs[j] = history.runs[j]
              \/ /\ history'.runs[j] = history.runs[j] + 1
                 /\ \E t \in Tid : /\ HandleRun(t) /\ timers[t].job = j
                                   /\ timers[t].copy # NoEntry
<1> USE DEF TypeInv, Histories
<1>1. CASE \E k \in Job : Tick(k)
  <2> PICK k \in Job : Tick(k)
    BY <1>1
  <2>1. history' = [history EXCEPT !.ticks[k] = @ + 1]
    BY DEF Tick
  <2>2. history'.runs = history.runs /\ history'.ticks = [history.ticks EXCEPT ![k] = @ + 1]
    BY <2>1
  <2> QED
    BY <2>2
<1>2. CASE \E t \in Tid : HandleRun(t)
  <2> PICK t \in Tid : HandleRun(t)
    BY <1>2
  <2>1. CASE timers[t].copy # NoEntry
    <3>1. \/ history' = [history EXCEPT !.runs[timers[t].job] = @ + 1]
          \/ history' = history
      BY <2>1 DEF HandleRun
    <3>2. history'.ticks = history.ticks
          /\ \/ history'.runs = [history.runs EXCEPT ![timers[t].job] = @ + 1]
             \/ history'.runs = history.runs
      BY <3>1
    <3> QED
      BY <2>1, <3>2
  <2>2. CASE timers[t].copy = NoEntry
    BY <2>2 DEF HandleRun
  <2> QED
    BY <2>1, <2>2
<1>3. CASE Kill \/ Signal \/ (\E k \in Job, op \in {"cancel", "modify"} : Update(k, op))
  BY <1>3 DEF Kill, Signal, Update
<1>4. CASE UNCHANGED history
  BY <1>4
<1> QED
  BY <1>1, <1>2, <1>3, <1>4, HistoryFrame

LEMMA PaidNext ==
    ASSUME RunInv, [Next]_vars
    PROVE  Paid'
<1> USE DEF RunInv
<1> SUFFICES ASSUME NEW j \in Job
             PROVE  /\ history'.runs[j] + Owed(j)'
                         <= history'.ticks[j] * (1 + history'.kills)
                    /\ schedule'[j].due => history'.ticks[j] >= 1
  BY DEF Paid
<1> DEFINE runs == history.runs[j]
           ticks == history.ticks[j]
           kills == history.kills
<1>1. /\ TypeInv' /\ LockInv' /\ RowInv' /\ BornInv'
      /\ history \in Histories /\ history' \in Histories
  BY TypeNext, LockNext, RowsNext, BornNext DEF TypeInv
<1>2. /\ runs \in Nat /\ ticks \in Nat /\ kills \in Nat
      /\ runs' \in Nat /\ ticks' \in Nat /\ kills' \in Nat
  <2>1. history \in Histories /\ history' \in Histories
    BY <1>1
  <2>2. /\ history.runs \in [Job -> Nat] /\ history.ticks \in [Job -> Nat]
        /\ history'.runs \in [Job -> Nat] /\ history'.ticks \in [Job -> Nat]
        /\ history.kills \in Nat /\ history'.kills \in Nat
    BY <2>1 DEF Histories
  <2> QED
    BY <2>2
<1>3. /\ Owed(j) \in Nat /\ Owed(j) <= 1 + kills
      /\ Owed(j)' \in Nat /\ Owed(j)' <= 1 + kills'
  BY OwedBound, OwedBoundNext
<1>4. /\ runs + Owed(j) <= ticks * (1 + kills)
      /\ schedule[j].due => ticks >= 1
  BY DEF Paid
<1>5. schedule'[j].due => ticks' >= 1
  <2>1. schedule'[j].due => schedule[j].due \/ Tick(j)
    BY RowsStay
  <2>2. Tick(j) => ticks' = ticks + 1
    BY DEF Tick, Histories, TypeInv
  <2>3. ticks' = ticks \/ ticks' = ticks + 1
    BY CountsNext
  <2> HIDE DEF ticks
  <2> QED
    BY <1>2, <1>4, <2>1, <2>2, <2>3
<1>6. runs' + Owed(j)' <= ticks' * (1 + kills')
  <2>1. CASE Kill
    <3>1. /\ kills' = kills + 1 /\ runs' = runs /\ ticks' = ticks
          /\ schedule' = schedule
      BY <2>1 DEF Kill, TypeInv, Histories
    <3>2. Owing(j)' = Owing(j) /\ Stored(j)' = Stored(j)
      BY <2>1 DEF Kill, Owing, Stored
    <3> HIDE DEF runs, ticks, kills
    <3>3. ticks * (1 + (kills + 1)) = ticks * (1 + kills) + ticks
      BY <1>2
    <3>4. \/ Owed(j)' = Owed(j)
          \/ Owed(j)' = Owed(j) + 1 /\ ticks >= 1
      <4>1. CASE schedule[j].due /\ ~Stored(j)
        BY <1>2, <1>4, <3>1, <3>2, <4>1 DEF Owed, kills
      <4>2. CASE ~(schedule[j].due /\ ~Stored(j))
        BY <3>1, <3>2, <4>2 DEF Owed
      <4> QED
        BY <4>1, <4>2
    <3>5. ticks * (1 + kills) \in Nat
      BY <1>2
    <3> QED
      BY <1>2, <1>3, <1>4, <3>1, <3>3, <3>4, <3>5
  <2>2. CASE Tick(j)
    <3>1. kills' = kills /\ runs' = runs /\ ticks' = ticks + 1
      BY <2>2 DEF Tick, TypeInv, Histories
    <3> HIDE DEF runs, ticks, kills
    <3>2. (ticks + 1) * (1 + kills) = ticks * (1 + kills) + (1 + kills)
      BY <1>2
    <3>3. ticks * (1 + kills) \in Nat
      BY <1>2
    <3> QED
      BY <1>2, <1>3, <1>4, <3>1, <3>2, <3>3
  <2>3. ASSUME NEW t \in Tid, HandleRun(t), timers[t].job = j
        PROVE  runs' + Owed(j)' <= ticks' * (1 + kills')
    <3>1. /\ kills' = kills /\ ticks' = ticks /\ runs' <= runs + 1
          /\ schedule' = schedule
      BY <1>2, <2>3 DEF HandleRun, TypeInv, Histories
    <3>2. /\ \A u \in Tid \ {t} : timers'[u] = timers[u]
          /\ timers'[t].left = timers[t].left /\ timers'[t].job = j
          /\ timers'[t].pc = "store" /\ timers[t].pc = "run"
      BY <2>3 DEF HandleRun, TypeInv, TimerTypes, Timers
    <3>3. j \notin timers[t].left
      BY <2>3, <3>2 DEF RowInv, Handling
    <3>4. t \in Owing(j) /\ Owing(j)' = Owing(j) \ {t}
      BY <2>3, <3>2, <3>3 DEF Owing
    <3>5. Cardinality(Owing(j)') = Cardinality(Owing(j)) - 1
      BY <3>4, OwedBound, FS_RemoveElement
    <3>6. Stored(j)'
      BY <3>2 DEF Stored
    <3>7. Owed(j)' = Cardinality(Owing(j)) - 1
      BY <3>5, <3>6 DEF Owed
    <3>8. Cardinality(Owing(j)) <= Owed(j) /\ Cardinality(Owing(j)) \in Nat
      BY OwedBound DEF Owed
    <3> HIDE DEF runs, ticks, kills
    <3>9. ticks * (1 + kills) \in Nat
      BY <1>2
    <3> QED
      BY <1>2, <1>3, <1>4, <3>1, <3>7, <3>8, <3>9
  <2>4. CASE /\ ~Kill /\ ~Tick(j)
             /\ ~ \E t \in Tid : HandleRun(t) /\ timers[t].job = j
    <3>1. kills' = kills /\ runs' = runs /\ ticks' = ticks
      BY <2>4, KillsNext, CountsNext
    <3>2. schedule'[j].due => schedule[j].due
      BY <2>4, RowsStay
    <3>3. Owed(j)' <= Owed(j)
      BY <3>1, <3>2, OwingNext, OwedKept
    <3> HIDE DEF runs, ticks, kills
    <3>4. ticks * (1 + kills) \in Nat
      BY <1>2
    <3> QED
      BY <1>2, <1>3, <1>4, <3>1, <3>3, <3>4
  <2> QED
    BY <2>1, <2>2, <2>3, <2>4
<1> QED
  BY <1>5, <1>6

LEMMA InitRun == ASSUME Init PROVE RunInv
<1>1. TypeInv /\ LockInv
  BY InitTypes, Constants, Values DEF Init, LockInv, Handling, BootMain
<1>2. \A t \in Tid : timers[t].pc = "unborn" /\ timers[t].left = {}
  BY Values DEF Init
<1>3. \A j \in Job : Entry(j) => j \in Registered
  BY DEF Init, Entry
<1>4. RowInv
  BY <1>2, <1>3 DEF RowInv, Known, Handling
<1>5. BornInv
  <2>1. Born = {} /\ child = None /\ history.kills = 0
    BY <1>2 DEF Born, Init
  <2> QED
    BY <2>1, FS_EmptySet DEF BornInv
<1>6. \A j \in Job : schedule[j].due => j \in Registered
  BY Values DEF Init
<1>7. /\ history.runs = [j \in Job |-> 0] /\ history.kills = 0
      /\ history.ticks = [j \in Job |-> IF j \in Registered THEN 1 ELSE 0]
  BY DEF Init
<1>8. \A j \in Job : Owing(j) = {} /\ ~Stored(j)
  BY <1>2 DEF Owing, Stored
<1>9. \A j \in Job : Owed(j) = IF schedule[j].due THEN 1 ELSE 0
  BY <1>7, <1>8, FS_EmptySet DEF Owed
<1>10. Paid
  BY <1>6, <1>7, <1>9 DEF Paid
<1> QED
  BY <1>1, <1>4, <1>5, <1>10 DEF RunInv

\* Each timer process runs a generic job at most once for each time its timestamp
\* passed, whatever rows the agent, the signal handler and the timer processes
\* delete and write back in between, and however often the scheduler is killed
\* and leaves its timer process behind.
THEOREM RunsOnlyWhenDue == Spec => []RunsWhenDue
<1>1. RunInv /\ [Next]_vars => RunInv'
  BY TypeNext, LockNext, RowsNext, BornNext, PaidNext DEF RunInv
<1>2. RunInv => RunsWhenDue
  <2> SUFFICES ASSUME RunInv, NEW j \in Job
               PROVE  history.runs[j] <= history.ticks[j] * (1 + history.kills)
    BY DEF RunsWhenDue
  <2>1. /\ history.runs[j] \in Nat /\ history.ticks[j] \in Nat /\ history.kills \in Nat
        /\ Owed(j) \in Nat
        /\ history.runs[j] + Owed(j) <= history.ticks[j] * (1 + history.kills)
    BY OwedBound DEF RunInv, TypeInv, Histories, Paid
  <2>2. history.ticks[j] * (1 + history.kills) \in Nat
    BY <2>1
  <2> QED
    BY <2>1, <2>2
<1> QED
  BY <1>1, <1>2, InitRun, PTL DEF Spec

-----------------------------------------------------------------------------
(* Repetitions                                                              *)

LEMMA LeftBounds ==
    ASSUME NEW j \in Job, RepeatCount[j] # Forever
    PROVE  /\ RepeatCount[j] \in Nat
           /\ PerCount(j) \in Nat /\ PerCount(j) >= 1
           /\ \A e \in Entries : e.last <= RepeatCount[j] =>
                Left(j, e) \in Nat /\ Left(j, e) <= PerCount(j)
<1>1. RepeatCount[j] \in Nat
  BY SchedulerAssumption DEF SchedulerAssumption
<1>2. PerCount(j) \in Nat /\ PerCount(j) >= 1
  BY <1>1 DEF PerCount
<1>3. ASSUME NEW e \in Entries, e.last <= RepeatCount[j]
      PROVE  Left(j, e) \in Nat /\ Left(j, e) <= PerCount(j)
  <2>1. e.last \in Int /\ e.last >= -1
    BY DEF Entries, Forever
  <2>2. CASE e = NoEntry
    BY <1>2, <2>2 DEF Left
  <2>3. CASE e # NoEntry /\ j \in Once
    BY <2>3 DEF Left, PerCount
  <2>4. CASE e # NoEntry /\ j \notin Once
    <3>1. Left(j, e) = RepeatCount[j] - e.last /\ PerCount(j) = RepeatCount[j] + 1
      BY <2>4 DEF Left, PerCount
    <3> QED
      BY <1>1, <1>3, <2>1, <3>1
  <2> QED
    BY <2>2, <2>3, <2>4
<1> QED
  BY <1>1, <1>2, <1>3

\* What is stored after a run has one run less to come.
LEMMA HandledLeft ==
    ASSUME NEW j \in Job, RepeatCount[j] # Forever, NEW copy \in Entries,
           copy # NoEntry, OpenRow(j, copy)
    PROVE  /\ OpenRow(j, Handled(j, copy))
           /\ Left(j, Handled(j, copy)) \in Nat
           /\ Left(j, Handled(j, copy)) + 1 <= Left(j, copy)
<1>1. RepeatCount[j] \in Nat
  BY LeftBounds
<1>2. CASE j \in Once
  <2>1. Handled(j, copy) = NoEntry
    BY <1>2 DEF Handled
  <2> QED
    BY <1>2, <2>1 DEF OpenRow, Left
<1>3. CASE j \notin Once
  <2>1. copy.last \in Int /\ copy.last >= -1 /\ copy.last < RepeatCount[j]
    BY <1>3 DEF Entries, Forever, OpenRow
  <2>2. More(j, copy.last)
    BY <2>1 DEF More
  <2>3. Left(j, copy) = RepeatCount[j] - copy.last
    BY <1>3 DEF Left
  <2>4. CASE copy.last + 1 < RepeatCount[j]
    <3>1. More(j, copy.last + 1)
      BY <2>4 DEF More
    <3> DEFINE last == IF More(j, copy.last) THEN copy.last + 1 ELSE copy.last
    <3>2. last = copy.last + 1
      BY <2>2
    <3> HIDE DEF last
    <3>3. Handled(j, copy) =
            CASE copy = NoEntry -> schedule[j]
              [] copy # NoEntry /\ j \in Once -> NoEntry
              [] copy # NoEntry /\ j \notin Once /\ More(j, last) ->
                   [copy EXCEPT !.due = FALSE,
                                !.last = IF RepeatCount[j] = Forever THEN @ ELSE last]
              [] copy # NoEntry /\ j \notin Once /\ last = RepeatCount[j] -> NoEntry
              [] OTHER -> [copy EXCEPT !.last = last]
      BY Zenon DEF Handled, last
    <3>4. last # RepeatCount[j]
      BY <2>4, <3>2, <1>1, <2>1
    <3>5. Handled(j, copy) = [copy EXCEPT !.due = FALSE, !.last = copy.last + 1]
      BY <1>3, <3>1, <3>2, <3>3, <3>4
    <3>6. Handled(j, copy).last = copy.last + 1
      BY <3>5 DEF Entries
    <3>7. Handled(j, copy) # NoEntry
      BY <2>1, <3>6 DEF NoEntry
    <3>8. Left(j, Handled(j, copy)) = RepeatCount[j] - (copy.last + 1)
      BY <1>3, <3>6, <3>7 DEF Left
    <3> QED
      BY <1>1, <2>1, <2>3, <2>4, <3>6, <3>8 DEF OpenRow
  <2>5. CASE copy.last + 1 = RepeatCount[j]
    <3>1. ~More(j, copy.last + 1)
      BY <1>1, <2>5 DEF More
    <3>2. Handled(j, copy) = NoEntry
      BY <1>3, <2>2, <2>5, <3>1 DEF Handled
    <3>3. Left(j, Handled(j, copy)) = 0 /\ OpenRow(j, Handled(j, copy))
      BY <3>2 DEF Left, OpenRow
    <3> QED
      BY <1>1, <2>1, <2>3, <3>3
  <2> QED
    BY <1>1, <2>1, <2>4, <2>5
<1> QED
  BY <1>2, <1>3

\* A copy decides what is stored, whatever the table says meanwhile.
LEMMA HandledSame ==
    ASSUME NEW CONSTANT j, NEW CONSTANT c, c # NoEntry
    PROVE  Handled(j, c)' = Handled(j, c)
<1> QED
  BY DEF Handled, More

\* What a step does to the row of a job ...
LEMMA RowSteps ==
    ASSUME TypeInv, RowInv, [Next]_vars, NEW j \in Job
    PROVE  \/ schedule'[j] \in {schedule[j], NoEntry}
           \/ Tick(j) /\ schedule'[j] = [schedule[j] EXCEPT !.due = TRUE]
           \/ Schedule(j) /\ schedule'[j] = NewEntry
           \/ \E op \in {"cancel", "modify"} :
                Update(j, op) /\ schedule'[j] = ModifyRow(j, op)
           \/ \E t \in Tid :
                /\ HandleStore(t) /\ timers[t].job = j /\ timers[t].copy # NoEntry
                /\ schedule'[j] = Handled(j, timers[t].copy)
<1> USE DEF TypeInv, TableTypes
<1>1. ASSUME NEW t \in Tid, HandleStore(t)
      PROVE  \/ schedule'[j] \in {schedule[j], NoEntry}
             \/ /\ timers[t].job = j /\ timers[t].copy # NoEntry
                /\ schedule'[j] = Handled(j, timers[t].copy)
  <2>1. schedule' = [schedule EXCEPT ![timers[t].job] =
            IF Entry(timers[t].job) THEN Handled(timers[t].job, timers[t].copy)
                                    ELSE NoEntry]
    BY <1>1 DEF HandleStore, mUpdateSchedule
  <2>2. CASE timers[t].copy = NoEntry /\ timers[t].job = j
    <3>1. Handled(j, timers[t].copy) = schedule[j]
      BY <2>2 DEF Handled
    <3> QED
      BY <2>1, <2>2, <3>1
  <2> QED
    BY <2>1, <2>2
<1>2. ASSUME NEW k \in Job, Schedule(k) PROVE schedule'[j] = schedule[j] \/ (k = j /\ schedule'[j] = NewEntry)
  BY <1>2 DEF Schedule
<1>3. ASSUME NEW k \in Job, NEW op \in {"cancel", "modify"}, Update(k, op)
      PROVE  schedule'[j] = schedule[j] \/ (k = j /\ schedule'[j] = ModifyRow(k, op))
  BY <1>3 DEF Update, mUpdateSchedule
<1>4. ASSUME NEW k \in Job, Tick(k)
      PROVE  \/ schedule'[j] = schedule[j]
             \/ k = j /\ schedule'[j] = [schedule[j] EXCEPT !.due = TRUE]
  BY <1>4 DEF Tick
<1>5. CASE FollowEnd \/ (\E k \in Job : NoActiveRow(k) \/ HandlerDelete(k))
  BY <1>5 DEF FollowEnd, NoActiveRow, HandlerDelete, mDelScheduleEntry
<1>6. CASE UNCHANGED schedule
  BY <1>6
<1> QED
  BY <1>1, <1>2, <1>3, <1>4, <1>5, <1>6, ScheduleFrame

\* ... and to a copy of it.
LEMMA HeldSteps ==
    ASSUME TypeInv, [Next]_vars, NEW j \in Job, NEW t \in Tid
    PROVE  \/ /\ Held(j, t)' <=> Held(j, t)
              /\ Held(j, t) => /\ timers'[t].pc = timers[t].pc
                               /\ timers'[t].copy = timers[t].copy
                               /\ timers'[t].job = timers[t].job
           \/ /\ HandleLoad(t, j) /\ timers'[t].pc = "run"
              /\ timers'[t].copy = schedule[j]
           \/ /\ HandleRun(t)
              /\ timers[t].pc = "run" /\ timers'[t].pc = "store"
              /\ timers'[t].copy = timers[t].copy /\ timers'[t].job = timers[t].job
              /\ Held(j, t)' <=> Held(j, t)
           \/ HandleStore(t) /\ timers[t].job = j /\ ~Held(j, t)'
<1> USE DEF TypeInv, TimerTypes
<1> timers[t] \in Timers /\ timers \in [Tid -> Timers]
  OBVIOUS
<1>1. CASE UNCHANGED timers[t]
  BY <1>1 DEF Held, Handling
<1>2. CASE ~Handling(t) /\ ~(timers'[t].pc \in {"run", "store"})
  BY <1>2 DEF Held, Handling
<1>3. ASSUME NEW k \in Job, HandleLoad(t, k), k # j PROVE ~Held(j, t) /\ ~Held(j, t)'
  BY <1>3 DEF HandleLoad, Held, Handling, Timers
<1>4. ASSUME HandleLoad(t, j)
      PROVE  timers'[t].pc = "run" /\ timers'[t].copy = schedule[j]
  BY <1>4 DEF HandleLoad, Timers
<1>5. CASE HandleRun(t)
  <2>1. /\ timers[t].pc = "run" /\ timers'[t].pc = "store"
        /\ timers'[t].copy = timers[t].copy /\ timers'[t].job = timers[t].job
    BY <1>5 DEF HandleRun, Timers
  <2> QED
    BY <1>5, <2>1 DEF Held, Handling
<1>6. CASE HandleStore(t)
  <2>1. timers'[t].pc = "rows" /\ timers[t].pc = "store"
    BY <1>6 DEF HandleStore, Timers
  <2> QED
    BY <1>6, <2>1 DEF Held, Handling
<1>7. CASE TimerWake(t) \/ TimerList(t) \/ TimerDone(t)
  BY <1>2, <1>7, Values DEF TimerWake, TimerList, TimerDone, Handling, Timers
<1>8. ASSUME NEW u \in Tid, u # t, TimerStep(u) PROVE UNCHANGED timers[t]
  BY <1>8 DEF TimerStep, TimerWake, TimerList, HandleLoad, HandleRun, HandleStore,
     TimerDone
<1>9. ASSUME NEW k \in Job, MainTimerRow(k)
      PROVE  \/ UNCHANGED timers[t]
             \/ ~Handling(t) /\ ~(timers'[t].pc \in {"run", "store"})
  BY <1>9, Values DEF MainTimerRow, Handling
<1>10. CASE MainWait
  <2>1. /\ timers'[t].pc = timers[t].pc /\ timers'[t].job = timers[t].job
        /\ timers'[t].copy = timers[t].copy
    BY <1>10 DEF MainWait, Timers
  <2> QED
    BY <2>1 DEF Held, Handling
<1>11. CASE UNCHANGED timers
  BY <1>1, <1>11
<1>12. CASE TimerStep(t)
  <2>1. CASE \E k \in Job : HandleLoad(t, k)
    BY <1>3, <1>4, <2>1
  <2> QED
    BY <1>5, <1>6, <1>7, <1>12, <2>1 DEF TimerStep
<1> QED
  BY <1>1, <1>2, <1>8, <1>9, <1>10, <1>11, <1>12, TimersFrame

\* Only an update of the row adds to the runs a job may have.
LEMMA BudgetNext ==
    ASSUME TypeInv, [Next]_vars, NEW j \in Job, RepeatCount[j] # Forever
    PROVE  /\ Budget(j) \in Nat /\ Budget(j)' \in Nat
           /\ Budget(j) >= PerCount(j)
           /\ Budget(j)' >= Budget(j)
           /\ \A op \in {"cancel", "modify"} :
                Update(j, op) => Budget(j)' = Budget(j) + PerCount(j)
<1>1. history.updates \in Nat /\ PerCount(j) \in Nat /\ PerCount(j)' = PerCount(j)
  BY LeftBounds DEF TypeInv, Histories, PerCount
<1>2. ASSUME NEW k \in Job, NEW op \in {"cancel", "modify"}, Update(k, op)
      PROVE  history'.updates = history.updates + 1
  BY <1>2 DEF Update, TypeInv, Histories
<1>3. history'.updates \in {history.updates, history.updates + 1}
  <2>1. CASE \E k \in Job, op \in {"cancel", "modify"} : Update(k, op)
    BY <1>2, <2>1
  <2>2. CASE Kill \/ Signal \/ (\E k \in Job : Tick(k)) \/ (\E t \in Tid : HandleRun(t))
    BY <2>2 DEF Kill, Signal, Tick, HandleRun, TypeInv, Histories
  <2>3. CASE UNCHANGED history
    BY <2>3
  <2> QED
    BY <2>1, <2>2, <2>3, HistoryFrame
<1> DEFINE n == history.updates
           k == PerCount(j)
<1>4. /\ (1 + n) * k \in Nat /\ (1 + (n + 1)) * k = (1 + n) * k + k
      /\ (1 + n) * k = n * k + k /\ n * k \in Nat
  BY <1>1
<1>5. Budget(j) = (1 + n) * k /\ Budget(j)' = (1 + history'.updates) * k
  BY <1>1 DEF Budget
<1> QED
  BY <1>1, <1>2, <1>3, <1>4, <1>5

LEMMA CountedNext ==
    ASSUME CountInv, [Next]_vars
    PROVE  Counted'
<1> SUFFICES ASSUME NEW j \in Generic, RepeatCount[j] # Forever
             PROVE  /\ ~Known(j)' => history'.runs[j] = 0
                    /\ OpenRow(j, schedule'[j])
                    /\ \A t \in Tid : Held(j, t)' =>
                         /\ OpenRow(j, timers'[t].copy)
                         /\ history'.runs[j] + Left(j, HeldRow(t)') <= Budget(j)'
                    /\ (\A t \in Tid : ~Held(j, t)') =>
                         history'.runs[j] + Left(j, schedule'[j]) <= Budget(j)'
  BY DEF Counted, OpenRow, Left
<1> DEFINE runs == history.runs[j]
<1>1. /\ j \in Job /\ TypeInv /\ LockInv /\ RowInv
      /\ TypeInv' /\ LockInv' /\ RowInv'
  BY TypeNext, LockNext, RowsNext, SchedulerAssumption DEF CountInv, SchedulerAssumption
<1>2. /\ ~Known(j) => runs = 0
      /\ OpenRow(j, schedule[j])
      /\ \A t \in Tid : Held(j, t) => /\ OpenRow(j, timers[t].copy)
                                      /\ runs + Left(j, HeldRow(t)) <= Budget(j)
      /\ (\A t \in Tid : ~Held(j, t)) => runs + Left(j, schedule[j]) <= Budget(j)
  BY DEF CountInv, Counted
<1>3. runs \in Nat /\ runs' \in Nat
  <2>1. history.runs \in [Job -> Nat] /\ history'.runs \in [Job -> Nat]
    BY <1>1 DEF TypeInv, Histories
  <2> QED
    BY <1>1, <2>1
<1>4. /\ schedule[j] \in Entries /\ schedule[j].last <= RepeatCount[j]
      /\ schedule'[j] \in Entries /\ schedule'[j].last <= RepeatCount[j]
      /\ \A t \in Tid : /\ timers[t].copy \in Entries
                        /\ Held(j, t) => timers[t].copy.last <= RepeatCount[j]
  BY <1>1 DEF TypeInv, TableTypes, TimerTypes, Timers, Held
<1>5. /\ RepeatCount[j] \in Nat /\ PerCount(j) \in Nat
      /\ Left(j, schedule[j]) \in Nat
      /\ Left(j, schedule'[j]) \in Nat /\ Left(j, schedule'[j]) <= PerCount(j)
  BY <1>1, <1>4, LeftBounds
<1>6. /\ Budget(j) \in Nat /\ Budget(j)' \in Nat
      /\ Budget(j) >= PerCount(j) /\ Budget(j)' >= Budget(j)
  BY <1>1, BudgetNext
<1>7. \/ runs' = runs
      \/ runs' = runs + 1 /\ \E t \in Tid : HandleRun(t) /\ Held(j, t)
  BY <1>1, CountsNext DEF HandleRun, Held, Handling
<1>8. \A t, u \in Tid : Held(j, t) /\ Handling(u) => t = u
  BY <1>1 DEF LockInv, Held
<1> HIDE DEF runs
<1>9. ~Known(j)' => runs' = 0
  <2>1. ~Known(j)' => ~Known(j)
    BY <1>1, KnownStays
  <2>2. \A t \in Tid : Held(j, t) => Known(j)
    BY <1>1 DEF RowInv, Held
  <2> QED
    BY <1>2, <1>7, <2>1, <2>2
<1>10. OpenRow(j, schedule'[j])
  <2>1. CASE schedule'[j] \in {schedule[j], NoEntry}
    BY <1>2, <2>1 DEF OpenRow
  <2>2. CASE Tick(j) /\ schedule'[j] = [schedule[j] EXCEPT !.due = TRUE]
    BY <1>2, <1>4, <2>2 DEF OpenRow, Tick, Entry, Entries
  <2>3. CASE schedule'[j] = NewEntry
    BY <1>5, <2>3, Values DEF OpenRow
  <2>4. ASSUME NEW op \in {"cancel", "modify"}, schedule'[j] = ModifyRow(j, op)
        PROVE  OpenRow(j, schedule'[j])
    BY <1>5, <2>4 DEF OpenRow, ModifyRow
  <2>5. ASSUME NEW t \in Tid, HandleStore(t), timers[t].job = j,
               timers[t].copy # NoEntry, schedule'[j] = Handled(j, timers[t].copy)
        PROVE  OpenRow(j, schedule'[j])
    <3>1. Held(j, t)
      BY <2>5 DEF HandleStore, Held, Handling
    <3> QED
      BY <1>1, <1>2, <1>4, <2>5, <3>1, HandledLeft
  <2> QED
    BY <1>1, <2>1, <2>2, <2>3, <2>4, <2>5, RowSteps
<1>11. ASSUME NEW t \in Tid, Held(j, t)'
       PROVE  /\ OpenRow(j, timers'[t].copy)
              /\ runs' + Left(j, HeldRow(t)') <= Budget(j)'
  <2>1. CASE /\ Held(j, t) /\ timers'[t].pc = timers[t].pc
             /\ timers'[t].copy = timers[t].copy /\ timers'[t].job = timers[t].job
    <3>1. PICK c \in Entries : c = timers[t].copy
      BY <1>4
    <3>2. Handled(j, c)' = Handled(j, c)
      BY <2>1, <3>1, HandledSame DEF Held
    <3>3. HeldRow(t)' = HeldRow(t)
      BY <2>1, <3>1, <3>2 DEF HeldRow, Held
    <3>4. ~HandleRun(t)
      BY <1>1, <2>1 DEF HandleRun, TypeInv, TimerTypes, Timers
    <3>5. runs' = runs
      BY <1>7, <1>8, <2>1, <3>4 DEF Held
    <3>6. Left(j, HeldRow(t)) \in Nat
      <4>1. CASE timers[t].pc = "run"
        BY <1>1, <1>4, <2>1, <4>1, LeftBounds DEF HeldRow
      <4>2. CASE timers[t].pc # "run"
        BY <1>1, <1>2, <1>4, <2>1, <4>2, HandledLeft DEF HeldRow, Held
      <4> QED
        BY <4>1, <4>2
    <3> QED
      BY <1>2, <1>3, <1>6, <2>1, <3>3, <3>5, <3>6
  <2>2. CASE /\ HandleLoad(t, j) /\ timers'[t].pc = "run"
             /\ timers'[t].copy = schedule[j]
    <3>1. \A u \in Tid : ~Handling(u)
      BY <1>1, <2>2, Constants DEF HandleLoad, LockInv
    <3>2. runs' = runs /\ \A u \in Tid : ~Held(j, u)
      BY <1>7, <3>1 DEF Held
    <3>3. HeldRow(t)' = schedule[j]
      BY <2>2 DEF HeldRow
    <3> QED
      BY <1>2, <1>3, <1>5, <1>6, <2>2, <3>2, <3>3
  <2>3. CASE /\ HandleRun(t)
             /\ timers[t].pc = "run" /\ timers'[t].pc = "store"
             /\ timers'[t].copy = timers[t].copy /\ timers'[t].job = timers[t].job
             /\ Held(j, t)
    <3>1. PICK c \in Entries : c = timers[t].copy
      BY <1>4
    <3>2. c # NoEntry /\ timers[t].job = j /\ OpenRow(j, c)
      BY <1>2, <2>3, <3>1 DEF Held
    <3>3. HeldRow(t)' = Handled(j, c)'
      BY <2>3, <3>1, <3>2 DEF HeldRow
    <3>4. HeldRow(t)' = Handled(j, c)
      BY <3>2, <3>3, HandledSame
    <3>5. HeldRow(t) = c
      BY <2>3, <3>1 DEF HeldRow
    <3>6. /\ Left(j, Handled(j, c)) \in Nat
          /\ Left(j, Handled(j, c)) + 1 <= Left(j, c)
      BY <1>1, <3>2, HandledLeft
    <3>7. Left(j, c) \in Nat
      BY <1>1, <1>4, <2>3, <3>1, LeftBounds
    <3>8. runs + Left(j, c) <= Budget(j) /\ runs' <= runs + 1
      BY <1>2, <1>3, <1>7, <2>3, <3>5
    <3> QED
      BY <1>2, <1>3, <1>6, <2>3, <3>4, <3>6, <3>7, <3>8
  <2> QED
    BY <1>1, <1>11, <2>1, <2>2, <2>3, HeldSteps
<1>12. ASSUME \A t \in Tid : ~Held(j, t)'
       PROVE  runs' + Left(j, schedule'[j]) <= Budget(j)'
  <2>1. ASSUME NEW t \in Tid, Held(j, t)
        PROVE  runs' + Left(j, schedule'[j]) <= Budget(j)'
    <3>1. HandleStore(t) /\ timers[t].job = j
      <4>1. ~HandleLoad(t, j)
        BY <2>1 DEF HandleLoad, Held, Handling
      <4> QED
        BY <1>1, <1>12, <2>1, <4>1, HeldSteps
    <3>2. timers[t].copy # NoEntry /\ timers[t].pc = "store"
      BY <2>1, <3>1 DEF Held, HandleStore
    <3>3. HeldRow(t) = Handled(j, timers[t].copy)
      BY <3>1, <3>2 DEF HeldRow
    <3>4. schedule'[j] \in {NoEntry, Handled(j, timers[t].copy)}
      BY <1>1, <3>1 DEF HandleStore, mUpdateSchedule, TypeInv, TableTypes
    <3>5. runs' = runs
      <4>1. ~HandleRun(t)
        BY <3>2 DEF HandleRun
      <4> QED
        BY <1>7, <1>8, <2>1, <4>1 DEF Held
    <3>6. Left(j, HeldRow(t)) \in Nat /\ Left(j, NoEntry) = 0
      BY <1>1, <1>2, <1>4, <2>1, <3>2, <3>3, HandledLeft DEF Left
    <3> QED
      BY <1>2, <1>3, <1>6, <2>1, <3>3, <3>4, <3>5, <3>6
  <2>2. CASE \A t \in Tid : ~Held(j, t)
    <3>1. runs' = runs /\ runs + Left(j, schedule[j]) <= Budget(j)
      BY <1>2, <1>7, <2>2
    <3>2. CASE schedule'[j] \in {schedule[j], NoEntry}
      <4>1. Left(j, NoEntry) = 0
        BY DEF Left
      <4> QED
        BY <1>3, <1>5, <1>6, <3>1, <3>2, <4>1
    <3>3. CASE Tick(j) /\ schedule'[j] = [schedule[j] EXCEPT !.due = TRUE]
      <4>1. /\ schedule'[j].last = schedule[j].last
            /\ schedule[j] # NoEntry /\ schedule'[j] # NoEntry
        BY <1>4, <3>3, Values DEF Tick, Entry, Entries
      <4>2. Left(j, schedule'[j]) = Left(j, schedule[j])
        BY <4>1 DEF Left
      <4> QED
        BY <1>3, <1>5, <1>6, <3>1, <4>2
    <3>4. CASE Schedule(j)
      <4>1. runs = 0
        BY <1>2, <3>4 DEF Schedule, Known
      <4> QED
        BY <1>3, <1>5, <1>6, <3>1, <4>1
    <3>5. ASSUME NEW op \in {"cancel", "modify"}, Update(j, op)
          PROVE  runs' + Left(j, schedule'[j]) <= Budget(j)'
      <4>1. Budget(j)' = Budget(j) + PerCount(j)
        BY <1>1, <3>5, BudgetNext
      <4> QED
        BY <1>3, <1>5, <1>6, <3>1, <4>1
    <3>6. ASSUME NEW t \in Tid, HandleStore(t), timers[t].job = j,
                 timers[t].copy # NoEntry
          PROVE  FALSE
      BY <2>2, <3>6 DEF HandleStore, Held, Handling
    <3> QED
      BY <1>1, <3>2, <3>3, <3>4, <3>5, <3>6, RowSteps
  <2> QED
    BY <2>1, <2>2
<1> QED
  BY <1>9, <1>10, <1>11, <1>12 DEF runs

LEMMA InitCount == ASSUME Init PROVE CountInv
<1>1. TypeInv /\ LockInv /\ RowInv
  BY InitRun DEF RunInv
<1>2. ASSUME NEW j \in Generic, RepeatCount[j] # Forever
      PROVE  /\ ~Known(j) => history.runs[j] = 0
             /\ OpenRow(j, schedule[j])
             /\ \A t \in Tid : ~Held(j, t)
             /\ history.runs[j] + Left(j, schedule[j]) <= Budget(j)
  <2>1. j \in Job /\ history.runs[j] = 0 /\ history.updates = 0
    BY SchedulerAssumption DEF SchedulerAssumption, Init
  <2>2. RepeatCount[j] \in Nat /\ PerCount(j) \in Nat
    BY <1>2, <2>1, LeftBounds
  <2>3. schedule[j].last = -1
    BY <2>1, Values DEF Init, Entries
  <2>4. OpenRow(j, schedule[j])
    BY <2>2, <2>3 DEF OpenRow
  <2>5. \A t \in Tid : ~Held(j, t)
    BY Values DEF Init, Held, Handling
  <2>6. Left(j, schedule[j]) \in Nat /\ Left(j, schedule[j]) <= PerCount(j)
    BY <1>1, <1>2, <2>1, LeftBounds DEF TypeInv, TableTypes
  <2>7. Budget(j) = PerCount(j)
    BY <2>1, <2>2 DEF Budget
  <2> QED
    BY <2>1, <2>2, <2>4, <2>5, <2>6, <2>7
<1> QED
  BY <1>1, <1>2 DEF CountInv, Counted

\* A repeating job runs at most repeat_count times after its first run and a
\* one-shot job once, for each time a cancel or modify request wrote its row anew:
\* also when the scheduler is killed between a run and the store of the counter's
\* new value, and when another timer process stores a stale copy of the row.
THEOREM RepeatsAreBounded == Spec => []RepeatBound
<1>1. CountInv /\ [Next]_vars => CountInv'
  BY TypeNext, LockNext, RowsNext, CountedNext DEF CountInv
<1>2. CountInv => RepeatBound
  <2> SUFFICES ASSUME CountInv, NEW j \in Generic, RepeatCount[j] # Forever
               PROVE  history.runs[j] <= Budget(j)
    BY DEF RepeatBound, Budget, PerCount
  <2>1. j \in Job /\ history.runs[j] \in Nat
    BY SchedulerAssumption DEF SchedulerAssumption, CountInv, TypeInv, Histories
  <2>2. PerCount(j) \in Nat /\ history.updates \in Nat
    BY <2>1, LeftBounds DEF CountInv, TypeInv, Histories
  <2>3. Budget(j) \in Nat
    BY <2>2 DEF Budget
  <2>4. CASE \A t \in Tid : ~Held(j, t)
    <3>1. Left(j, schedule[j]) \in Nat
      BY <2>1, LeftBounds DEF CountInv, TypeInv, TableTypes
    <3> QED
      BY <2>1, <2>3, <2>4, <3>1 DEF CountInv, Counted
  <2>5. ASSUME NEW t \in Tid, Held(j, t) PROVE history.runs[j] <= Budget(j)
    <3>1. /\ OpenRow(j, timers[t].copy) /\ timers[t].copy \in Entries
          /\ timers[t].copy # NoEntry /\ timers[t].job = j
          /\ timers[t].copy.last <= RepeatCount[j]
          /\ history.runs[j] + Left(j, HeldRow(t)) <= Budget(j)
      BY <2>5 DEF CountInv, Counted, Held, TypeInv, TimerTypes, Timers
    <3>2. Left(j, HeldRow(t)) \in Nat
      BY <2>1, <3>1, LeftBounds, HandledLeft DEF HeldRow
    <3> QED
      BY <2>1, <2>3, <3>1, <3>2
  <2> QED
    BY <2>4, <2>5
<1> QED
  BY <1>1, <1>2, InitCount, PTL DEF Spec
=============================================================================
