------------------------------ MODULE SchedulerInv ------------------------------
(***************************************************************************)
(* The inductive invariants of the scheduler: TypeInv, LockInv (who has    *)
(* scheduler_lock), RunInv (what a due job may still run) and CountInv     *)
(* (what is left of its repetitions).                                      *)
(***************************************************************************)
EXTENDS Scheduler

Entries == [op : {"none", "schedule", "cancel", "modify"}, due : BOOLEAN,
            last : Nat \cup {Forever}]
Requests == [status : {"none", "Pending", "Done"}, error : {"Undef", "0", "own"}]
Timers == [pc : {"unborn", "wait", "list", "rows", "run", "store"}, event : BOOLEAN,
           left : SUBSET Timer, job : Job \cup {NoJob}, copy : Entries, req : Requests]
Handlers == [pc : {"off", "rows", "store"}, signal : BOOLEAN, left : SUBSET Job,
             job : Job \cup {NoJob}, req : Requests]
Histories == [runs : [Job -> Nat], ticks : [Job -> Nat], cancelled : SUBSET Job,
              updates : Nat, kills : Nat]

\* A timer process is in request_handler.
Handling(t) == timers[t].pc \in {"run", "store"}

TableTypes ==
    /\ schedule \in [Job -> Entries] /\ requests \in [Job -> Requests]
    /\ workers \subseteq Job
    /\ \A j \in Job : schedule[j].last <= RepeatCount[j]

ThreadTypes ==
    /\ lock \in Tid \cup {Sched, None}
    /\ main \in [pc : {"list", "rows", "follow", "hung", "dead"}, left : SUBSET Job,
                 job : Job \cup {NoJob}]
    /\ main.pc = "follow" => main.job \in Job
    /\ handler \in Handlers /\ (handler.pc = "store" => handler.job \in Job)
    /\ child \in Tid \cup {None}
    /\ agent \in [job : Job \cup {NoJob}, op : {"none", "cancel", "modify"}]
    /\ agent # IdleAgent => agent.job \in Job

TimerTypes ==
    /\ timers \in [Tid -> Timers]
    /\ \A t \in Tid : Handling(t) => /\ timers[t].job \in Job
                                     /\ timers[t].copy.last <= RepeatCount[timers[t].job]

TypeInv == TableTypes /\ ThreadTypes /\ TimerTypes /\ history \in Histories

\* The file lock is with the process that is between its load and its store.
LockInv ==
    /\ \A t \in Tid : Handling(t) <=> lock = t
    /\ handler.pc # "off" <=> lock = Sched
    /\ main.pc = "dead" => handler.pc = "off"

\* A row that is gone does not come back: its request is in table requests.
Known(j) == j \in Registered \/ requests[j] # NoRequest
RowInv ==
    /\ \A j \in Job : Entry(j) => Known(j)
    /\ \A t \in Tid : /\ \A j \in timers[t].left : Known(j)
                      /\ Handling(t) => /\ Known(timers[t].job)
                                        /\ timers[t].job \notin timers[t].left
                                        /\ timers[t].copy = NoEntry
                                             => ~Entry(timers[t].job)
                      /\ timers[t].pc \in {"unborn", "wait", "list"}
                           => timers[t].left = {}

\* Each scheduler starts one timer process, which outlives it.
Born == {t \in Tid : timers[t].pc # "unborn"}
BornInv ==
    /\ child # None => child \in Born
    /\ IsFiniteSet(Born)
    /\ Cardinality(Born) <= history.kills + (IF child = None THEN 0 ELSE 1)

\* The timer processes that have found the job due and not yet run it.
Owing(j) ==
    {t \in Tid : j \in timers[t].left \/ (timers[t].pc = "run" /\ timers[t].job = j)}
Stored(j) == \E t \in Tid : timers[t].pc = "store" /\ timers[t].job = j

\* The runs still to come of what the table and the timer processes hold: each
\* of them may find a due job due.  Between run and store the row still says
\* due, but nobody looks.
Owed(j) == IF schedule[j].due /\ ~Stored(j) THEN 1 + history.kills
                                            ELSE Cardinality(Owing(j))

\* Every run is paid for by a time the job became due, which pays one run for
\* each timer process.
Paid ==
    \A j \in Job :
        /\ history.runs[j] + Owed(j) <= history.ticks[j] * (1 + history.kills)
        /\ schedule[j].due => history.ticks[j] >= 1

RunInv == TypeInv /\ LockInv /\ RowInv /\ BornInv /\ Paid

-----------------------------------------------------------------------------
(* The repetitions of a generic job *)

\* The runs a fresh row stands for, and those left of a row that counts.
PerCount(j) == IF j \in Once THEN 1 ELSE RepeatCount[j] + 1
Left(j, e) == CASE e = NoEntry -> 0
                [] e # NoEntry /\ j \in Once -> 1
                [] OTHER -> RepeatCount[j] - e.last
Budget(j) == (1 + history.updates) * PerCount(j)

\* A row whose counter has reached repeat_count is dropped, not stored.
OpenRow(j, e) == e # NoEntry /\ j \notin Once => e.last < RepeatCount[j]

\* A timer process has a copy of the job's row and will store HeldRow: until then
\* that copy says how often the job may run, whatever the table says.
Held(j, t) == Handling(t) /\ timers[t].job = j /\ timers[t].copy # NoEntry
HeldRow(t) == IF timers[t].pc = "run" THEN timers[t].copy
                                      ELSE Handled(timers[t].job, timers[t].copy)

Counted ==
    \A j \in Generic :
        RepeatCount[j] # Forever =>
            /\ ~Known(j) => history.runs[j] = 0
            /\ OpenRow(j, schedule[j])
            /\ \A t \in Tid : Held(j, t) =>
                 /\ OpenRow(j, timers[t].copy)
                 /\ history.runs[j] + Left(j, HeldRow(t)) <= Budget(j)
            /\ (\A t \in Tid : ~Held(j, t)) =>
                 history.runs[j] + Left(j, schedule[j]) <= Budget(j)

CountInv == TypeInv /\ LockInv /\ RowInv /\ Counted
=============================================================================
