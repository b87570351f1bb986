---------------------------- MODULE MCScheduler ----------------------------
(* Instances of Scheduler for TLC.  A job's name says what it is: o1 generic *)
(* and once, r1 generic and repeating, x1 the same but registered at start,  *)
(* w1 a one-shot job of mode default, f1 a follow-up job, n1 no_active_jobs. *)
EXTENDS SchedulerInv

CONSTANTS o1, r1, f1, n1, w1, x1, t1, t2

Repeats == [j \in Job |-> 1]
RepeatsForever == [j \in Job |-> Forever]

\* f1 follows the other job an agent request scheduled, if there is one.
Monitors ==
    [j \in Job |->
        IF j = f1 /\ Job \ (Registered \cup {f1, n1}) # {}
        THEN CHOOSE k \in Job : k \notin Registered \cup {f1, n1}
        ELSE NoJob]
=============================================================================
