------------------------------ MODULE RemoteLock -------------------------------
(***************************************************************************)
(* The remote lock: an operation takes a lock file on each of its hosts, in *)
(* host order, keeps it alive with one heartbeat process per host, and     *)
(* removes it on release.  A waiting operation asks whether the owner of   *)
(* the lock is still at work and otherwise removes all locks of the host.  *)
(*                                                                         *)
(* The lock script on the hosts (scripts/network/dom0_lock.py) is external; *)
(* its commands are modelled from their use in remotelock.py and from the  *)
(* tests in exatest/remote_lock.  One command on a host is one action.     *)
(***************************************************************************)
EXTENDS Naturals, Integers, FiniteSets

CONSTANTS Op,          \* operations: a request uuid and the pid that runs it
          NHost,       \* hosts, numbered in the order of their names
          Races,       \* may a lock change hands while another operation judges it
          MaxRound,    \* acquisitions of one operation
          MaxCrash,    \* processes killed, by op_cleanup or otherwise
          MaxIoError,  \* commands on a host that fail
          MaxSuspect,  \* probes that a working owner does not answer
          MaxBeatStop, \* heartbeats that stop because the host does not answer
          MaxExtra,    \* calls of release without a lock
          MaxFaults    \* all of these together

ASSUME LockAssumption ==
    /\ NHost \in Nat \ {0} /\ Races \in BOOLEAN /\ MaxRound \in Nat /\ MaxCrash \in Nat
    /\ MaxIoError \in Nat /\ MaxSuspect \in Nat /\ MaxBeatStop \in Nat
    /\ MaxExtra \in Nat /\ MaxFaults \in Nat

Host == 1..NHost
Free == "free"
ASSUME FreeAssumption == Free \notin Op

VARIABLES hosts,    \* operation -> its hosts
          lock,     \* host -> owner of the lock file
          expired,  \* hosts whose lock is past its expire_date
          script,   \* (operation, host): its host_lock script is on the host
          beats,    \* (operation, host): a heartbeat process is running
          known,    \* operation -> hosts whose heartbeat is in _active_processes
          pc,       \* where the operation is
          todo,     \* operation -> hosts it has still to lock or to release
          info,     \* operation -> owner it read from the lock on the host
          again,    \* operation -> it is in the retry loop of this host
          counter,  \* _counter
          dbAcq,    \* rows (operation, host) of type DOM0_LOCK_ACQUIRING
          dbLock,   \* rows (operation, host) of type DOM0_LOCK
          round,    \* operation -> acquisitions so far
          faults    \* what the environment has used up

files == <<lock, expired, script>>
local == <<known, todo, info, again, counter>>
db == <<dbAcq, dbLock>>
vars == <<hosts, files, beats, local, pc, db, round, faults>>

Lowest(S) == CHOOSE h \in S : \A g \in S : h =< g
Highest(S) == CHOOSE h \in S : \A g \in S : h >= g

\* The host the operation is at: hosts are locked and released in order and
\* rolled back in the reverse order.
CurOwnOrder(o) == IF o = (CHOOSE q \in Op : TRUE) THEN Highest(todo[o])
                                                  ELSE Lowest(todo[o])
Cur(o) == IF pc[o] \in {"rollback", "rolled"} THEN Highest(todo[o]) ELSE Lowest(todo[o])

\* The host list of acquire and release, from __force_host_list or lock_name.
TargetsAll(o) == Host
Targets(o) == hosts[o]

Goto(o, l) == pc' = [pc EXCEPT ![o] = l]

Waiting == {"try", "info", "probe", "remove"}
Acquiring == {"prepare", "recheck", "reprobe", "reremove", "start"} \cup Waiting
Releasing == {"release", "released", "rollback", "rolled"}
Alive == Acquiring \cup Releasing \cup {"held"}

\* The environment does something it can do only so often.
Spent == faults.crash + faults.io + faults.suspect + faults.beat + faults.extra
Fault(f, max) == /\ faults[f] < max /\ Spent < MaxFaults
                 /\ faults' = [faults EXCEPT ![f] = @ + 1]

Init ==
    /\ hosts \in [Op -> (SUBSET Host) \ {{}}]
    /\ lock = [h \in Host |-> Free] /\ expired = {} /\ script = {} /\ beats = {}
    /\ known = [o \in Op |-> {}] /\ todo = [o \in Op |-> {}]
    /\ info = [o \in Op |-> Free] /\ again = [o \in Op |-> FALSE]
    /\ counter = [o \in Op |-> 0] /\ pc = [o \in Op |-> "idle"]
    /\ dbAcq = {} /\ dbLock = {}
    /\ round = [o \in Op |-> 0]
    /\ faults = [crash |-> 0, io |-> 0, suspect |-> 0, beat |-> 0, extra |-> 0]

-----------------------------------------------------------------------------
(* The lock script on a host.                                               *)

\* acquire: the lock is free, expired or already the caller's.
CanAcquire(o, h) == lock[h] \in {Free, o} \/ h \in expired

\* No other operation is between its get-info on the host and what follows.
Undisturbed(o, h) ==
    Races \/ \A q \in Op \ {o} : ~(/\ pc[q] \in {"probe", "remove"}
                                   /\ Cur(q) = h)

SetLock(h, o) == /\ lock' = [lock EXCEPT ![h] = o]
                 /\ expired' = expired \ {h}

-----------------------------------------------------------------------------
(* acquire                                                                  *)

acquire(o) ==
    /\ pc[o] = "idle" /\ counter[o] =< 0 /\ round[o] < MaxRound
    /\ known' = [known EXCEPT ![o] = {}]
    /\ todo' = [todo EXCEPT ![o] = Targets(o)]
    /\ round' = [round EXCEPT ![o] = @ + 1]
    /\ Goto(o, "prepare")
    /\ UNCHANGED <<hosts, files, beats, info, again, counter, db, faults>>

\* A host is not connectable: nothing is locked.
Unreachable(o) ==
    /\ pc[o] = "idle" /\ counter[o] =< 0 /\ round[o] < MaxRound
    /\ Fault("io", MaxIoError)
    /\ Goto(o, "failed")
    /\ UNCHANGED <<hosts, files, beats, local, db, round>>

\* The script is copied and the row DOM0_LOCK_ACQUIRING inserted.
Prepare(o) ==
    /\ pc[o] = "prepare"
    /\ script' = script \cup {<<o, Cur(o)>>}
    /\ dbAcq' = dbAcq \cup {<<o, Cur(o)>>}
    /\ again' = [again EXCEPT ![o] = FALSE]
    /\ Goto(o, "try")
    /\ UNCHANGED <<hosts, lock, expired, beats, known, todo, info, counter, dbLock,
                   round, faults>>

\* The acquire command.  In the retry loop the lock is evaluated once more
\* after it was acquired.
Try(o) ==
    /\ pc[o] = "try"
    /\ \/ /\ CanAcquire(o, Cur(o)) /\ Undisturbed(o, Cur(o))
          /\ SetLock(Cur(o), o)
          /\ Goto(o, IF again[o] THEN "recheck" ELSE "start")
       \/ /\ ~CanAcquire(o, Cur(o))
          /\ Goto(o, "info")
          /\ UNCHANGED <<lock, expired>>
    /\ again' = [again EXCEPT ![o] = TRUE]
    /\ UNCHANGED <<hosts, script, beats, known, todo, info, counter, db, round,
                   faults>>

\* Any command of the acquisition fails and raises: the hosts locked before
\* this one are rolled back.
TryFails(o) ==
    /\ pc[o] \in {"prepare", "try", "info", "recheck"}
    /\ Fault("io", MaxIoError)
    /\ todo' = [todo EXCEPT ![o] = Targets(o) \ todo[o]]
    /\ Goto(o, "rollback")
    /\ UNCHANGED <<hosts, files, beats, known, info, again, counter, db, round>>

\* get-info; the owner may just have released the lock.  The info of the
\* own lock is read in the same way after a retry succeeded.
GetInfo(o) ==
    /\ pc[o] \in {"info", "recheck"}
    /\ info' = [info EXCEPT ![o] = lock[Cur(o)]]
    /\ Goto(o, IF pc[o] = "info" THEN "probe" ELSE "reprobe")
    /\ UNCHANGED <<hosts, files, beats, known, todo, again, counter, db, round, faults>>

\* The owner's worker does not answer, or answers with another uuid.
AtWorkHeld(q) == pc[q] = "held"
AtWork(q) == pc[q] \in Alive \cup {"idle"}

Stale(q) == q \in Op /\ ~AtWork(q)

\* release_stale_locks: probe the worker of the owner, or ping its host.
Probe(o) ==
    /\ pc[o] \in {"probe", "reprobe"}
    /\ LET to == IF pc[o] = "probe" THEN "remove" ELSE "reremove"
           back == IF pc[o] = "probe" THEN "try" ELSE "start"
       IN \/ /\ Goto(o, IF Stale(info[o]) THEN to ELSE back)
             /\ UNCHANGED faults
          \/ /\ info[o] # Free
             /\ Fault("suspect", MaxSuspect)
             /\ Goto(o, to)
    /\ UNCHANGED <<hosts, files, beats, local, db, round>>

\* remove_all_locks: clear, which does no more than set _counter, and then
\* whichever lock is on the host by now.
remove_all_locks(o) ==
    /\ pc[o] \in {"remove", "reremove"}
    /\ SetLock(Cur(o), Free)
    /\ counter' = [counter EXCEPT ![o] = 0]
    /\ Goto(o, IF pc[o] = "remove" THEN "try" ELSE "start")
    /\ UNCHANGED <<hosts, script, beats, known, todo, info, again, db, round, faults>>

\* Start of the heartbeat, and the rows of table locks.
StartHeartbeat(o) ==
    /\ pc[o] = "start"
    /\ LET h == Cur(o) IN
       /\ beats' = beats \cup {<<o, h>>}
       /\ known' = [known EXCEPT ![o] = @ \cup {h}]
       /\ dbAcq' = dbAcq \ {<<o, h>>}
       /\ dbLock' = {x \in dbLock : x[2] # h} \cup {<<o, h>>}
       /\ todo' = [todo EXCEPT ![o] = @ \ {h}]
       /\ IF todo[o] = {h}
          THEN Goto(o, "held") /\ counter' = [counter EXCEPT ![o] = @ + 1]
          ELSE Goto(o, "prepare") /\ UNCHANGED counter
    /\ UNCHANGED <<hosts, files, info, again, round, faults>>

\* A nested acquire or its release; acquire has replaced _active_processes.
\* Nesting once more changes nothing.
Nest(o) ==
    /\ pc[o] = "held" /\ counter[o] = 1 /\ known[o] # {}
    /\ known' = [known EXCEPT ![o] = {}]
    /\ counter' = [counter EXCEPT ![o] = 2]
    /\ UNCHANGED <<hosts, files, beats, pc, todo, info, again, db, round, faults>>
Unnest(o) ==
    /\ pc[o] = "held" /\ counter[o] = 2
    /\ counter' = [counter EXCEPT ![o] = 1]
    /\ UNCHANGED <<hosts, files, beats, pc, known, todo, info, again, db, round, faults>>

-----------------------------------------------------------------------------
(* release                                                                  *)

release(o) ==
    /\ pc[o] = "held" /\ counter[o] = 1
    /\ counter' = [counter EXCEPT ![o] = 0]
    /\ todo' = [todo EXCEPT ![o] = Targets(o)]
    /\ Goto(o, "release")
    /\ UNCHANGED <<hosts, files, beats, known, info, again, db, round, faults>>

\* "Trying to release unacquired lock, aborting!"
ReleaseAborts(o) ==
    /\ counter[o] =< 0
    /\ \/ pc[o] = "held" /\ UNCHANGED faults
       \/ pc[o] = "idle" /\ Fault("extra", MaxExtra)
    /\ counter' = [counter EXCEPT ![o] = @ - 1]
    /\ Goto(o, IF pc[o] = "held" THEN "failed" ELSE "idle")
    /\ UNCHANGED <<hosts, files, beats, known, todo, info, again, db, round>>

\* An exception leaves the command inside a nested lock.
clear(o) ==
    /\ pc[o] = "held" /\ counter[o] = 2
    /\ counter' = [counter EXCEPT ![o] = 0]
    /\ todo' = [todo EXCEPT ![o] = Targets(o)]
    /\ Goto(o, "release")
    /\ UNCHANGED <<hosts, files, beats, known, info, again, db, round, faults>>

\* On to the next host.  After the last one _cleanup_processes terminates the
\* heartbeats that are left, k are the hosts of those it knows.
NextHost(o, b) ==
    LET h == Cur(o)
        rolling == pc[o] \in {"rollback", "rolled"}
    IN
    /\ todo' = [todo EXCEPT ![o] = @ \ {h}]
    /\ IF todo[o] = {h}
       THEN /\ Goto(o, IF rolling THEN "failed" ELSE "idle")
            /\ beats' = b \ {<<o, g>> : g \in known[o]}
            /\ known' = [known EXCEPT ![o] = {}]
            /\ counter' = [counter EXCEPT ![o] = 0]
       ELSE /\ Goto(o, IF rolling THEN "rollback" ELSE "release")
            /\ beats' = b
            /\ UNCHANGED <<known, counter>>

\* Releases the lock if it is the caller's and deletes the script.  A lock of
\* somebody else is an error, logged, and the next host follows.
_release_per_host(o) ==
    /\ pc[o] \in {"release", "rollback"} /\ todo[o] # {}
    /\ LET h == Cur(o) IN
       /\ script' = script \ {<<o, h>>}
       /\ \/ /\ lock[h] \in {Free, o}
             /\ Undisturbed(o, h)
             /\ IF lock[h] = o THEN SetLock(h, Free) ELSE UNCHANGED <<lock, expired>>
             /\ Goto(o, IF pc[o] = "rollback" THEN "rolled" ELSE "released")
             /\ UNCHANGED <<beats, todo, known, counter>>
          \/ /\ lock[h] \notin {Free, o}
             /\ NextHost(o, beats)
             /\ UNCHANGED <<lock, expired>>
    /\ UNCHANGED <<hosts, info, again, db, round, faults>>

mDeleteLockByHost(o, h) == dbLock' = {x \in dbLock : x[2] # h}
mDeleteLock(o, h) == dbLock' = dbLock \ {<<o, h>>}

\* Terminates the heartbeat it knows of and deletes the row DOM0_LOCK.
StopHeartbeat(o) ==
    /\ pc[o] \in {"released", "rolled"}
    /\ mDeleteLock(o, Cur(o))
    /\ NextHost(o, beats \ ({<<o, Cur(o)>>} \cap {<<o, g>> : g \in known[o]}))
    /\ UNCHANGED <<hosts, files, info, again, dbAcq, round, faults>>

\* The host cannot be reached: logged, and on to the next one.
ReleaseFails(o) ==
    /\ pc[o] \in {"release", "rollback"} /\ todo[o] # {}
    /\ Fault("io", MaxIoError)
    /\ NextHost(o, beats)
    /\ UNCHANGED <<hosts, files, info, again, db, round>>

\* The request ends; the worker has another uuid from now on.
End(o) ==
    /\ pc[o] = "idle" /\ round[o] > 0
    /\ Goto(o, "done")
    /\ UNCHANGED <<hosts, files, beats, local, db, round, faults>>

\* A rollback before any host was locked.
NothingToRoll(o) ==
    /\ pc[o] = "rollback" /\ todo[o] = {}
    /\ Goto(o, "failed")
    /\ UNCHANGED <<hosts, files, beats, local, db, round, faults>>

-----------------------------------------------------------------------------
(* Heartbeats, time and crashes.                                            *)

\* _lock_heartbeat goes on as long as the script is there and the refresh
\* succeeds; it is not tied to the life of the operation.
BeatEndsIfTaken(o, h) ==
    /\ <<o, h>> \in beats
    /\ lock[h] \in Op \ {o}
    /\ beats' = beats \ {<<o, h>>}
    /\ UNCHANGED <<hosts, files, local, pc, db, round, faults>>
BeatEnds(o, h) ==
    /\ <<o, h>> \in beats
    /\ <<o, h>> \notin script \/ lock[h] # o
    /\ beats' = beats \ {<<o, h>>}
    /\ UNCHANGED <<hosts, files, local, pc, db, round, faults>>

\* The host does not answer a ping: the heartbeat stops for good.
BeatStops(o, h) ==
    /\ <<o, h>> \in beats
    /\ Fault("beat", MaxBeatStop)
    /\ beats' = beats \ {<<o, h>>}
    /\ UNCHANGED <<hosts, files, local, pc, db, round>>

\* A lock nobody refreshes expires; a refresh comes well before that.
Expire(h) ==
    /\ h \notin expired
    /\ \E o \in Op : /\ lock[h] = o /\ <<o, h>> \notin beats
                     /\ pc[o] \notin {"recheck", "reprobe", "start"}
    /\ expired' = expired \cup {h}
    /\ UNCHANGED <<hosts, lock, script, beats, local, pc, db, round, faults>>

\* The process is killed; its heartbeats go on.
Crash(o) ==
    /\ pc[o] \in Alive
    /\ Fault("crash", MaxCrash)
    /\ Goto(o, "dead")
    /\ UNCHANGED <<hosts, files, beats, local, db, round>>

\* op_cleanup kills the operation, and frees the locks and rows of its uuid:
\* of the plain uuid, which owns none (owners are uuid_pid).
OpCleanup(o) ==
    /\ pc[o] \in Alive
    /\ Fault("crash", MaxCrash)
    /\ Goto(o, "cleaned")
    /\ UNCHANGED <<hosts, files, beats, local, db, round>>

-----------------------------------------------------------------------------

Step(o) ==
    \/ Prepare(o) \/ Try(o) \/ GetInfo(o) \/ Probe(o) \/ remove_all_locks(o)
    \/ StartHeartbeat(o) \/ Unnest(o) \/ release(o) \/ ReleaseAborts(o)
    \/ clear(o) \/ _release_per_host(o) \/ StopHeartbeat(o) \/ NothingToRoll(o)
    \/ End(o)

Next ==
    \/ \E o \in Op : \/ Step(o) \/ acquire(o) \/ Unreachable(o) \/ Nest(o)
                     \/ TryFails(o) \/ ReleaseFails(o) \/ Crash(o) \/ OpCleanup(o)
                     \/ \E h \in Host : BeatEnds(o, h) \/ BeatStops(o, h)
    \/ \E h \in Host : Expire(h)

Spec == Init /\ [][Next]_vars
FairSpec == /\ Spec
            /\ \A o \in Op : WF_vars(Step(o))
            /\ \A h \in Host : WF_vars(Expire(h))
                               /\ \A o \in Op : WF_vars(BeatEnds(o, h))

-----------------------------------------------------------------------------
(* Properties.                                                              *)

Pcs == Alive \cup {"idle", "done", "failed", "dead", "cleaned"}

TypeOK ==
    /\ hosts \in [Op -> SUBSET Host]
    /\ lock \in [Host -> Op \cup {Free}]
    /\ expired \subseteq Host
    /\ script \subseteq Op \X Host /\ beats \subseteq Op \X Host
    /\ \A o \in Op : known[o] \subseteq hosts[o] /\ todo[o] \subseteq hosts[o]
    /\ known \in [Op -> SUBSET Host] /\ todo \in [Op -> SUBSET Host]
    /\ info \in [Op -> Op \cup {Free}] /\ again \in [Op -> BOOLEAN]
    /\ counter \in [Op -> Int]
    /\ pc \in [Op -> Pcs]
    /\ dbAcq \subseteq Op \X Host /\ dbLock \subseteq Op \X Host
    /\ round \in [Op -> Nat]
    /\ DOMAIN faults = {"crash", "io", "suspect", "beat", "extra"}
    /\ \A f \in DOMAIN faults : faults[f] \in Nat

\* Two operations that share a host never hold the lock at the same time, nested
\* locks, failed acquisitions and rollbacks included.
MutualExclusion ==
    \A o, q \in Op : pc[o] = "held" /\ pc[q] = "held" /\ o # q
                     => hosts[o] \cap hosts[q] = {}

\* Hosts are locked in one order: whoever waits for a host owns only locks of
\* earlier hosts, so operations never wait for each other in a circle.
WaitsUpwards ==
    \A o \in Op, h \in Host :
        pc[o] \in Waiting /\ lock[h] = o => h < Cur(o)

\* Table locks shows, for a host that is locked, the operation that holds it,
\* although rows are deleted after the next operation may have the lock.
LockTableAgrees ==
    \A o \in Op : pc[o] = "held" =>
        \A h \in hosts[o] : {x \in dbLock : x[2] = h} = {<<o, h>>}

\* Every acquisition ends with the lock or an error, and every held lock is
\* let go: locks of killed operations, whose heartbeats go on, and locks that
\* could not be released do not block the others for ever.
AcquisitionEnds ==
    \A o \in Op : pc[o] \in Acquiring ~> pc[o] \in Pcs \ Acquiring

\* A request that has ended leaves no heartbeat that would keep a lock alive,
\* also those of a nested lock, which release has lost track of, unless release
\* could not reach the host.
NoHeartbeatLeft ==
    \A o \in Op, h \in Host :
        pc[o] = "done" ~> (<<o, h>> \notin beats \/ faults.io > 0)

\* remove_all_locks removes only the lock of an operation that is not at work.
OnlyStaleRemoved ==
    [][\A o \in Op : remove_all_locks(o) =>
          lock[Cur(o)] = Free \/ Stale(lock[Cur(o)])]_vars

\* release says that the lock is not acquired only if it is not.
AbortsOnlyUnlocked ==
    [][\A o \in Op : ReleaseAborts(o) => \A h \in Host : lock[h] # o]_vars

\* After op_cleanup the uuid has no lock under acquisition.
CleanupFreesAcquiring ==
    \A o \in Op, h \in Host : pc[o] = "cleaned" => <<o, h>> \notin dbAcq
=============================================================================
