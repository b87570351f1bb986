--------------------------- MODULE RemoteLockSafety ---------------------------
(* Mutual exclusion of the remote lock, for every value of the constants.   *)
EXTENDS RemoteLockProofs

USE DEF Waiting, Acquiring, Releasing, Alive, AtOwn

Held == JudgeInv /\ LockedInv /\ BeatInv /\ RowsInv

\* Faults that QuietHosts rules out do not happen.
LEMMA NoSuspicion ==
    ASSUME QuietHosts, TypeInv
    PROVE  ~Fault("suspect", MaxSuspect) /\ ~Fault("beat", MaxBeatStop)
BY FaultType DEF QuietHosts, Fault, TypeInv, TypeOK

\* Nobody else holds a host whose lock an operation can acquire.
LEMMA AcquiredIsFree ==
    ASSUME TypeInv, Held, NEW o \in Op, NEW h \in Host, CanAcquire(o, h),
           NEW q \in Op \ {o}
    PROVE  ~Holds(q, h)
BY FreeAssumption DEF Held, LockedInv, BeatInv, RowsInv, CanAcquire

\* A lock that is removed is not held.
LEMMA RemovedIsStale ==
    ASSUME TypeInv, Held, NEW o \in Op, pc[o] = "remove", NEW q \in Op
    PROVE  ~Holds(q, Cur(o))
<1>1. Cur(o) = Lowest(todo[o]) /\ Cur(o) \in Host
  BY AtLowest
<1>2. lock[Cur(o)] \in {info[o], Free} /\ Stale(info[o])
  BY <1>1 DEF Held, JudgeInv
<1>3. Holds(q, Cur(o)) => lock[Cur(o)] = q /\ pc[q] \in Alive
  BY <1>1 DEF Held, LockedInv, BeatInv, RowsInv, Holds, Beating
<1> QED
  BY <1>2, <1>3, FreeAssumption DEF Stale, AtWork

LEMMA HeldAcquire ==
    ASSUME QuietHosts, TypeInv, Held, NEW o \in Op,
           \/ acquire(o) \/ Unreachable(o) \/ Prepare(o) \/ Try(o) \/ TryFails(o)
           \/ GetInfo(o) \/ Probe(o) \/ remove_all_locks(o) \/ StartHeartbeat(o)
    PROVE  Held'
<1> USE DEF Held, JudgeInv, LockedInv, BeatInv, RowsInv, Holds, Beating, Stale, AtWork, TypeInv, TypeOK,
            TodoInv, files, local, db, Goto
<1>1. CASE acquire(o)
  BY <1>1 DEF acquire, Targets
<1>2. CASE Unreachable(o)
  BY <1>2 DEF Unreachable
<1>3. CASE Prepare(o)
  BY <1>3, AtLowest DEF Prepare
<1>4. CASE Try(o)
  <2>1. Cur(o) = Lowest(todo[o]) /\ Cur(o) \in Host /\ Cur(o) \in todo[o]
    BY <1>4, AtLowest DEF Try
  <2>2. CanAcquire(o, Cur(o)) => \A q \in Op \ {o} : ~Holds(q, Cur(o))
    BY <2>1, AcquiredIsFree
  <2>3. JudgeInv'
    <3>1. /\ pc'[o] \notin {"probe", "remove", "reprobe", "reremove"} /\ pc[o] = "try"
          /\ \A q \in Op \ {o} : pc'[q] = pc[q]
          /\ UNCHANGED <<todo, info>>
      BY <1>4 DEF Try
    <3>2. ASSUME NEW q \in Op \ {o}, pc[q] \in {"probe", "remove"}
          PROVE  lock'[Lowest(todo[q])] = lock[Lowest(todo[q])]
      <4>1. Cur(q) = Lowest(todo[q]) /\ Cur(q) \in Host
        BY <3>2, AtLowest
      <4>2. UNCHANGED lock \/ (Undisturbed(o, Cur(o)) /\ lock' = [lock EXCEPT ![Cur(o)] = o])
        BY <1>4 DEF Try, SetLock
      <4>3. Undisturbed(o, Cur(o)) => Cur(q) # Cur(o)
        BY <3>2 DEF Undisturbed, QuietHosts
      <4> QED
        BY <4>1, <4>2, <4>3
    <3>3. ASSUME NEW q \in Op \ {o}, pc[q] = "remove" PROVE Stale(info[q])'
      <4>1. Stale(info[q])
        BY <3>3
      <4> QED
        BY <3>1, <4>1
    <3> QED
      BY <3>1, <3>2, <3>3
  <2>4. LockedInv'
    BY <1>4, <2>1, <2>2 DEF Try, SetLock
  <2>5. BeatInv' /\ RowsInv'
    BY <1>4, <2>1 DEF Try
  <2> QED
    BY <2>3, <2>4, <2>5
<1>5. CASE TryFails(o)
  BY <1>5 DEF TryFails
<1>6. CASE GetInfo(o)
  BY <1>6, AtLowest DEF GetInfo
<1>7. CASE Probe(o)
  BY <1>7, NoSuspicion DEF Probe
<1>8. CASE remove_all_locks(o)
  BY <1>8, AtLowest, RemovedIsStale DEF remove_all_locks, SetLock
<1>9. CASE StartHeartbeat(o)
  BY <1>9, AtLowest DEF StartHeartbeat
<1> QED
  BY <1>1, <1>2, <1>3, <1>4, <1>5, <1>6, <1>7, <1>8, <1>9

LEMMA HeldHeld ==
    ASSUME TypeInv, Held, NEW o \in Op,
           Nest(o) \/ Unnest(o) \/ release(o) \/ ReleaseAborts(o) \/ clear(o)
    PROVE  Held'
<1> USE DEF Held, JudgeInv, LockedInv, BeatInv, RowsInv, Holds, Beating, Stale, AtWork, TypeInv, TypeOK,
            files, local, db, Goto
<1>1. CASE Nest(o) \/ Unnest(o)
  BY <1>1 DEF Nest, Unnest
<1>2. CASE release(o) \/ clear(o)
  BY <1>2 DEF release, clear, Targets
<1>3. CASE ReleaseAborts(o)
  BY <1>3 DEF ReleaseAborts
<1> QED
  BY <1>1, <1>2, <1>3

LEMMA HeldRelease ==
    ASSUME QuietHosts, TypeInv, Held, NEW o \in Op,
           \/ _release_per_host(o) \/ StopHeartbeat(o) \/ ReleaseFails(o)
           \/ End(o) \/ NothingToRoll(o)
    PROVE  Held'
<1> USE DEF Held, JudgeInv, LockedInv, BeatInv, RowsInv, Holds, Beating, Stale, AtWork, TypeInv, TypeOK,
            files, local, db, Goto
<1>1. CASE _release_per_host(o) /\ NextHost(o, beats)
  BY <1>1, FreeAssumption DEF _release_per_host, NextHost, SetLock
<1>2. CASE _release_per_host(o) /\ ~NextHost(o, beats)
  <2>1. /\ pc[o] \in {"release", "rollback"} /\ lock[Cur(o)] \in {Free, o}
        /\ pc' = [pc EXCEPT ![o] = IF pc[o] = "rollback" THEN "rolled" ELSE "released"]
        /\ script' = script \ {<<o, Cur(o)>>} /\ expired' \subseteq expired
        /\ lock' \in {lock, [lock EXCEPT ![Cur(o)] = Free]}
        /\ UNCHANGED <<hosts, todo, info, beats, dbLock>>
    BY <1>2 DEF _release_per_host, SetLock
  <2>2. \A q \in Op : ~Holds(q, Cur(o)) \/ Cur(o) \notin Host
    BY <2>1, FreeAssumption
  <2>3. \A h \in Host : lock'[h] = lock[h] \/ (h = Cur(o) /\ lock'[h] = Free)
    BY <2>1
  <2> QED
    BY <2>1, <2>2, <2>3, AtLowest
<1>3. CASE StopHeartbeat(o)
  BY <1>3 DEF StopHeartbeat, mDeleteLock, NextHost
<1>4. CASE ReleaseFails(o)
  BY <1>4 DEF ReleaseFails, NextHost
<1>5. CASE End(o) \/ NothingToRoll(o)
  BY <1>5 DEF End, NothingToRoll
<1> QED
  BY <1>1, <1>2, <1>3, <1>4, <1>5

LEMMA HeldOthers ==
    ASSUME QuietHosts, TypeInv, Held,
           \/ \E o \in Op : Crash(o) \/ OpCleanup(o)
           \/ \E o \in Op, h \in Host : BeatEnds(o, h) \/ BeatStops(o, h)
           \/ \E h \in Host : Expire(h)
           \/ UNCHANGED vars
    PROVE  Held'
<1> USE DEF Held, JudgeInv, LockedInv, BeatInv, RowsInv, Holds, Beating, Stale, AtWork, TypeInv, TypeOK,
            files, local, db, Goto
<1>1. CASE \E o \in Op : Crash(o) \/ OpCleanup(o)
  BY <1>1 DEF Crash, OpCleanup
<1>2. CASE \E o \in Op, h \in Host : BeatEnds(o, h) \/ BeatStops(o, h)
  BY <1>2, NoSuspicion DEF BeatEnds, BeatStops
<1>3. CASE \E h \in Host : Expire(h)
  <2>1. PICK h \in Host : Expire(h)
    BY <1>3
  <2>2. \A q \in Op : ~Holds(q, h)
    BY <2>1 DEF Expire
  <2> QED
    BY <2>1, <2>2 DEF Expire
<1>4. CASE UNCHANGED vars
  BY <1>4 DEF vars
<1> QED
  BY <1>1, <1>2, <1>3, <1>4

LEMMA HeldNext == ASSUME QuietHosts, HolderInv, [Next]_vars PROVE HolderInv'
<1>1. TypeInv' /\ Held'
  BY TypeNext, HeldAcquire, HeldHeld, HeldRelease, HeldOthers
     DEF HolderInv, Held, Next, Step
<1> QED
  BY <1>1 DEF HolderInv, Held

\* The inductive invariant behind mutual exclusion: what an operation holds is its
\* own, not expired, kept alive by a heartbeat, and nobody takes it for stale.
THEOREM HolderInvariant == ASSUME QuietHosts PROVE Spec => []HolderInv
<1>1. Init => HolderInv
  BY InitTypes DEF Init, HolderInv, JudgeInv, LockedInv, BeatInv, RowsInv, Holds, Beating
<1> QED
  BY <1>1, HeldNext, PTL DEF Spec

\* Operations that share a host never hold the lock at the same time, for any
\* number of operations, hosts and acquisitions, killed owners, failed commands,
\* rollbacks and surplus releases, provided working owners answer, their hosts
\* answer their heartbeats, and no lock changes hands while it is judged.
THEOREM LockExcludes == ASSUME QuietHosts PROVE Spec => []MutualExclusion
<1>1. HolderInv => MutualExclusion
  BY DEF HolderInv, TypeInv, TypeOK, LockedInv, BeatInv, RowsInv, Holds, Beating, MutualExclusion
<1> QED
  BY <1>1, HolderInvariant, PTL

\* Under the same conditions table locks shows the holder of every locked host,
\* although release deletes rows when the next holder may have inserted its own.
THEOREM TableShowsHolder == ASSUME QuietHosts PROVE Spec => []LockTableAgrees
<1>1. HolderInv => LockTableAgrees
  <2> SUFFICES ASSUME HolderInv, NEW o \in Op, pc[o] = "held", NEW h \in hosts[o]
               PROVE  {x \in dbLock : x[2] = h} = {<<o, h>>}
    BY DEF LockTableAgrees
  <2>1. h \in Host /\ dbLock \subseteq Op \X Host
    BY DEF HolderInv, TypeInv, TypeOK
  <2>2. <<o, h>> \in dbLock /\ \A q \in Op \ {o} : <<q, h>> \notin dbLock
    BY <2>1 DEF HolderInv, RowsInv, Beating
  <2>3. \A x \in dbLock : x[2] = h => x = <<o, h>>
    BY <2>1, <2>2
  <2> QED
    BY <2>2, <2>3
<1> QED
  BY <1>1, HolderInvariant, PTL
=============================================================================
