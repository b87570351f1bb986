--------------------------- MODULE RemoteLockProofs ---------------------------
(* Theorems about the remote lock for every value of the constants.         *)
EXTENDS RemoteLockInv, FiniteSetTheorems, WellFoundedInduction, TLAPS

USE DEF Waiting, Acquiring, Releasing, Alive, AtOwn

-----------------------------------------------------------------------------
(* The order of the hosts.                                                  *)

\* A set of hosts that is not empty has a lowest one, at which acquire begins.
LEMMA LowestHost ==
    ASSUME NEW S \in SUBSET Host, S # {}
    PROVE  Lowest(S) \in S /\ \A g \in S : Lowest(S) =< g
<1> DEFINE Down(x) == {y \in S : y =< x}
           T == {Down(x) : x \in S}
<1>1. S \subseteq Nat /\ IsFiniteSet(S)
  <2>1. 1 \in Int /\ NHost \in Int /\ S \subseteq Nat
    BY LockAssumption DEF LockAssumption, Host
  <2>2. IsFiniteSet(Host)
    BY <2>1, FS_Interval DEF Host
  <2> QED
    BY <2>1, <2>2, FS_Subset
<1>2. PICK D \in T : \A E \in T : ~(<<E, D>> \in StrictSubsetOrdering(S))
  <2>1. T \subseteq SUBSET S /\ T # {}
    OBVIOUS
  <2>2. IsWellFoundedOn(StrictSubsetOrdering(S), SUBSET S)
    BY <1>1, FS_StrictSubsetOrderingWellFounded, FS_FiniteSubsetsOfFinite, Zenon
  <2> DEFINE R == StrictSubsetOrdering(S)
  <2> HIDE DEF T, R
  <2>3. \E D \in T : \A E \in T : ~(<<E, D>> \in R)
    <3>1. IsWellFoundedOn(R, SUBSET S)
      BY <2>2 DEF R
    <3> QED
      BY <2>1, <3>1, WFMin, Zenon
  <2> QED
    BY <2>3, Zenon DEF R
<1>3. PICK m \in S : D = Down(m)
  BY <1>2
<1>4. \A g \in S : m =< g
  <2> SUFFICES ASSUME NEW g \in S, ~(m =< g)
               PROVE  FALSE
    OBVIOUS
  <2>1. Down(g) \in T
    OBVIOUS
  <2>2. m \in Nat /\ g \in Nat /\ g < m
    BY <1>1
  <2>3. Down(g) \subseteq Down(m) /\ m \in Down(m) /\ m \notin Down(g)
    <3>1. \A y \in S : y =< g => y =< m
      BY <1>1, <2>2
    <3>2. m =< m
      BY <2>2
    <3> QED
      BY <3>1, <3>2
  <2>4. <<Down(g), Down(m)>> \in StrictSubsetOrdering(S)
    BY <2>3 DEF StrictSubsetOrdering
  <2> QED
    BY <1>2, <1>3, <2>1, <2>4, Zenon
<1> QED
  BY <1>4 DEF Lowest
\* The host an acquiring operation is at is one of those it has still to lock.
LEMMA AtLowest ==
    ASSUME TypeInv, NEW o \in Op, pc[o] \in Acquiring
    PROVE  /\ Cur(o) = Lowest(todo[o])
           /\ Lowest(todo[o]) \in todo[o] /\ Lowest(todo[o]) \in Host
           /\ todo[o] \in SUBSET Host
           /\ \A g \in todo[o] : Lowest(todo[o]) =< g
<1>1. todo[o] \in SUBSET Host /\ todo[o] # {}
  BY DEF TypeInv, TypeOK, TodoInv
<1> QED
  BY <1>1, LowestHost DEF Cur

-----------------------------------------------------------------------------
(* Type correctness.                                                        *)

LEMMA FaultType ==
    ASSUME TypeOK, NEW f \in DOMAIN faults, NEW max, Fault(f, max)
    PROVE  /\ DOMAIN faults' = {"crash", "io", "suspect", "beat", "extra"}
           /\ \A g \in DOMAIN faults' : faults'[g] \in Nat
           /\ faults[f] < max /\ faults[f] \in Nat
BY DEF TypeOK, Fault

LEMMA TypeAcquire ==
    ASSUME TypeInv, NEW o \in Op,
           \/ acquire(o) \/ Unreachable(o) \/ Prepare(o) \/ Try(o) \/ TryFails(o)
           \/ GetInfo(o) \/ Probe(o) \/ remove_all_locks(o) \/ StartHeartbeat(o)
    PROVE  TypeInv'
<1> USE DEF TypeInv, TypeOK, TodoInv, Pcs, files, local, db, Goto
<1>1. CASE acquire(o)
  BY <1>1 DEF acquire, Targets
<1>2. CASE Unreachable(o)
  BY <1>2, FaultType DEF Unreachable
<1>3. CASE Prepare(o)
  BY <1>3, AtLowest DEF Prepare
<1>4. CASE Try(o)
  <2>1. Cur(o) \in Host /\ todo[o] # {}
    BY <1>4, AtLowest DEF Try
  <2>2. lock' \in [Host -> Op \cup {Free}] /\ expired' \subseteq Host
    BY <1>4, <2>1 DEF Try, SetLock
  <2> QED
    BY <1>4, <2>1, <2>2 DEF Try
<1>5. CASE TryFails(o)
  <2>1. /\ DOMAIN faults' = {"crash", "io", "suspect", "beat", "extra"}
        /\ \A f \in DOMAIN faults' : faults'[f] \in Nat
    BY <1>5, FaultType DEF TryFails
  <2> QED
    BY <1>5, <2>1 DEF TryFails, Targets
<1>6. CASE GetInfo(o)
  BY <1>6, AtLowest DEF GetInfo
<1>7. CASE Probe(o)
  BY <1>7, FaultType DEF Probe
<1>8. CASE remove_all_locks(o)
  BY <1>8, AtLowest DEF remove_all_locks, SetLock
<1>9. CASE StartHeartbeat(o)
  BY <1>9, AtLowest DEF StartHeartbeat
<1> QED
  BY <1>1, <1>2, <1>3, <1>4, <1>5, <1>6, <1>7, <1>8, <1>9

LEMMA TypeHeld ==
    ASSUME TypeInv, NEW o \in Op,
           Nest(o) \/ Unnest(o) \/ release(o) \/ ReleaseAborts(o) \/ clear(o)
    PROVE  TypeInv'
<1> USE DEF TypeInv, TypeOK, TodoInv, Pcs, files, local, db, Goto
<1>1. CASE Nest(o) \/ Unnest(o)
  BY <1>1 DEF Nest, Unnest
<1>2. CASE release(o) \/ clear(o)
  BY <1>2 DEF release, clear, Targets
<1>3. CASE ReleaseAborts(o)
  BY <1>3, FaultType DEF ReleaseAborts
<1> QED
  BY <1>1, <1>2, <1>3

\* On to the next host: what every release and rollback step ends with.
LEMMA TypeNextHost ==
    ASSUME TypeInv, NEW o \in Op, pc[o] \in Releasing,
           NEW b \in SUBSET (Op \X Host), NextHost(o, b)
    PROVE  /\ todo' \in [Op -> SUBSET Host] /\ known' \in [Op -> SUBSET Host]
           /\ counter' \in [Op -> Int] /\ pc' \in [Op -> Pcs]
           /\ beats' \subseteq Op \X Host
           /\ \A q \in Op : known'[q] \subseteq hosts[q] /\ todo'[q] \subseteq hosts[q]
           /\ \A q \in Op : q # o => pc'[q] = pc[q] /\ todo'[q] = todo[q]
           /\ pc'[o] \in {"failed", "idle", "rollback", "release"}
BY DEF NextHost, TypeInv, TypeOK, TodoInv, Pcs, Goto

LEMMA TypeRelease ==
    ASSUME TypeInv, NEW o \in Op,
           \/ _release_per_host(o) \/ StopHeartbeat(o) \/ ReleaseFails(o)
           \/ End(o) \/ NothingToRoll(o)
    PROVE  TypeInv'
<1> USE DEF files, local, db
<1>1. CASE _release_per_host(o) /\ NextHost(o, beats)
  <2>1. beats \in SUBSET (Op \X Host) /\ pc[o] \in Releasing
    BY <1>1 DEF TypeInv, TypeOK, _release_per_host
  <2>2. /\ script' \subseteq script /\ UNCHANGED <<lock, expired>>
        /\ UNCHANGED <<hosts, info, again, db, round, faults>>
    BY <1>1, <2>1 DEF _release_per_host, NextHost, Goto, TypeInv, TypeOK
  <2> QED
    BY <1>1, <2>1, <2>2, TypeNextHost DEF TypeInv, TypeOK, TodoInv
<1>2. CASE _release_per_host(o) /\ ~NextHost(o, beats)
  BY <1>2 DEF _release_per_host, TypeInv, TypeOK, TodoInv, Pcs, Goto, SetLock
<1>3. CASE StopHeartbeat(o)
  <2> DEFINE b == beats \ ({<<o, Cur(o)>>} \cap {<<o, g>> : g \in known[o]})
  <2>1. b \in SUBSET (Op \X Host) /\ pc[o] \in Releasing /\ NextHost(o, b)
    BY <1>3 DEF TypeInv, TypeOK, StopHeartbeat
  <2> HIDE DEF b
  <2> QED
    BY <1>3, <2>1, TypeNextHost DEF StopHeartbeat, mDeleteLock, TypeInv, TypeOK, TodoInv
<1>4. CASE ReleaseFails(o)
  <2>1. beats \in SUBSET (Op \X Host) /\ pc[o] \in Releasing /\ NextHost(o, beats)
    BY <1>4 DEF TypeInv, TypeOK, ReleaseFails
  <2> QED
    BY <1>4, <2>1, TypeNextHost, FaultType DEF ReleaseFails, TypeInv, TypeOK, TodoInv
<1>5. CASE End(o) \/ NothingToRoll(o)
  BY <1>5 DEF End, NothingToRoll, TypeInv, TypeOK, TodoInv, Pcs, Goto
<1> QED
  BY <1>1, <1>2, <1>3, <1>4, <1>5

LEMMA TypeOthers ==
    ASSUME TypeInv,
           \/ \E o \in Op : Crash(o) \/ OpCleanup(o)
           \/ \E o \in Op, h \in Host : BeatEnds(o, h) \/ BeatStops(o, h)
           \/ \E h \in Host : Expire(h)
           \/ UNCHANGED vars
    PROVE  TypeInv'
<1> USE DEF TypeInv, TypeOK, TodoInv, Pcs, files, local, db, Goto
<1>1. CASE \E o \in Op : Crash(o) \/ OpCleanup(o)
  <2>1. /\ DOMAIN faults' = {"crash", "io", "suspect", "beat", "extra"}
        /\ \A f \in DOMAIN faults' : faults'[f] \in Nat
    BY <1>1, FaultType DEF Crash, OpCleanup
  <2> QED
    BY <1>1, <2>1 DEF Crash, OpCleanup
<1>2. CASE \E o \in Op, h \in Host : BeatEnds(o, h) \/ BeatStops(o, h)
  BY <1>2, FaultType DEF BeatEnds, BeatStops
<1>3. CASE (\E h \in Host : Expire(h)) \/ UNCHANGED vars
  BY <1>3 DEF Expire, vars
<1> QED
  BY <1>1, <1>2, <1>3

LEMMA TypeNext == ASSUME TypeInv, [Next]_vars PROVE TypeInv'
BY TypeAcquire, TypeHeld, TypeRelease, TypeOthers DEF Next, Step

LEMMA InitTypes == Init => TypeInv
<1> SUFFICES ASSUME Init PROVE TypeInv
  OBVIOUS
<1>1. hosts \in [Op -> SUBSET Host] /\ \A o \in Op : hosts[o] # {}
  BY DEF Init
<1>2. /\ DOMAIN faults = {"crash", "io", "suspect", "beat", "extra"}
      /\ \A f \in DOMAIN faults : faults[f] \in Nat
  BY DEF Init
<1> QED
  BY <1>1, <1>2 DEF Init, TypeInv, TypeOK, TodoInv, Pcs

\* Lock files, heartbeats, rows and the local state of every operation keep
\* their types, and an acquisition always has a host it is at, also after
\* rollbacks and releases that failed on some hosts.
THEOREM LockTypes == Spec => []TypeOK
<1>1. Init => TypeInv
  BY InitTypes
<1>2. TypeInv => TypeOK
  BY DEF TypeInv
<1> QED
  BY <1>1, <1>2, TypeNext, PTL DEF Spec
-----------------------------------------------------------------------------
(* The order in which hosts are locked.                                     *)

Ordered == DoneFirst /\ OwnInv /\ NoRollback

LEMMA OrderAcquire ==
    ASSUME NoLostLock, TypeInv, Ordered, NEW o \in Op,
           \/ acquire(o) \/ Unreachable(o) \/ Prepare(o) \/ Try(o) \/ TryFails(o)
           \/ GetInfo(o) \/ Probe(o) \/ remove_all_locks(o) \/ StartHeartbeat(o)
    PROVE  Ordered'
<1> USE DEF Ordered, DoneFirst, OwnInv, NoRollback, TypeInv, TypeOK, TodoInv, files,
            local, db, Goto
<1>1. CASE acquire(o)
  <2>1. \A h \in Host : lock[h] # o
    BY <1>1, LockAssumption DEF acquire, NoLostLock, LockAssumption
  <2> QED
    BY <1>1, <2>1 DEF acquire, Targets
<1>2. CASE Unreachable(o)
  BY <1>2 DEF Unreachable
<1>3. CASE Prepare(o)
  BY <1>3 DEF Prepare
<1>4. CASE Try(o)
  BY <1>4, AtLowest, FreeAssumption DEF Try, SetLock
<1>5. CASE TryFails(o)
  BY <1>5, FaultType DEF TryFails
<1>6. CASE GetInfo(o)
  BY <1>6 DEF GetInfo
<1>7. CASE Probe(o)
  BY <1>7 DEF Probe
<1>8. CASE remove_all_locks(o)
  BY <1>8, AtLowest, FreeAssumption DEF remove_all_locks, SetLock
<1>9. CASE StartHeartbeat(o)
  <2>1. \A g \in todo[o] \ {Cur(o)} : Cur(o) < g
    <3>1. /\ todo[o] \subseteq Host /\ Cur(o) \in Host
          /\ \A g \in todo[o] : Cur(o) =< g
      BY <1>9, AtLowest DEF StartHeartbeat
    <3> QED
      BY <3>1 DEF Host
  <2> QED
    BY <1>9, <2>1, AtLowest DEF StartHeartbeat
<1> QED
  BY <1>1, <1>2, <1>3, <1>4, <1>5, <1>6, <1>7, <1>8, <1>9

LEMMA OrderHeld ==
    ASSUME TypeInv, Ordered, NEW o \in Op,
           Nest(o) \/ Unnest(o) \/ release(o) \/ ReleaseAborts(o) \/ clear(o)
    PROVE  Ordered'
<1> USE DEF Ordered, DoneFirst, OwnInv, NoRollback, TypeInv, TypeOK, TodoInv, files,
            local, db, Goto
<1>1. CASE Nest(o) \/ Unnest(o)
  BY <1>1 DEF Nest, Unnest
<1>2. CASE release(o) \/ clear(o)
  BY <1>2 DEF release, clear, Targets
<1>3. CASE ReleaseAborts(o)
  BY <1>3 DEF ReleaseAborts
<1> QED
  BY <1>1, <1>2, <1>3

\* What is left of the locks of an operation when it goes on to the next host.
LEMMA OrderNextHost ==
    ASSUME TypeInv, Ordered, NEW o \in Op, pc[o] \in Releasing,
           NEW b \in SUBSET (Op \X Host), NextHost(o, b),
           lock' = lock, hosts' = hosts, round' = round,
           MaxIoError = 0 => \A h \in Host : lock[h] = o => h # Lowest(todo[o])
    PROVE  Ordered'
<1>1. MaxIoError = 0 => /\ pc[o] \in {"release", "released"}
                        /\ \A h \in Host : lock[h] = o => h \in todo[o] \ {Cur(o)}
  BY DEF Ordered, OwnInv, NoRollback, Cur
<1>2. \A q \in Op : q # o => pc'[q] = pc[q] /\ todo'[q] = todo[q]
  BY TypeNextHost
<1>3. /\ pc'[o] \in {"failed", "idle", "rollback", "release"}
      /\ MaxIoError = 0 => pc'[o] \in {"idle", "release"}
      /\ pc'[o] = "idle" => todo[o] = {Cur(o)}
      /\ todo'[o] = todo[o] \ {Cur(o)}
  BY <1>1 DEF NextHost, Goto, TypeInv, TypeOK
<1>4. round[o] > 0
  BY DEF TypeInv, TodoInv
<1> QED
  BY <1>1, <1>2, <1>3, <1>4 DEF Ordered, DoneFirst, OwnInv, NoRollback, TypeInv, TypeOK

LEMMA OrderRelease ==
    ASSUME TypeInv, Ordered, NEW o \in Op,
           \/ _release_per_host(o) \/ StopHeartbeat(o) \/ ReleaseFails(o)
           \/ End(o) \/ NothingToRoll(o)
    PROVE  Ordered'
<1> USE DEF files, local, db
<1>1. CASE _release_per_host(o) /\ NextHost(o, beats) /\ lock[Cur(o)] \notin {Free, o}
  <2>1. beats \in SUBSET (Op \X Host) /\ pc[o] \in Releasing
    BY <1>1 DEF TypeInv, TypeOK, _release_per_host
  <2>2. UNCHANGED <<lock, hosts, round>>
    BY <1>1, <2>1 DEF _release_per_host, NextHost, Goto, TypeInv, TypeOK
  <2>3. MaxIoError = 0 => \A h \in Host : lock[h] = o => h # Lowest(todo[o])
    BY <1>1, <2>1 DEF Cur, Ordered, NoRollback
  <2> QED
    BY <2>1, <2>2, <2>3, <1>1, OrderNextHost
<1>2. CASE _release_per_host(o) /\ ~(NextHost(o, beats) /\ lock[Cur(o)] \notin {Free, o})
  <2>1. MaxIoError = 0 => pc[o] = "release" /\ Cur(o) = Lowest(todo[o])
    BY <1>2 DEF Ordered, NoRollback, _release_per_host, Cur
  <2>2. /\ pc' = [pc EXCEPT ![o] = IF pc[o] = "rollback" THEN "rolled" ELSE "released"]
        /\ UNCHANGED <<hosts, todo, round>>
        /\ lock' \in {lock, [lock EXCEPT ![Cur(o)] = Free]}
        /\ lock[Cur(o)] = o => lock' = [lock EXCEPT ![Cur(o)] = Free]
    BY <1>2 DEF _release_per_host, Goto, SetLock
  <2> QED
    BY <1>2, <2>1, <2>2, FreeAssumption
       DEF Ordered, DoneFirst, OwnInv, NoRollback, TypeInv, TypeOK, _release_per_host
<1>3. CASE StopHeartbeat(o)
  <2> DEFINE b == beats \ ({<<o, Cur(o)>>} \cap {<<o, g>> : g \in known[o]})
  <2>1. b \in SUBSET (Op \X Host) /\ pc[o] \in Releasing /\ NextHost(o, b)
    BY <1>3 DEF TypeInv, TypeOK, StopHeartbeat
  <2>2. MaxIoError = 0 => \A h \in Host : lock[h] = o => h # Lowest(todo[o])
    BY <1>3 DEF StopHeartbeat, Ordered, OwnInv, NoRollback
  <2>3. UNCHANGED <<lock, hosts, round>>
    BY <1>3 DEF StopHeartbeat
  <2> HIDE DEF b
  <2> QED
    BY <2>1, <2>2, <2>3, OrderNextHost
<1>4. CASE ReleaseFails(o)
  <2>1. beats \in SUBSET (Op \X Host) /\ pc[o] \in Releasing /\ NextHost(o, beats)
    BY <1>4 DEF TypeInv, TypeOK, ReleaseFails
  <2>2. MaxIoError # 0
    BY <1>4, FaultType DEF ReleaseFails, TypeInv, TypeOK
  <2>3. UNCHANGED <<lock, hosts, round>>
    BY <1>4 DEF ReleaseFails
  <2> QED
    BY <2>1, <2>2, <2>3, OrderNextHost
<1>5. CASE End(o) \/ NothingToRoll(o)
  BY <1>5 DEF End, NothingToRoll, Ordered, DoneFirst, OwnInv, NoRollback, TypeInv, TypeOK,
              Goto
<1> QED
  BY <1>1, <1>2, <1>3, <1>4, <1>5

LEMMA OrderOthers ==
    ASSUME TypeInv, Ordered,
           \/ \E o \in Op : Crash(o) \/ OpCleanup(o)
           \/ \E o \in Op, h \in Host : BeatEnds(o, h) \/ BeatStops(o, h)
           \/ \E h \in Host : Expire(h)
           \/ UNCHANGED vars
    PROVE  Ordered'
<1> USE DEF Ordered, DoneFirst, OwnInv, NoRollback, TypeInv, TypeOK, files, local, db, Goto
<1>1. CASE \E o \in Op : Crash(o) \/ OpCleanup(o)
  BY <1>1 DEF Crash, OpCleanup
<1>2. CASE \E o \in Op, h \in Host : BeatEnds(o, h) \/ BeatStops(o, h)
  BY <1>2 DEF BeatEnds, BeatStops
<1>3. CASE (\E h \in Host : Expire(h)) \/ UNCHANGED vars
  BY <1>3 DEF Expire, vars
<1> QED
  BY <1>1, <1>2, <1>3

LEMMA OrderNext == ASSUME NoLostLock, OrderInv, [Next]_vars PROVE OrderInv'
<1>1. TypeInv' /\ Ordered'
  BY TypeNext, OrderAcquire, OrderHeld, OrderRelease, OrderOthers
     DEF OrderInv, Ordered, Next, Step
<1> QED
  BY <1>1 DEF OrderInv, Ordered

\* The inductive invariant behind the order of the hosts: an operation owns locks
\* only of hosts its acquisition is done with, and of the one it is just locking.
THEOREM LockOrder == ASSUME NoLostLock PROVE Spec => []OrderInv
<1>1. Init => OrderInv
  <2>1. ASSUME Init PROVE \A o \in Op, h \in Host : lock[h] # o
    BY <2>1, FreeAssumption DEF Init
  <2> QED
    BY <2>1, InitTypes DEF Init, OrderInv, DoneFirst, OwnInv, NoRollback
<1> QED
  BY <1>1, OrderNext, PTL DEF Spec

\* Hosts are locked in ascending order, in every acquisition and with every
\* stale lock, rollback, kill and lost heartbeat: whoever waits for a host owns
\* only locks of earlier hosts, provided a lock that release could not remove
\* is not taken along into another acquisition.
THEOREM HostsInOrder == ASSUME NoLostLock PROVE Spec => []WaitsUpwards
<1>1. OrderInv => WaitsUpwards
  <2> SUFFICES ASSUME OrderInv, NEW o \in Op, NEW h \in Host,
                      pc[o] \in Waiting, lock[h] = o
               PROVE  h < Cur(o)
    BY DEF WaitsUpwards
  <2>1. h \in hosts[o] \ todo[o]
    BY DEF OrderInv, OwnInv
  <2>2. Cur(o) \in todo[o]
    BY AtLowest DEF OrderInv
  <2> QED
    BY <2>1, <2>2 DEF OrderInv, DoneFirst
<1> QED
  BY <1>1, LockOrder, PTL

\* Operations do not wait for each other in a circle: along a chain of
\* operations, each waiting for a lock the next one owns, the hosts ascend.
WaitsFor(o, q) == pc[o] \in Waiting /\ lock[Cur(o)] = q
NoCircle ==
    \A o, q \in Op : WaitsFor(o, q) /\ pc[q] \in Waiting => Cur(o) < Cur(q)

THEOREM ChainsAscend == ASSUME NoLostLock PROVE Spec => []NoCircle
<1>1. OrderInv /\ WaitsUpwards => NoCircle
  BY AtLowest DEF OrderInv, WaitsUpwards, NoCircle, WaitsFor
<1> QED
  BY <1>1, LockOrder, HostsInOrder, PTL
=============================================================================
