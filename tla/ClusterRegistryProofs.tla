------------------------- MODULE ClusterRegistryProofs -------------------------
(* Theorems about the cluster lock for every value of the constants.        *)
EXTENDS ClusterRegistryInv, TLAPS

USE DEF Starting, InCommand, Active

-----------------------------------------------------------------------------
(* Type correctness.                                                        *)

LEMMA TypeWorker ==
    ASSUME TypeOK, NEW r \in Req, Receive(r) \/ Worker(r) \/ WrkCrash(r)
    PROVE  TypeOK'
<1> USE DEF TypeOK, Goto, tables
<1>1. CASE Receive(r)
  BY <1>1 DEF Receive
<1>2. CASE CheckBlock(r)
  BY <1>2 DEF CheckBlock
<1>3. CASE CheckRegistry(r)
  BY <1>3 DEF CheckRegistry, Admit
<1>4. CASE mGetRegEntryByKey(r)
  BY <1>4 DEF mGetRegEntryByKey
<1>5. CASE mGetWorker(r)
  BY <1>5 DEF mGetWorker
<1>6. CASE DelStale(r)
  BY <1>6 DEF DelStale, mDelRegEntry
<1>7. CASE mGetRegUuid(r)
  BY <1>7 DEF mGetRegUuid
<1>8. CASE mCommandPassThrough(r)
  BY <1>8 DEF mCommandPassThrough
<1>9. CASE mSetRegEntry(r)
  BY <1>9 DEF mSetRegEntry
<1>10. CASE Execute(r) \/ CheckKeys(r)
  BY <1>10 DEF Execute, CheckKeys
<1>11. CASE mHandlerDeleteOndiskKeys(r)
  BY <1>11 DEF mHandlerDeleteOndiskKeys
<1>12. CASE Unlock(r)
  BY <1>12 DEF Unlock, mDelRegEntry
<1>13. CASE Report(r)
  BY <1>13 DEF Report
<1>14. CASE WrkCrash(r)
  BY <1>14 DEF WrkCrash, Kill
<1> QED
  BY <1>1, <1>2, <1>3, <1>4, <1>5, <1>6, <1>7, <1>8, <1>9, <1>10, <1>11, <1>12,
     <1>13, <1>14 DEF Worker

LEMMA TypeRest ==
    ASSUME TypeOK,
           \/ \E r \in Req : Manager(r) \/ CleanBegin(r)
           \/ Cleaner \/ CleanCrash
           \/ (\E s \in {"True", "False"} : BlockDelete(s)) \/ BlockInsert
    PROVE  TypeOK'
<1> USE DEF TypeOK, tables
<1>1. CASE \E r \in Req : Manager(r)
  BY <1>1 DEF Manager, mDeregister, DelWorkerRow, DelWorkerLocks, mDelRegByUUID,
              mCleanRegistryTableByWorker
<1>2. CASE \E r \in Req : CleanBegin(r)
  BY <1>2 DEF CleanBegin
<1>3. CASE CleanKill
  BY <1>3 DEF CleanKill, Kill
<1>4. CASE mClearWorkers
  BY <1>4 DEF mClearWorkers
<1>5. CASE CleanRegistry \/ CleanCrash
  BY <1>5 DEF CleanRegistry, CleanCrash, mDelRegByUUID
<1>6. CASE (\E s \in {"True", "False"} : BlockDelete(s)) \/ BlockInsert
  BY <1>6 DEF BlockDelete, BlockInsert
<1> QED
  BY <1>1, <1>2, <1>3, <1>4, <1>5, <1>6 DEF Cleaner

LEMMA TypeNext == ASSUME TypeOK, [Next]_vars PROVE TypeOK'
<1>1. CASE UNCHANGED vars
  BY <1>1 DEF TypeOK, vars, tables
<1> QED
  BY <1>1, TypeWorker, TypeRest DEF Next

\* The tables and the local state of every worker, of op_cleanup and of
\* block_operations keep their types, whatever commands, kills and keys.
THEOREM RegistryTypes == Spec => []TypeOK
<1>1. Init => TypeOK
  BY DEF Init, TypeOK
<1> QED
  BY <1>1, TypeNext, PTL DEF Spec

-----------------------------------------------------------------------------
(* The rows are a lock when requests of a cluster start one by one.         *)

\* Under SerialStarts two requests match if they have the same key, and no
\* command has one of the options that let it through.
LEMMA Conditions ==
    ASSUME SerialStarts, TypeOK
    PROVE  /\ \A r, q \in Req : Match(r, q) <=> key[r] = key[q]
           /\ \A r \in Req : ~Concurrent(r)
           /\ \A r \in Req : ~ebCluCmdCheckOptions(r, "concurrent_operation")
<1> QED
  BY RegistryAssumption
     DEF SerialStarts, TypeOK, Match, Concurrent, ebCluCmdCheckOptions,
         RegistryAssumption

SerialInv == OneStarts /\ HolderInv /\ RowInv /\ WorkerInv /\ StartInv

LEMMA InitSerial == ASSUME Init PROVE SerialInv
<1> QED
  BY DEF Init, SerialInv, OneStarts, HolderInv, RowInv, WorkerInv, StartInv, Running

\* A worker's steps on the way to its row: one request per cluster takes them.
LEMMA SerialStart ==
    ASSUME SerialStarts, TypeOK, SerialInv, NEW r \in Req,
           \/ Receive(r) \/ CheckBlock(r) \/ CheckRegistry(r)
           \/ mGetRegEntryByKey(r) \/ mGetWorker(r)
    PROVE  SerialInv'
<1> USE DEF TypeOK, SerialInv, OneStarts, HolderInv, RowInv, WorkerInv, StartInv,
            Running, NoLock, White, ebCluCmdCheckOptions, Goto, tables
<1>1. CASE Receive(r)
  BY <1>1 DEF Receive
<1>2. CASE CheckBlock(r)
  BY <1>2, Conditions DEF CheckBlock, SerialStarts
<1>3. CASE CheckRegistry(r)
  BY <1>3, Conditions DEF CheckRegistry, Admit, mCheckRegEntry
<1>4. CASE mGetRegEntryByKey(r)
  BY <1>4, Conditions DEF mGetRegEntryByKey, mCheckRegEntry
<1>5. CASE mGetWorker(r)
  BY <1>5 DEF mGetWorker, Registered
<1> QED
  BY <1>1, <1>2, <1>3, <1>4, <1>5

LEMMA SerialRow ==
    ASSUME SerialStarts, TypeOK, SerialInv, NEW r \in Req,
           \/ DelStale(r) \/ mGetRegUuid(r) \/ mCommandPassThrough(r)
           \/ mSetRegEntry(r)
    PROVE  SerialInv'
<1> USE DEF TypeOK, SerialInv, OneStarts, HolderInv, RowInv, WorkerInv, StartInv,
            Running, NoLock, White, ebCluCmdCheckOptions, Goto, tables
<1>1. CASE DelStale(r)
  BY <1>1 DEF DelStale, mDelRegEntry
<1>2. CASE mGetRegUuid(r)
  BY <1>2, Conditions DEF mGetRegUuid
<1>3. CASE mCommandPassThrough(r)
  BY <1>3 DEF mCommandPassThrough
<1>4. CASE mSetRegEntry(r)
  BY <1>4 DEF mSetRegEntry
<1> QED
  BY <1>1, <1>2, <1>3, <1>4

LEMMA SerialCommand ==
    ASSUME TypeOK, SerialInv, NEW r \in Req,
           \/ Execute(r) \/ CheckKeys(r) \/ mHandlerDeleteOndiskKeys(r)
           \/ Unlock(r) \/ Report(r) \/ WrkCrash(r)
    PROVE  SerialInv'
<1> USE DEF TypeOK, SerialInv, OneStarts, HolderInv, RowInv, WorkerInv, StartInv,
            Running, NoLock, White, ebCluCmdCheckOptions, Goto, tables
<1>1. CASE Execute(r)
  BY <1>1 DEF Execute
<1>2. CASE CheckKeys(r)
  BY <1>2 DEF CheckKeys
<1>3. CASE mHandlerDeleteOndiskKeys(r)
  BY <1>3 DEF mHandlerDeleteOndiskKeys
<1>4. CASE Unlock(r)
  BY <1>4 DEF Unlock, mDelRegEntry
<1>5. CASE Report(r)
  BY <1>5 DEF Report
<1>6. CASE WrkCrash(r)
  BY <1>6 DEF WrkCrash, Kill
<1> QED
  BY <1>1, <1>2, <1>3, <1>4, <1>5, <1>6

\* The worker manager and op_cleanup touch the rows of dead workers only.
LEMMA SerialOthers ==
    ASSUME TypeOK, SerialInv,
           \/ \E r \in Req : Manager(r) \/ CleanBegin(r)
           \/ Cleaner \/ CleanCrash
           \/ (\E s \in {"True", "False"} : BlockDelete(s)) \/ BlockInsert
           \/ UNCHANGED vars
    PROVE  SerialInv'
<1> USE DEF TypeOK, SerialInv, OneStarts, HolderInv, RowInv, WorkerInv, StartInv,
            Running, NoLock, White, ebCluCmdCheckOptions, tables
<1>1. CASE \E r \in Req : mDeregister(r)
  BY <1>1 DEF mDeregister, mDelRegByUUID
<1>2. CASE \E r \in Req : DelWorkerRow(r) \/ DelWorkerLocks(r)
  BY <1>2 DEF DelWorkerRow, DelWorkerLocks, mCleanRegistryTableByWorker
<1>3. CASE \E r \in Req : CleanBegin(r)
  BY <1>3 DEF CleanBegin
<1>4. CASE CleanKill
  BY <1>4 DEF CleanKill, Kill, Registered
<1>5. CASE mClearWorkers
  BY <1>5 DEF mClearWorkers
<1>6. CASE CleanRegistry
  BY <1>6 DEF CleanRegistry, mDelRegByUUID
<1>7. CASE CleanCrash \/ BlockInsert \/ \E s \in {"True", "False"} : BlockDelete(s)
  BY <1>7 DEF CleanCrash, BlockInsert, BlockDelete
<1>8. CASE UNCHANGED vars
  BY <1>8 DEF vars
<1> QED
  BY <1>1, <1>2, <1>3, <1>4, <1>5, <1>6, <1>7, <1>8 DEF Manager, Cleaner

LEMMA SerialNext ==
    ASSUME SerialStarts, RegistryInv, [Next]_vars PROVE RegistryInv'
<1>1. TypeOK' 
  BY TypeNext DEF RegistryInv
<1>2. SerialInv'
  BY SerialStart, SerialRow, SerialCommand, SerialOthers
     DEF RegistryInv, SerialInv, Next, Worker
<1> QED
  BY <1>1, <1>2 DEF RegistryInv, SerialInv

\* The inductive invariant of the cluster lock, for any number of requests,
\* clusters, kills and op_cleanup requests.
THEOREM RegistryInvariant == ASSUME SerialStarts PROVE Spec => []RegistryInv
<1>1. Init => RegistryInv
  BY RegistryTypes, InitSerial DEF Init, RegistryInv, SerialInv, TypeOK
<1> QED
  BY <1>1, SerialNext, PTL DEF Spec

\* Commands that exclude each other are not executed on one cluster at a time,
\* whichever workers die and whatever the worker manager, op_cleanup and the
\* removal of stale rows delete, provided mDispatchCluster's check and insert
\* for one cluster do not overlap.
THEOREM CommandsAreExclusive == ASSUME SerialStarts PROVE Spec => []Exclusive
<1>1. RegistryInv => Exclusive
  BY Conditions
     DEF RegistryInv, Exclusive, Exclude, HolderInv, RowInv, Running
<1> QED
  BY <1>1, RegistryInvariant, PTL

-----------------------------------------------------------------------------
(* The refinement of ClusterLock.                                           *)

Held == {r \in Req : Running(r)}

\* A step either leaves the set of running commands alone, or begins or ends
\* exactly one of them.
LEMMA StepRefines ==
    ASSUME SerialStarts, RegistryInv, [Next]_vars
    PROVE  [Lock!Next]_<<key, Held>>
<1> USE DEF RegistryInv, TypeOK, Held, Running, NoLock, White, ebCluCmdCheckOptions,
            Goto, tables
<1>1. key' = key /\ cmd' = cmd
  BY DEF Next, vars, Worker, Manager, Cleaner, Receive, CheckBlock, CheckRegistry,
         mGetRegEntryByKey, mGetWorker, DelStale, mGetRegUuid, mCommandPassThrough,
         mSetRegEntry, Execute, CheckKeys, mHandlerDeleteOndiskKeys, Unlock, Report,
         WrkCrash, mDeregister, DelWorkerRow, DelWorkerLocks, CleanBegin, CleanKill,
         mClearWorkers, CleanRegistry, CleanCrash, BlockDelete, BlockInsert
<1>2. CASE \E r \in Req : mSetRegEntry(r)
  <2>1. PICK r \in Req : mSetRegEntry(r)
    BY <1>2
  <2>2. ~NoLock(r) /\ \A q \in Held : key[q] # key[r]
    BY <2>1 DEF mSetRegEntry, StartInv, HolderInv
  <2>3. r \notin Held /\ Held' = Held \cup {r}
    BY <1>1, <2>1, <2>2 DEF mSetRegEntry
  <2> QED
    BY <1>1, <2>2, <2>3 DEF Lock!Next, Lock!Begin
<1>3. CASE \E r \in Req : Unlock(r) \/ WrkCrash(r)
  <2>1. PICK r \in Req : Unlock(r) \/ WrkCrash(r)
    BY <1>3
  <2>2. Held' = Held \ {r}
    BY <1>1, <2>1 DEF Unlock, WrkCrash, Kill
  <2> QED
    BY <1>1, <2>2 DEF Lock!Next, Lock!End
<1>4. CASE CleanKill
  <2>1. Held' = Held \ {clean.uuid} \/ Held' = Held
    BY <1>1, <1>4 DEF CleanKill, Kill
  <2> QED
    BY <1>1, <2>1 DEF Lock!Next, Lock!End
<1>5. CASE \/ \E r \in Req : \/ Receive(r) \/ CheckBlock(r) \/ CheckRegistry(r)
                             \/ mGetRegEntryByKey(r) \/ mGetWorker(r) \/ DelStale(r)
                             \/ mGetRegUuid(r) \/ mCommandPassThrough(r)
                             \/ Execute(r) \/ CheckKeys(r)
                             \/ mHandlerDeleteOndiskKeys(r) \/ Report(r)
  <2>1. PICK r \in Req :
           \/ Receive(r) \/ CheckBlock(r) \/ CheckRegistry(r)
           \/ mGetRegEntryByKey(r) \/ mGetWorker(r) \/ DelStale(r)
           \/ mGetRegUuid(r) \/ mCommandPassThrough(r)
           \/ Execute(r) \/ CheckKeys(r)
           \/ mHandlerDeleteOndiskKeys(r) \/ Report(r)
    BY <1>5
  <2>2. /\ pc' = [pc EXCEPT ![r] = pc'[r]]
        /\ (pc[r] \in InCommand /\ ~NoLock(r)) <=> (pc'[r] \in InCommand /\ ~NoLock(r))
    BY <2>1, Conditions
       DEF Receive, CheckBlock, CheckRegistry, Admit, mGetRegEntryByKey, mGetWorker,
           DelStale, mGetRegUuid, mCommandPassThrough, Execute, CheckKeys,
           mHandlerDeleteOndiskKeys, Report
  <2>3. Held' = Held
    BY <1>1, <2>2
  <2> QED
    BY <1>1, <2>3
<1>6. CASE \/ \E r \in Req : Manager(r) \/ CleanBegin(r)
           \/ mClearWorkers \/ CleanRegistry \/ CleanCrash
           \/ (\E s \in {"True", "False"} : BlockDelete(s)) \/ BlockInsert
           \/ UNCHANGED vars
  <2>1. pc' = pc
    BY <1>6
       DEF vars, Manager, mDeregister, DelWorkerRow, DelWorkerLocks, CleanBegin,
           mClearWorkers, CleanRegistry, CleanCrash, BlockDelete, BlockInsert
  <2> QED
    BY <1>1, <2>1
<1> QED
  BY <1>2, <1>3, <1>4, <1>5, <1>6 DEF Next, Worker, Cleaner

\* The registry rows implement one lock per cluster: seen through the commands
\* that are executed, mDispatchCluster, the worker manager and op_cleanup do
\* nothing that a lock which is taken and released would not.
THEOREM ImplementsLock == ASSUME SerialStarts PROVE Spec => ImplementsClusterLock
<1>1. Init => Lock!Init
  BY DEF Init, Lock!Init, Running
<1>2. RegistryInv /\ [Next]_vars => [Lock!Next]_<<key, Held>>
  BY StepRefines
<1> QED
  BY <1>1, <1>2, RegistryInvariant, PTL
     DEF Spec, ImplementsClusterLock, Lock!Spec, Held
=============================================================================
