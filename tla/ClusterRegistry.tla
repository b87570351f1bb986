---------------------------- MODULE ClusterRegistry ----------------------------
(***************************************************************************)
(* The cluster lock: how mDispatchCluster decides, from rows of the table  *)
(* registry, whether the command of a request may run beside the commands  *)
(* other workers are running, and who takes those rows away.               *)
(*                                                                         *)
(* A row is (cluster key, uuid, worker port).  A request is executed by    *)
(* one worker and inserts at most one row, so the table is the set of the  *)
(* requests that have a row.  Every statement is committed on its own and  *)
(* is one action.                                                          *)
(***************************************************************************)
EXTENDS Naturals, FiniteSets

CONSTANTS Req,         \* request uuids
          Key,         \* cluster keys (mBuildClusterId)
          Overlap,     \* pairs of keys one of which contains the other (LOCATE)
          Cmd,         \* commands
          Tags,        \* Cmd -> options of the command and of its payload
          Overlapping, \* may two requests for a cluster start at the same time
          MaxCrash,    \* worker processes killed
          MaxCleanup,  \* op_cleanup requests
          MaxBlock     \* block_operations requests

ASSUME RegistryAssumption ==
    /\ Overlap \subseteq Key \X Key
    /\ \A k, l \in Key : <<k, k>> \in Overlap
                         /\ (<<k, l>> \in Overlap => <<l, k>> \in Overlap)
    /\ Overlapping \in BOOLEAN
    /\ MaxCrash \in Nat /\ MaxCleanup \in Nat /\ MaxBlock \in Nat

NoReq == "none"
ASSUME NoReqAssumption == NoReq \notin Req

VARIABLES cmd,       \* request -> its command
          key,       \* request -> key of the cluster it is for
          registry,  \* the requests that have a row in table registry
          status,    \* column status of table requests
          wrow,      \* the row of the request's worker in table workers
          pc,        \* where the worker of the request is
          seen,      \* the registry rows that worker has read
          clean,     \* a running op_cleanup: its step and the uuid to clean
          block,     \* value of the row exacloud_block_state
          blk,       \* step of mHandlerUpdateBlockState
          wiped,     \* requests running while a white_list command deleted keys
          faults     \* what the environment has used up

tables == <<registry, status, wrow, block>>
vars == <<cmd, key, registry, status, wrow, pc, seen, clean, block, blk, wiped,
          faults>>

-----------------------------------------------------------------------------
(* Commands and keys.                                                       *)

ebCluCmdCheckOptions(r, opt) == opt \in Tags[cmd[r]]

White(r) == ebCluCmdCheckOptions(r, "white_list")

\* Commands that take no row: white_list, or vm_cmd ping.
NoLock(r) == White(r) \/ ebCluCmdCheckOptions(r, "ping")

\* The cluster keys of two requests match, one containing the other.
Match(r, q) == <<key[r], key[q]>> \in Overlap

\* mCheckRegEntry(_key) finds a row.
mCheckRegEntry(r) == \E q \in registry : Match(r, q)

\* DELETE ... WHERE _key: every row with that very key, whoever inserted it.
mDelRegEntry(r) == registry' = {q \in registry : key[q] # key[r]}

mDelRegByUUID(r) == registry' = registry \ {r}

mCleanRegistryTableByWorker(r) == registry' = registry \ {r}

\* Steps of a worker between its look at the registry and its own row.
Starting == {"check", "entry", "worker", "stale", "list", "pass", "insert"}
\* The worker executes the command and has not yet removed its row.
InCommand == {"exec", "keys", "wipe", "unlock"}
Active == Starting \cup InCommand \cup {"block", "refuse", "report"}

Running(r) == pc[r] \in InCommand /\ ~NoLock(r)

Goto(r, l) == pc' = [pc EXCEPT ![r] = l]

-----------------------------------------------------------------------------
(* A worker and its request.                                                *)

Init ==
    /\ cmd \in [Req -> Cmd]
    /\ key \in [Req -> Key]
    /\ registry = {}
    /\ status = [r \in Req |-> "Pending"]
    /\ wrow = [r \in Req |-> "here"]
    /\ pc = [r \in Req |-> "idle"]
    /\ seen = [r \in Req |-> {}]
    /\ clean = [pc |-> "idle", uuid |-> NoReq]
    /\ block = "none"
    /\ blk = "idle"
    /\ wiped = {}
    /\ faults = [crash |-> 0, cleanup |-> 0, block |-> 0]

\* The dispatcher has stored the request in the worker's row.
Receive(r) ==
    /\ pc[r] = "idle" /\ status[r] = "Pending"
    /\ Goto(r, "block")
    /\ UNCHANGED <<cmd, key, tables, seen, clean, blk, wiped, faults>>

\* The test for exacloud_block_state: the row exists, whatever its value.
Blocked == block # "none"
CheckBlock(r) ==
    /\ pc[r] = "block"
    /\ \/ Blocked /\ Goto(r, "refuse")
       \/ /\ ~Blocked
          /\ Overlapping \/ \A q \in Req : pc[q] \in Starting => ~Match(r, q)
          /\ Goto(r, "check")
    /\ UNCHANGED <<cmd, key, tables, seen, clean, blk, wiped, faults>>

\* Where a command that may run goes: white_list commands take no row.
Admit(r) == Goto(r, IF NoLock(r) THEN "exec" ELSE "insert")

CheckRegistry(r) ==
    /\ pc[r] = "check"
    /\ IF \/ White(r) \/ ~mCheckRegEntry(r)
          \/ ebCluCmdCheckOptions(r, "ping")
          \/ ebCluCmdCheckOptions(r, "concurrent_operation")
       THEN Admit(r)
       ELSE Goto(r, "entry")
    /\ UNCHANGED <<cmd, key, tables, seen, clean, blk, wiped, faults>>

\* One of the matching rows, if one is still there.
mGetRegEntryByKey(r) ==
    /\ pc[r] = "entry"
    /\ \/ /\ mCheckRegEntry(r)
          /\ \E q \in registry : Match(r, q) /\ seen' = [seen EXCEPT ![r] = {q}]
          /\ Goto(r, "worker")
       \/ /\ ~mCheckRegEntry(r)
          /\ Goto(r, "list")
          /\ UNCHANGED seen
    /\ UNCHANGED <<cmd, key, tables, clean, blk, wiped, faults>>

\* The row is stale if its worker is not in table workers.
RegisteredPending(q) == wrow[q] \in {"here", "exited"} /\ status[q] = "Pending"
Registered(q) == wrow[q] \in {"here", "exited"}
mGetWorker(r) ==
    /\ pc[r] = "worker"
    /\ Goto(r, IF \E q \in seen[r] : Registered(q) THEN "list" ELSE "stale")
    /\ UNCHANGED <<cmd, key, tables, seen, clean, blk, wiped, faults>>

\* "Cleanup stale Reg Entry": deletes the rows with this request's key.
DelStale(r) ==
    /\ pc[r] = "stale"
    /\ mDelRegEntry(r)
    /\ Goto(r, "insert")
    /\ UNCHANGED <<cmd, key, status, wrow, block, seen, clean, blk, wiped, faults>>

\* mCommandPassThrough: the uuids of the rows with exactly this key ...
Concurrent(r) == \/ ebCluCmdCheckOptions(r, "concurrent_cmds_set1")
                 \/ ebCluCmdCheckOptions(r, "concurrent_cmds_set2")
mGetRegUuid(r) ==
    /\ pc[r] = "list"
    /\ IF Concurrent(r)
       THEN /\ Goto(r, "pass")
            /\ seen' = [seen EXCEPT ![r] = {q \in registry : key[q] = key[r]}]
       ELSE Goto(r, "refuse") /\ UNCHANGED seen
    /\ UNCHANGED <<cmd, key, tables, clean, blk, wiped, faults>>

\* ... must be Done or of a command of the other set.
Beside(r, q) ==
    IF ebCluCmdCheckOptions(r, "concurrent_cmds_set1")
    THEN ebCluCmdCheckOptions(q, "concurrent_cmds_set2_db")
    ELSE ebCluCmdCheckOptions(q, "concurrent_cmds_set1_db")
mCommandPassThrough(r) ==
    /\ pc[r] = "pass"
    /\ Goto(r, IF \A q \in seen[r] : status[q] = "Done" \/ Beside(r, q)
               THEN "insert" ELSE "refuse")
    /\ UNCHANGED <<cmd, key, tables, seen, clean, blk, wiped, faults>>

\* A command ebCluCmdCheckOptions does not know is not executed at all.
mSetRegEntry(r) ==
    /\ pc[r] = "insert"
    /\ registry' = registry \cup {r}
    /\ Goto(r, IF ebCluCmdCheckOptions(r, "unknown") THEN "unlock" ELSE "exec")
    /\ UNCHANGED <<cmd, key, status, wrow, block, seen, clean, blk, wiped, faults>>

\* The command ends, with or without an exception.
Execute(r) ==
    /\ pc[r] = "exec"
    /\ Goto(r, "keys")
    /\ UNCHANGED <<cmd, key, tables, seen, clean, blk, wiped, faults>>

\* finally: keys on disk are kept if the command has no row and finds one.
CheckKeys(r) ==
    /\ pc[r] = "keys"
    /\ Goto(r, IF \/ NoLock(r) /\ mCheckRegEntry(r)
                  \/ ebCluCmdCheckOptions(r, "keys_cmd")
               THEN "unlock" ELSE "wipe")
    /\ UNCHANGED <<cmd, key, tables, seen, clean, blk, wiped, faults>>

mHandlerDeleteOndiskKeys(r) ==
    /\ pc[r] = "wipe"
    /\ wiped' = IF NoLock(r)
                THEN wiped \cup {q \in Req \ {r} : Running(q) /\ Match(r, q)}
                ELSE wiped
    /\ Goto(r, "unlock")
    /\ UNCHANGED <<cmd, key, tables, seen, clean, blk, faults>>

\* "Remove lock on current cluster".
Unlock(r) ==
    /\ pc[r] = "unlock"
    /\ IF NoLock(r) THEN UNCHANGED registry ELSE mDelRegEntry(r)
    /\ Goto(r, "report")
    /\ UNCHANGED <<cmd, key, status, wrow, block, seen, clean, blk, wiped, faults>>

\* The worker stores the request with its outcome; ERROR_099 if it was refused.
Report(r) ==
    /\ pc[r] \in {"refuse", "report"}
    /\ status' = [status EXCEPT ![r] = "Done"]
    /\ Goto(r, IF pc[r] = "refuse" THEN "refused" ELSE "done")
    /\ UNCHANGED <<cmd, key, registry, wrow, block, seen, clean, blk, wiped, faults>>

Kill(r) == pc' = [pc EXCEPT ![r] = "dead"]

WrkCrash(r) ==
    /\ pc[r] \in Active /\ faults.crash < MaxCrash
    /\ Kill(r)
    /\ faults' = [faults EXCEPT !.crash = @ + 1]
    /\ UNCHANGED <<cmd, key, tables, seen, clean, blk, wiped>>

-----------------------------------------------------------------------------
(* The worker manager.                                                      *)

\* The worker of a row is dead: its request is failed, its locks go.
mDeregisterPending(r) ==
    /\ pc[r] = "dead" /\ wrow[r] = "here" /\ status[r] = "Pending"
    /\ wrow' = [wrow EXCEPT ![r] = "exited"]
    /\ status' = [status EXCEPT ![r] = "Done"]
    /\ mDelRegByUUID(r)
    /\ UNCHANGED <<cmd, key, block, pc, seen, clean, blk, wiped, faults>>
mDeregisterLocksOnly(r) ==
    /\ pc[r] = "dead" /\ wrow[r] = "here"
    /\ wrow' = [wrow EXCEPT ![r] = "exited"]
    /\ mDelRegByUUID(r)
    /\ UNCHANGED <<cmd, key, status, block, pc, seen, clean, blk, wiped, faults>>
mDeregister(r) ==
    /\ pc[r] = "dead" /\ wrow[r] = "here"
    /\ wrow' = [wrow EXCEPT ![r] = "exited"]
    /\ status' = [status EXCEPT ![r] = "Done"]
    /\ mDelRegByUUID(r)
    /\ UNCHANGED <<cmd, key, block, pc, seen, clean, blk, wiped, faults>>

\* mDelWorkerEntry: the row, then the registry rows of its port.
DelWorkerRow(r) ==
    /\ wrow[r] = "exited"
    /\ wrow' = [wrow EXCEPT ![r] = "deleted"]
    /\ UNCHANGED <<cmd, key, registry, status, block, pc, seen, clean, blk, wiped,
                   faults>>
DelWorkerLocks(r) ==
    /\ wrow[r] = "deleted"
    /\ wrow' = [wrow EXCEPT ![r] = "gone"]
    /\ mCleanRegistryTableByWorker(r)
    /\ UNCHANGED <<cmd, key, status, block, pc, seen, clean, blk, wiped, faults>>

-----------------------------------------------------------------------------
(* op_cleanup: mHandlerOperationCleanup, run by a worker of its own.        *)

CleanBegin(r) ==
    /\ clean.pc = "idle" /\ faults.cleanup < MaxCleanup
    /\ status' = [status EXCEPT ![r] = "Done"]
    /\ clean' = [pc |-> "kill", uuid |-> r]
    /\ faults' = [faults EXCEPT !.cleanup = @ + 1]
    /\ UNCHANGED <<cmd, key, registry, wrow, pc, seen, block, blk, wiped>>

\* SIGKILL for the worker whose row has the uuid; none if it is idle again.
CleanKillNobody ==
    /\ clean.pc = "kill"
    /\ clean' = [clean EXCEPT !.pc = "clear"]
    /\ UNCHANGED <<cmd, key, tables, pc, seen, blk, wiped, faults>>
CleanKill ==
    /\ clean.pc = "kill"
    /\ IF pc[clean.uuid] \in Active /\ Registered(clean.uuid)
       THEN Kill(clean.uuid) ELSE UNCHANGED pc
    /\ clean' = [clean EXCEPT !.pc = "clear"]
    /\ UNCHANGED <<cmd, key, tables, seen, blk, wiped, faults>>

mClearWorkers ==
    /\ clean.pc = "clear"
    /\ wrow' = IF Registered(clean.uuid) /\ pc[clean.uuid] \in Active \cup {"dead"}
               THEN [wrow EXCEPT ![clean.uuid] = "gone"] ELSE wrow
    /\ clean' = [clean EXCEPT !.pc = "unreg"]
    /\ UNCHANGED <<cmd, key, registry, status, pc, seen, block, blk, wiped, faults>>

CleanRegistry ==
    /\ clean.pc = "unreg"
    /\ mDelRegByUUID(clean.uuid)
    /\ clean' = [clean EXCEPT !.pc = "idle"]
    /\ UNCHANGED <<cmd, key, status, wrow, pc, seen, block, blk, wiped, faults>>

\* The worker that runs op_cleanup is killed.
CleanCrash ==
    /\ clean.pc # "idle" /\ faults.crash < MaxCrash
    /\ clean' = [clean EXCEPT !.pc = "idle"]
    /\ faults' = [faults EXCEPT !.crash = @ + 1]
    /\ UNCHANGED <<cmd, key, tables, pc, seen, blk, wiped>>

-----------------------------------------------------------------------------
(* block_operations: mHandlerUpdateBlockState.                              *)

BlockDelete(s) ==
    /\ blk = "idle" /\ faults.block < MaxBlock
    /\ block' = "none"
    /\ blk' = s
    /\ faults' = [faults EXCEPT !.block = @ + 1]
    /\ UNCHANGED <<cmd, key, registry, status, wrow, pc, seen, clean, wiped>>

BlockInsert ==
    /\ blk # "idle"
    /\ block' = blk
    /\ blk' = "idle"
    /\ UNCHANGED <<cmd, key, registry, status, wrow, pc, seen, clean, wiped, faults>>

-----------------------------------------------------------------------------

Worker(r) ==
    \/ CheckBlock(r) \/ CheckRegistry(r) \/ mGetRegEntryByKey(r) \/ mGetWorker(r)
    \/ DelStale(r) \/ mGetRegUuid(r) \/ mCommandPassThrough(r) \/ mSetRegEntry(r)
    \/ Execute(r) \/ CheckKeys(r) \/ mHandlerDeleteOndiskKeys(r) \/ Unlock(r)
    \/ Report(r)

Manager(r) == mDeregister(r) \/ DelWorkerRow(r) \/ DelWorkerLocks(r)

Cleaner == CleanKill \/ mClearWorkers \/ CleanRegistry

Next ==
    \/ \E r \in Req : \/ Receive(r) \/ Worker(r) \/ WrkCrash(r) \/ Manager(r)
                      \/ CleanBegin(r)
    \/ Cleaner \/ CleanCrash
    \/ (\E s \in {"True", "False"} : BlockDelete(s)) \/ BlockInsert

Spec == Init /\ [][Next]_vars
FairSpec == /\ Spec
            /\ \A r \in Req : WF_vars(Worker(r)) /\ WF_vars(Manager(r))
            /\ WF_vars(Cleaner)

-----------------------------------------------------------------------------
(* Properties.                                                              *)

TypeOK ==
    /\ cmd \in [Req -> Cmd] /\ key \in [Req -> Key]
    /\ registry \subseteq Req
    /\ status \in [Req -> {"Pending", "Done"}]
    /\ wrow \in [Req -> {"here", "exited", "deleted", "gone"}]
    /\ pc \in [Req -> Active \cup {"idle", "refused", "done", "dead"}]
    /\ seen \in [Req -> SUBSET Req]
    /\ clean \in [pc : {"idle", "kill", "clear", "unreg"}, uuid : Req \cup {NoReq}]
    /\ clean.pc # "idle" => clean.uuid \in Req
    /\ block \in {"none", "True", "False"}
    /\ blk \in {"idle", "True", "False"}
    /\ wiped \subseteq Req
    /\ faults \in [crash : Nat, cleanup : Nat, block : Nat]

\* The command of r must not run beside that of q: both take the cluster lock,
\* and neither is let through by its payload or by the sets of commands that
\* mCommandPassThrough allows beside each other.
Exclude(r, q) ==
    /\ r # q /\ Match(r, q)
    /\ \A x \in {r, q} : ~ebCluCmdCheckOptions(x, "concurrent_operation")
    /\ ~(Concurrent(r) /\ Beside(r, q)) /\ ~(Concurrent(q) /\ Beside(q, r))

\* Two commands on matching clusters that exclude each other are not executed
\* at the same time: ERROR_099 is what the second one gets.
Exclusive ==
    \A r, q \in Req : Running(r) /\ Running(q) => ~Exclude(r, q)

Lock == INSTANCE ClusterLock
            WITH cluster <- key, held <- {r \in Req : Running(r)}

\* The registry rows implement one lock per cluster, across stale rows, the
\* worker manager's deregistration and op_cleanup.
ImplementsClusterLock == Lock!Spec

\* The registry row of a worker that died does not block its cluster for ever:
\* the worker manager or op_cleanup deletes it, or, where op_cleanup itself was
\* killed half way, its worker is out of table workers and the row counts as
\* stale for the next command.
DeadRowsStopBlocking ==
    \A r \in Req : (pc[r] = "dead" /\ r \in registry)
                   ~> (r \notin registry \/ wrow[r] = "gone")

\* A request a worker received ends, executed, refused or failed, whichever
\* other requests, crashes and cleanups there are.
ReceivedEnds == \A r \in Req : pc[r] = "block" ~> status[r] = "Done"

\* While the last block_operations that ran said False, no request is refused.
UnblockedRuns == [][\A r \in Req : CheckBlock(r) /\ block = "False"
                                   => pc'[r] # "refuse"]_vars

\* A white_list command does not delete the keys on disk under a command that
\* is executed on the same cluster.
KeysKept == wiped = {}
=============================================================================
