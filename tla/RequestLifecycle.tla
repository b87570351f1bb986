--------------------------- MODULE RequestLifecycle ---------------------------
(***************************************************************************)
(* What the pool promises a client for every request uuid, without rows,   *)
(* locks or processes: a request is executed at most once and, unless the  *)
(* supervisor may abort requests (MayAbort), a request whose execution was *)
(* lost is reported as failed and a reported outcome is final.             *)
(***************************************************************************)
CONSTANTS Req, MayAbort

VARIABLES
    outcome,   \* what the client reads: "none", "pending", "reported", "failed"
    attempt    \* the one execution: "new", "running", "over"

Move(r, o, a) == /\ outcome' = [outcome EXCEPT ![r] = o]
                 /\ attempt' = [attempt EXCEPT ![r] = a]

Submit(r) == outcome[r] = "none" /\ Move(r, "pending", attempt[r])

\* A request that was aborted while it was on its way to a worker still starts.
Start(r)  == /\ attempt[r] = "new"
             /\ outcome[r] = "pending" \/ (MayAbort /\ outcome[r] = "failed")
             /\ Move(r, outcome[r], "running")

\* The worker reports what it executed, over an abort if there was one.
Finish(r) == attempt[r] = "running" /\ Move(r, "reported", "over")
Lose(r)   == attempt[r] = "running" /\ Move(r, outcome[r], "over")

Fail(r)   == /\ outcome[r] = "pending" /\ attempt[r] # "running"
             /\ Move(r, "failed", attempt[r])

\* The supervisor fails a request it took for an orphan, wherever it is by then.
Abort(r)  == /\ MayAbort /\ outcome[r] # "none"
             /\ Move(r, "failed", attempt[r])

Init == outcome = [r \in Req |-> "none"] /\ attempt = [r \in Req |-> "new"]
Next == \E r \in Req : \/ Submit(r) \/ Start(r) \/ Finish(r)
                       \/ Lose(r) \/ Fail(r) \/ Abort(r)

Spec == Init /\ [][Next]_<<outcome, attempt>>
=============================================================================
