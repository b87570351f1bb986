------------------------------ MODULE ClusterLock ------------------------------
(***************************************************************************)
(* What the rows of table registry are for: a command that takes the lock  *)
(* of a cluster is executed only while no other such command on the same   *)
(* cluster is.                                                             *)
(***************************************************************************)
CONSTANT Req

VARIABLES cluster,   \* request -> the cluster it is for
          held       \* the requests whose command is being executed

Begin(r) == /\ r \notin held
            /\ \A q \in held : cluster[q] # cluster[r]
            /\ held' = held \cup {r}

End(r) == r \in held /\ held' = held \ {r}

Init == held = {}
Next == /\ \E r \in Req : Begin(r) \/ End(r)
        /\ UNCHANGED cluster

Spec == Init /\ [][Next]_<<cluster, held>>
=============================================================================
