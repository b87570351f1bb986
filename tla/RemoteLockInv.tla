----------------------------- MODULE RemoteLockInv -----------------------------
(***************************************************************************)
(* The inductive invariants of the remote lock: OrderInv, behind the order *)
(* in which hosts are locked, and HolderInv, behind mutual exclusion.      *)
(***************************************************************************)
EXTENDS RemoteLock

\* No lock of an earlier acquisition is left when an operation acquires again.
NoLostLock == MaxIoError = 0 \/ MaxRound =< 1

\* Owners that are at work are found to be, and keep their locks alive.
QuietHosts == ~Races /\ MaxSuspect = 0 /\ MaxBeatStop = 0

\* What a round of acquire works on.
TodoInv ==
    \A o \in Op : /\ hosts[o] # {}
                  /\ pc[o] \in Acquiring => todo[o] # {}
                  /\ pc[o] \in Alive => round[o] > 0

TypeInv == TypeOK /\ TodoInv

-----------------------------------------------------------------------------

\* The hosts an acquisition is done with come before those it has still to lock.
DoneFirst ==
    \A o \in Op : pc[o] \in Acquiring =>
        \A h \in hosts[o] \ todo[o], g \in todo[o] : h < g

\* The script has locked the host the operation is at.
AtOwn == {"recheck", "reprobe", "reremove", "start"}

\* Which locks an operation can own, by where it is.
OwnInv ==
    \A o \in Op, h \in Host : lock[h] = o =>
        /\ h \in hosts[o]
        /\ pc[o] \in Acquiring \ AtOwn => h \notin todo[o]
        /\ pc[o] \in AtOwn => h \notin todo[o] \/ h = Lowest(todo[o])
        /\ pc[o] = "idle" => MaxIoError # 0 /\ round[o] > 0
        /\ MaxIoError = 0 /\ pc[o] \in {"release", "released"} => h \in todo[o]
        /\ MaxIoError = 0 /\ pc[o] = "released" => h # Lowest(todo[o])

\* Nothing fails where commands do not fail.
NoRollback == MaxIoError = 0 => \A o \in Op : pc[o] \notin {"rollback", "rolled"}

OrderInv == TypeInv /\ DoneFirst /\ OwnInv /\ NoRollback

-----------------------------------------------------------------------------

\* The hosts for which an operation has started the heartbeat, and those it
\* has locked.
Beating(o, h) == /\ h \in hosts[o]
                 /\ pc[o] = "held" \/ (pc[o] \in Acquiring /\ h \notin todo[o])
Holds(o, h) == \/ Beating(o, h)
               \/ pc[o] \in AtOwn /\ h = Lowest(todo[o])

\* What a waiting operation has read about the owner of a lock stays true until
\* it has acted on it, and it never takes itself for stale.
JudgeInv ==
    \A o \in Op :
        /\ pc[o] \in {"probe", "remove"} => lock[Lowest(todo[o])] \in {info[o], Free}
        /\ pc[o] = "remove" => Stale(info[o])
        /\ pc[o] = "reprobe" => info[o] = o
        /\ pc[o] # "reremove"

\* A lock that is held is on the host, and it is not expired.
LockedInv ==
    \A o \in Op, h \in Host : Holds(o, h) => lock[h] = o /\ h \notin expired

\* It is kept alive by a heartbeat that finds its script.
BeatInv ==
    /\ \A o \in Op, h \in Host :
          Beating(o, h) => <<o, h>> \in beats /\ <<o, h>> \in script
    /\ \A o \in Op : pc[o] \in Acquiring \ {"prepare"}
                     => <<o, Lowest(todo[o])>> \in script

\* It is the only one of its host in table locks.
RowsInv ==
    \A o \in Op, h \in Host :
        Beating(o, h) => /\ <<o, h>> \in dbLock
                         /\ \A q \in Op \ {o} : <<q, h>> \notin dbLock

HolderInv == TypeInv /\ JudgeInv /\ LockedInv /\ BeatInv /\ RowsInv
=============================================================================
