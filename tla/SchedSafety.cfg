SPECIFICATION Spec
CONSTANTS
    o1 = o1 r1 = r1 f1 = f1 n1 = n1 w1 = w1 x1 = x1
    t1 = t1 t2 = t2
    Job = {o1, x1}
    Timer = {o1, x1}
    FollowUp = {}
    Generic = {o1, x1}
    Registered = {x1}
    Once = {o1}
    RepeatCount <- Repeats
    Monitor <- Monitors
    Tid = {t1, t2}
    Sched = Sched NoJob = NoJob None = None
    MaxUpdates = 1
    MaxKill = 1
    MaxRuns = 3
INVARIANTS TypeOK RunsWhenDue RepeatBound HandlersExclusive
CHECK_DEADLOCK FALSE
