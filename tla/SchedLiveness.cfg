SPECIFICATION FairSpec
CONSTANTS
    o1 = o1 r1 = r1 f1 = f1 n1 = n1 w1 = w1 x1 = x1
    t1 = t1 t2 = t2
    Job = {r1, f1, n1}
    Timer = {r1}
    FollowUp = {f1}
    Generic = {r1}
    Registered = {}
    Once = {}
    RepeatCount <- RepeatsForever
    Monitor <- Monitors
    Tid = {t1, t2}
    Sched = Sched NoJob = NoJob None = None
    MaxUpdates = 0
    MaxKill = 1
    MaxRuns = 1
PROPERTIES DueJobsRun JobsEnd
