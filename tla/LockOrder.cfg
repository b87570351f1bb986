SPECIFICATION Spec
CONSTANTS
    Op = {o1, o2, o3}
    NHost = 2
    Races = FALSE
    MaxRound = 1
    MaxCrash = 1
    MaxIoError = 1
    MaxSuspect = 0
    MaxBeatStop = 0
    MaxExtra = 1
    MaxFaults = 1
SYMMETRY Symmetry
INVARIANTS TypeOK MutualExclusion WaitsUpwards LockTableAgrees
CHECK_DEADLOCK FALSE
