SPECIFICATION FairSpec
CONSTANTS
    Op = {o1, o2}
    NHost = 2
    Races = TRUE
    MaxRound = 1
    MaxCrash = 1
    MaxIoError = 1
    MaxSuspect = 1
    MaxBeatStop = 1
    MaxExtra = 0
    MaxFaults = 2
PROPERTIES AcquisitionEnds NoHeartbeatLeft
CHECK_DEADLOCK FALSE
