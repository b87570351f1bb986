SPECIFICATION FairSpec
CONSTANTS
    Req = {r1}
    NoReq = NoReq
    NPort = 3
    MaxPid = 3
    IdleThreadPoolCount = 1
    IdleWC = 0
    DisableThreshold = TRUE
    AcceptOnBreach = TRUE
    SupervisorEnabled = FALSE
    CanCrash = {"worker", "dispatcher", "workermanager"}
    MaxCrash = 1
    MaxCorrupt = 0
    MaxProbeFail = 0
    MaxStartFail = 0
    MaxIdleTimeout = 1
PROPERTIES EveryRequestEnds 
