SPECIFICATION Spec
CONSTANTS
    Req = {r1}
    NoReq = NoReq
    NPort = 2
    MaxPid = 2
    IdleThreadPoolCount = 1
    IdleWC = 0
    DisableThreshold = TRUE
    AcceptOnBreach = TRUE
    SupervisorEnabled = TRUE
    CanCrash = {"dispatcher", "workermanager"}
    MaxCrash = 1
    MaxCorrupt = 0
    MaxProbeFail = 1
    MaxStartFail = 1
    MaxIdleTimeout = 1
INVARIANT OneWorkerPerPort
