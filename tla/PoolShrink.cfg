SPECIFICATION Spec
CONSTANTS
    Req = {r1, r2}
    NoReq = NoReq
    NPort = 2
    MaxPid = 2
    IdleThreadPoolCount = 1
    IdleWC = 0
    DisableThreshold = TRUE
    AcceptOnBreach = TRUE
    SupervisorEnabled = TRUE
    CanCrash = {}
    MaxCrash = 0
    MaxCorrupt = 1
    MaxProbeFail = 1
    MaxStartFail = 0
    MaxIdleTimeout = 1
INVARIANT PoolInv
INVARIANT StartedOnce
SYMMETRY Symmetry
