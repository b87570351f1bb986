SPECIFICATION Spec
CONSTANTS
    Req = {r1, r2}
    NoReq = NoReq
    NPort = 3
    MaxPid = 3
    IdleThreadPoolCount = 1
    IdleWC = 1
    DisableThreshold = FALSE
    AcceptOnBreach = FALSE
    SupervisorEnabled = FALSE
    CanCrash = {"worker"}
    MaxCrash = 1
    MaxCorrupt = 0
    MaxProbeFail = 0
    MaxStartFail = 0
    MaxIdleTimeout = 0
INVARIANTS TypeOK AtMostOneRow ExecutionIsCovered
PROPERTY ImplementsLifecycle
SYMMETRY Symmetry
