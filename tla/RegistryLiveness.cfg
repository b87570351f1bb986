SPECIFICATION FairSpec
CONSTANTS
    Req = {r1, r2}
    Key = {k1}
    Overlap <- AllKeys
    Cmd = {"plain", "ping", "load", "one", "two"}
    Tags <- MCTags
    Overlapping = TRUE
    MaxCrash = 1
    MaxCleanup = 1
    MaxBlock = 1
PROPERTIES DeadRowsStopBlocking ReceivedEnds
CHECK_DEADLOCK FALSE
