SPECIFICATION Spec
CONSTANTS
    Req = {r1, r2}
    Key = {k1}
    Overlap <- SameKey
    Cmd = {"plain"}
    Tags <- MCTags
    Overlapping = TRUE
    MaxCrash = 0
    MaxCleanup = 0
    MaxBlock = 0
INVARIANT Exclusive
CHECK_DEADLOCK FALSE
