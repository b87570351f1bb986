SPECIFICATION Spec
CONSTANTS
    Req = {r1, r2, r3}
    Key = {k1, k2}
    Overlap <- SameKey
    Cmd = {"plain", "white", "other"}
    Tags <- MCTags
    Overlapping = FALSE
    MaxCrash = 1
    MaxCleanup = 1
    MaxBlock = 0
SYMMETRY Symmetry
INVARIANTS RegistryInv Exclusive
PROPERTY ImplementsClusterLock
CHECK_DEADLOCK FALSE
