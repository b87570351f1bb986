SPECIFICATION FairSpec
CONSTANTS
    Master = {"dom0_1", "cell_2", "switch_2"}
    Cluster = {"c1", "c2", "c3"}
    TargetOf <- MCTargetOf
    ClusterOf <- MCClusterOf
    Parallel <- NoPairs
    Shared = FALSE
    Races = FALSE
    MaxEarly = 1
    MaxSend = 1
    MaxRaise = 1
    MaxKill = 1
    MaxKillMaster = 1
    MaxTimeout = 1
    MaxFaults = 1
INVARIANTS TypeOK SwitchAlone PatchedIsLocked CountAgrees
PROPERTIES FabricFreed MastersEnd
CHECK_DEADLOCK FALSE
