SPECIFICATION FairSpec
CONSTANTS
    MaxSetupFaults = 1
    MaxRenewFaults = 1
    MaxDrops = 1
    MayStop = FALSE
PROPERTY NeverGivesUp
CHECK_DEADLOCK FALSE
