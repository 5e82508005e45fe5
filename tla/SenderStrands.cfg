SPECIFICATION FairSpec
CONSTANTS
    N = 2
    Limit = 2
    PruneAbove = 1
    MaxFaults = 0
PROPERTY EventuallyDelivered
CHECK_DEADLOCK FALSE
