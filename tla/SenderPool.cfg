SPECIFICATION FairSpec
CONSTANTS
    N = 4
    Limit = 2
    PruneAbove = 1
    MaxFaults = 2
INVARIANT TypeOK
INVARIANT OnceAndInOrder
PROPERTY ImplementsLines
PROPERTY DequesDrain
CHECK_DEADLOCK FALSE
