SPECIFICATION FairSpec
CONSTANTS
    Producers = {p1, p2}
    Consumers = {c1, c2}
    NoThread = NoThread
    MaxBatch = 2
    MaxItems = 3
INVARIANT TypeOK
INVARIANT NoLostWakeup
PROPERTY ImplementsChannel
PROPERTY EventuallyTaken
