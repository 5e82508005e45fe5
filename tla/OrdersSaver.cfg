SPECIFICATION FairSpec
CONSTANTS
    Accounts = {a1}
    Chats = {g1, g2}
    TableName <- MCTableName
    Empty <- MCEmpty
    MaxEvents = 2
    MaxBatch = 2
    Movers = {g1}
    MaxMoves = 1
    MaxFaults = 1
INVARIANT TypeOK
INVARIANT NothingSkipped
INVARIANT RowsLostByFailuresOnly
INVARIANT CacheAgrees
PROPERTY ImplementsLog
PROPERTY WorkedOff
PROPERTY ComesBack
CHECK_DEADLOCK FALSE
