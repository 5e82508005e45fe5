SPECIFICATION FairSpec
CONSTANTS
    Accounts = {a1, a2}
    Groups = {g1}
    NoRow = NoRow
    Sessions = {s1}
    CleanStart = TRUE
    MaxEdits = 3
    MaxFaults = 1
    MaxRestarts = 1
INVARIANT RowsServed
INVARIANT ChangesFindStreams
PROPERTY EventuallyServed
