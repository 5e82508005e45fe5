SPECIFICATION FairSpec
CONSTANTS
    Accounts = {a1, a2}
    Groups = {g1, g2}
    NoRow = NoRow
    Sessions = {}
    CleanStart = TRUE
    MaxEdits = 2
    MaxFaults = 1
    MaxRestarts = 1
INVARIANT TypeOK
INVARIANT OneStreamPerAccount
PROPERTY ImplementsMirror
PROPERTY EventuallyMirrored
