SPECIFICATION Spec
CONSTANTS
    Accounts = {a1, a2}
    Groups = {g1, g2}
    NoRow = NoRow
    Sessions = {s1}
    CleanStart = TRUE
    MaxEdits = 1
    MaxFaults = 0
    MaxRestarts = 0
SYMMETRY Symmetry
INVARIANT OneStreamPerAccount
