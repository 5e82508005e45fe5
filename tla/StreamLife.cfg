SPECIFICATION FairSpec
CONSTANTS
    MaxSetupFaults = 1
    MaxRenewFaults = 1
    MaxDrops = 3
    MayStop = TRUE
INVARIANT TypeOK
INVARIANT ChainOwnsItsObjects
INVARIANT KeyRenewedInTime
PROPERTY AlwaysBack
PROPERTY StopSettles
CHECK_DEADLOCK FALSE
