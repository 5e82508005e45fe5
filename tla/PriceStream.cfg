SPECIFICATION FairSpec
CONSTANTS
    Instruments = {BTCUSDT}
    MaxMessages = 3
    MaxBatch = 2
    MaxSetupFaults = 1
    MaxDrops = 2
INVARIANT TypeOK
INVARIANT ChainOwnsItsObjects
INVARIANT AllOrNothing
PROPERTY PricesMoveForward
PROPERTY AlwaysBack
PROPERTY EventuallyPriced
CHECK_DEADLOCK FALSE
