SPECIFICATION FairSpec
CONSTANTS
    MAXORDER = 2
    MaxBlocks <- TwoBlocks
    BootMem = {0}
    Regions <- LowRegions
    Requests = {1, 2, 3, 5}
INVARIANTS
    FreeListsSound
    UsedMeansHeld
    BlocksPartition
    StaleOrders
    HeldFits
PROPERTIES
    PoolKept
    CallsReturn
CHECK_DEADLOCK FALSE
