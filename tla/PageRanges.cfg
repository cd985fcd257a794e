SPECIFICATION Spec
CONSTANTS
    MAXORDER = 2
    MaxBlocks <- OneBlock
    BootMem = {0}
    Regions <- NoRegions
    Requests = {1, 2}
INVARIANT HeldRangesDisjoint
CHECK_DEADLOCK FALSE
