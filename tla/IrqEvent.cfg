SPECIFICATION FairSpec
CONSTANTS
    Tid = {1, 2}
    MaxRaises = 4
    KillInKernel = FALSE
INVARIANTS
    QueueOrdered
    StrictlyNested
    NothingStranded
    LockExcludes
PROPERTY
    HandlersReturn
CHECK_DEADLOCK FALSE
