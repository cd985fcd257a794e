SPECIFICATION FairSpec
CONSTANTS
    SIG_MAX = 2
    MaxSends = 2
    MaxLeft = 1
INVARIANTS
    HandledOnce
    NoNestedHandler
    SigretResumesLoop
PROPERTY
    SignalsHandled
CHECK_DEADLOCK FALSE
