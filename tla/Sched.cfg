SPECIFICATION FairSpec
CONSTANTS
    PID_MAX = 2
    MaxNest = 3
    MaxTorn = 1
INVARIANTS
    RunQueueSound
    StacksResumable
PROPERTIES
    NeverResumesZombie
    EveryThreadRuns
    ZombiesReaped
CHECK_DEADLOCK FALSE
