SPECIFICATION ProcSpec
CONSTANTS
    Pid = {1, 2}
    First = 1
    Maps = {"map"}
    MaxLeaks = 2
    KillInExec = FALSE
INVARIANTS NoBadFree OwnersDisjoint OnlyKnownLeaks
CHECK_DEADLOCK FALSE
