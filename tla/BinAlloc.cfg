SPECIFICATION BinSpec
CONSTANTS
    Page = {p1, p2}
    MAXBINORDER = 1
    Units = 4
    Actor = {a1, a2}
SYMMETRY Interchangeable
INVARIANTS
    HeldDisjoint
    FreeSlotsFree
    NoSlotLost
CHECK_DEADLOCK FALSE
