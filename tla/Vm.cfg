SPECIFICATION FairSpec
CONSTANTS
    PAGE = 3
    Top = 60
    Limit = 36
    Areas <- Program
    Hints = {0, 7, 16, 20, 34, 58}
    Lengths = {0, 1, 4, 10, 57}
    MaxMaps = 2
    MaxPages = 2
    TouchEnds = FALSE
INVARIANTS
    AreasDisjoint
    PagesMapped
PROPERTY
    MmapReturns
CHECK_DEADLOCK FALSE
