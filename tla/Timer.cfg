SPECIFICATION FairSpec
CONSTANTS
    Alert = {a1, a2}
    Delay = {0, 1, 3}
    Period = 2
    First = 3
    Far = 5
    IrqInAdd = FALSE
INVARIANTS
    NeverEarly
    Armed
PROPERTY
    EveryTaskRuns
