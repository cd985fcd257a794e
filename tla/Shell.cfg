SPECIFICATION ShellSpec
CONSTANTS
    Char = {" ", "e", "x"}
    Blank = {" "}
    NUL = "0"
    EXEC <- Exec
    CAT <- Cat
    CMD_MAX_LEN = 6
    MaxTyped = 6
INVARIANT StaysTerminated
PROPERTY EditsText
CHECK_DEADLOCK FALSE
