SPECIFICATION Spec
CONSTANTS
    a = a
    b = b
    c = c
    d = d
    nl = nl
    hole = hole
    Byte <- MCByte
    Hole = hole
    Chunks <- MCChunks
    Counts = {1, 3}
    Offsets <- MCOffsets
    Files <- MCFiles
    NewLine = nl
    Modes <- MCModes
    MaxFile = 6
    MaxCalls = 5
INVARIANT ReadFailureReturns
CHECK_DEADLOCK FALSE
