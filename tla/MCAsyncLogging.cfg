\* Five lines, one line to a buffer, so that every buffer is used again.
SPECIFICATION FairSpec
CONSTANTS
    Joined = {t1}
    Detached = {r}
    Lines = {x1, x2, x3, x4, x5}
    Capacity = 1
    Null = Null
INVARIANTS
    LinesInOrder
    NothingUndefined
    StopFlushes
PROPERTIES
    LinesReachFile
CHECK_DEADLOCK FALSE
