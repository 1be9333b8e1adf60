\* Three sub loops, as in main.cpp, and more connections than sub loops.
SPECIFICATION FairSpec
CONSTANTS
    N = 3
    MaxConns = 4
INVARIANTS
    DataOutlivesUse
    LoopsInPlace
PROPERTIES
    SignalEndsProgram
CHECK_DEADLOCK FALSE
