\* Two threads post three comments into a ring of two; one refused statement,
\* one restart.
SPECIFICATION FairSpec
CONSTANTS
    Pushers = {w1, w2}
    Comments = {c1, c2, c3}
    MaxMem = 2
    MaxErases = 1
    MaxFailures = 1
    MaxStarts = 2
    None = None
INVARIANTS
    DiskCatchesUp
    ShutdownDrains
PROPERTIES
    WorkerIsWoken
    RowsAreFinal
    BatchIsAtomic
    ErasesWhatWasSeen
CHECK_DEADLOCK FALSE
