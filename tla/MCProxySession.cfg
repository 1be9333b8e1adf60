\* Four chunks over both directions, a mark of two, room for one in the kernel.
SPECIFICATION FairSpec
CONSTANTS
    MaxSent = 4
    HighWater = 2
    Room = 1
INVARIANTS
    ResumeComing
    Backpressure
    InOrder
PROPERTIES
    Delivered
CHECK_DEADLOCK FALSE
