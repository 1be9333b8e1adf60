\* Two one-shot timers and a periodic one, clock 0..2, one cancel.
SPECIFICATION FairSpec
CONSTANTS
    TimerIds = {a, b, p}
    Periodic = {p}
    Period = 1
    Delays = {0, 1}
    MaxTime = 2
    MaxCancels = 1
    None = None
INVARIANTS
    TablesAgree
    ArmedForEarliest
    FinishedStaysOut
PROPERTIES
    DueTimersLeave
CHECK_DEADLOCK FALSE
