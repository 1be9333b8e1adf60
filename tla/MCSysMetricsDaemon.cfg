\* Idle, the last calm load and one just below the threshold of recovery, one
\* just above the trigger, the first hot load, and saturated; requests below,
\* between and above the thresholds.
SPECIFICATION DaemonSpec
CONSTANTS
    CpuSamples = {20, 796, 799, 951, 960, 1000}
    QpsSamples = {0, 1000, 8000, 12000}
    Settle = 4
INVARIANTS
    BreakerFollowsLoad
CHECK_DEADLOCK FALSE
