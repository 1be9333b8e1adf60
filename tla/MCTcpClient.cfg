\* Up to four attempts; the delay reaches its maximum after two failures.
SPECIFICATION FairSpec
CONSTANTS
    MaxAttempts = 4
    InitDelay = 1
    MaxDelay = 3
INVARIANTS
    AttemptSocketsOwned
    ChannelOutlivesEvents
PROPERTIES
    StoppedStaysQuiet
    ConnectResolves
