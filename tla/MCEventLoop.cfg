\* Two foreign threads, two functors, two socket channels; the event array
\* starts at one entry so that batches overflow it.
SPECIFICATION FairSpec
CONSTANTS
    Threads = {t1, t2}
    LoopThread = loop
    SignalHandler = sig
    Functors = {f1, f2}
    WakeupChannel = wakeup
    IoChannels = {io1, io2}
    InitEventListSize = 1
    MaxQuits = 1
INVARIANTS
    NoLostWakeup
    NoLostQuit
    QueuedInOrder
PROPERTIES
    ImplementsFunctorQueue
    QuitLeavesLoop
CHECK_DEADLOCK FALSE
