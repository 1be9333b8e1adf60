\* Two clients, two descriptors (one may be used twice), two sub loops.
SPECIFICATION FairSpec
CONSTANTS
    l1 = l1
    l2 = l2
    Conns = {c1, c2}
    Fds = {fd1, fd2}
    Loops = {l1, l2}
    FirstLoop = l1
    NextLoop <- RoundRobin
    MaxSends = 1
    None = None
INVARIANTS
    NoDanglingChannel
    DescriptorsOwned
    CallbacksPaired
PROPERTIES
    GonePeerReleased
    BacklogServed
CHECK_DEADLOCK FALSE
