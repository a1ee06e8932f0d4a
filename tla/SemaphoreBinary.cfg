\* A binary semaphore shared by two threads.
SPECIFICATION FairSpec
CONSTANTS
    t1 = t1
    t2 = t2
    Threads = {t1, t2}
    Drainers = {}
    Timed = {}
    Initial = 1
    HardwareConcurrency = 2
    Sizes = {}
    Cancelled = 99
INVARIANT PermitNotWasted
CHECK_DEADLOCK FALSE
