\* Two threads that start, resize and drain the same pool, a closure that throws
\* and one that drains the pool it runs on; pools of two (the hardware) or three workers.
SPECIFICATION FairSpec
CONSTANTS
    c1 = c1
    c2 = c2
    t1 = t1
    t2 = t2
    t3 = t3
    Clients = {c1, c2}
    Owners = {c1, c2}
    Tasks = {t1, t2, t3}
    ThrowTasks = {t1}
    DrainTasks = {t2}
    Counts = {0, 3}
    HardwareConcurrency = 2
    MaxWorkers = 3
    MaxStarts = 2
CHECK_DEADLOCK FALSE
INVARIANTS
    PoolInv
PROPERTIES
    OwnerServed
    ImplementsService
    DrainReturns
    DispatchedIsRun
