\* Two owners, a closure that shuts down the queue that runs it, a restart: the
\* second startup() may find thread_ joinable and end the process.
SPECIFICATION FairSpec
CONSTANTS
    c1 = c1
    c2 = c2
    t1 = t1
    t2 = t2
    Clients = {c1, c2}
    Owners = {c1, c2}
    Tasks = {t1, t2}
    StopTasks = {t1}
    Limits = {0, 1}
    MaxStarts = 2
    MaxConfigs = 1
CHECK_DEADLOCK FALSE
INVARIANTS
    QueueInv
    AtMostOnce
    DispatchOrder
    AbortNeedsOverlap
PROPERTIES
    ImplementsService
    ShutdownReturns
    QueuedIsRun
