\* Every synchronisation object in turn.
SPECIFICATION Spec
CONSTANTS
    None = None
    \* Four threads, every call, a count that shrinks and grows.
    Threads = {t1, t2, t3, t4}
    Timed = {t1, t2}
    Drainers = {t4}
    Initial = 0
    HardwareConcurrency = 2
    Sizes = {0, 1, 3, 99}
    Cancelled = 99
    \* Both kinds of event, four waiters, two of them timed.
    MaxNotifies = 4
    \* Three threads that meet three times; one may time out, one may open and reset.
    Few = {t1, t2, t3}
    BarTimed = {t2}
    Controllers = {t3}
    Limit = 3
    Limits = {0, 1, 2}
    MaxRounds = 3
    \* Three waiters, one timed, three handles, at most four units of work.
    Handles = {h1, h2, h3}
    GroupTimed = {t3}
    GroupInitial = 1
    MaxCount = 4
    \* Two readers, a writer, a guard, two protected objects.
    Readers = {h1, h2}
    Writers = {t1}
    Guards = {h3}
    Objects = {o1, o2}
    MaxRaw = 1
    \* Three handles to two permits, in the hands of three threads.
    Max = 2
INVARIANTS
    SemaphoreInv
    BarrierInv
    EventInv
    GroupInv
    HandlesInv
PROPERTIES
    SemaphoreServes
    EveryoneLeaves
    SignalConsumed
    GroupServes
CHECK_DEADLOCK FALSE
