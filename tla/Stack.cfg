\* Three threads at a stack of the smallest size.
SPECIFICATION StackSpec
CONSTANTS
    t1 = t1
    t2 = t2
    t3 = t3
    Threads = {t1, t2, t3}
    S = 3
    MaxPush = 4
    MaxPop = 3
INVARIANT PopsWhatWasPushed
CHECK_DEADLOCK FALSE
