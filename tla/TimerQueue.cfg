\* One owner, who may start a stopped queue again, another client, two
\* timers, two ticks.
SPECIFICATION FairSpec
CONSTANTS
    c1 = c1
    c2 = c2
    Clients = {c1, c2}
    Owners = {c1}
    Periods = {1, 2}
    Offsets = {1}
    MaxTimers = 2
    MaxTime = 2
INVARIANTS
    
    OnSchedule
PROPERTIES
    ShutdownReturns
    DueIsRun
CHECK_DEADLOCK FALSE
