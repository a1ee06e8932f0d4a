\* Does refresh() keep the timer it says it has refreshed?
SPECIFICATION FairSpec
CONSTANTS
    c1 = c1
    Clients = {c1}
    Owners = {c1}
    Periods = {1}
    Offsets = {0}
    MaxTimers = 1
    MaxTime = 2
PROPERTY RefreshKeeps
CHECK_DEADLOCK FALSE
