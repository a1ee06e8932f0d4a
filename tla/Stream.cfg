\* One connection whose number is soon used again, and a thread that stops it.
SPECIFICATION StreamSpec
CONSTANTS
    BufSize = 2
    MaxBytes = 3
    MaxInput = 1
    Fds = {1}
INVARIANT StopIsSafe
CHECK_DEADLOCK FALSE
