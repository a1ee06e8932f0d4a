\* A producer and a consumer at a buffer of the smallest size.
SPECIFICATION BufferSpec
CONSTANTS
    S = 3
    MaxPush = 5
    MaxPull = 4
INVARIANT Fifo
CHECK_DEADLOCK FALSE
