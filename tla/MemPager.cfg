\* One request that fits a page but not beside its header.
SPECIFICATION PagerSpec
CONSTANTS
    p1 = p1
    p2 = p2
    Pagers = {p1, p2}
    PageSize = 10
    PtrSize = 2
    HeaderSize = 4
    Requests = {1, 3, 6, 8}
    MaxPages = 3
    MaxBlocks = 3
INVARIANT BlocksInPage
CHECK_DEADLOCK FALSE
