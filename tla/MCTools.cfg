\* Every data structure, reader and crypto class in turn.
SPECIFICATION Spec
CONSTANTS
    \* Three threads at one word of two bits, which wraps within the bound.
    Threads = {t1, t2, t3}
    Width = 2
    MaxOps = 5
    \* A stack of the smallest size, filled and emptied beyond its ends.
    S = 3
    MaxPush = 4
    MaxPop = 3
    \* A producer and a consumer at a buffer of the smallest size.
    BufferS = 3
    BufferMaxPush = 5
    MaxPull = 4
    \* Two threads, two keys that hash to the same bucket, one of them what a move
    \* of the other leaves.
    Mappers = {t1, t2}
    MapKeys = {k1, k2}
    EmptiesOnMove = TRUE
    EmptyKey = k1
    MaxNodes = 3
    MaxMapOps = 3
    \* Two pagers; a request may fit where the page ends, or just not.
    Pagers = {t1, t2}
    PageSize = 10
    PtrSize = 2
    HeaderSize = 4
    Requests = {1, 3, 6, 8}
    MaxPages = 3
    MaxBlocks = 3
    \* Two pools and their moves, arrays of two slots.
    Pools = {t1, t2}
    Size = 2
    MaxArrays = 2
    MaxObjects = 3
    \* Three handles, in threads of their own, to at most two shared blocks.
    Sharers = {t1, t2, t3}
    Sizes = {0, 1, 2}
    MaxShared = 2
    \* A flag, a counter and an option with a value.
    Options = {1, 2, 3}
    Id <- OptionIds
    Code <- OptionCodes
    Counter = {2}
    Usage = {3}
    Arguments <- Tokens
    MaxArgs = 3
    MaxSets = 1
    \* Three nodes of two virtual nodes on six points.
    RingNodes = {"a", "b", "c"}
    Vnodes = 2
    RingPoints = {1, 2, 3, 4, 5, 6}
    RingHashes <- Places
    MaxRingCalls = 4
    ULong = 8
    \* Two numbers and their copies, small enough to divide by each other.
    Numbers = {"a", "b"}
    NumberValues <- SmallIntegers
    NumberWords = {0, 1, 2}
    \* Two objects of every class that shares a key; at most three at a time.
    Certs = {"x1", "x2"}
    Pubs = {"p1", "p2"}
    Ecs = {"e1", "e2"}
    Signers = {"s1", "s2"}
    Verifiers = {"v1", "v2"}
    EvpKeys = {1, 2, 3}
    X509s = {1, 2}
    MaxUp = 3
    MaxLeaks = 2
    \* Two digests of up to two pieces.
    Digests = {"a", "b"}
    Pieces = {"x", "y"}
    MaxPieces = 2
    \* Two phrases for either of two algorithms, two ciphers at a time.
    Phrases = {"k", "l"}
    Decrypts = {"d1", "d2"}
    Encrypts = {"e1", "e2"}
    Algos = {"gcm", "des"}
    KeyLength <- KeyLengths
    Tag <- Tags
    Salts = {0, 2}
    SaltSize = 2
    MaxLive = 2
    \* The users and keys.
    t1 = t1
    t2 = t2
    t3 = t3
    k1 = k1
    k2 = k2
INVARIANTS
    WordKept
    ClaimsBalance
    DictionaryKept
    MemoryKept
    EachArgumentOnce
    TextRead
    CryptoHeld
PROPERTIES
    RingKept
CHECK_DEADLOCK FALSE
