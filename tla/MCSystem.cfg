\* Every class that wraps a system facility in turn.
SPECIFICATION Spec
CONSTANTS
    \* Two objects of each class that owns descriptors, and a number of the program's own.
    Sockets = {s1, s2}
    Refs = {r1, r2}
    Files = {f1, f2}
    App = app
    MaxFd = 4
    MaxOpens = 3
    \* Two map_t and two names that either may create.
    Maps = {h1, h2}
    Paths = {"a", "b"}
    MaxMapped = 3
    MaxSegments = 3
    \* Two threads of a parent and three children.
    Threads = {h1, h2}
    Pids = {1, 2, 3}
    MaxFaults = 2
    \* One address; a path may be longer than sun_path, and its slash is not its first
    \* character.
    Ports = {1}
    MaxPath = 3
    FirstSlash = 2
    \* Two objects of each class that owns a list from the system.
    Services = {s1, s2}
    Ifaces = {r1, r2}
    MaxLists = 3
    MaxLength = 2
    \* Two keyfile objects that may share; a key that load() takes for a comment.
    Handles = {h1, h2}
    Sections = {"_", "s"}
    Keys = {"k", "#"}
    OddKeys = {"#"}
    MaxData = 2
    MaxCalls = 4
    \* Two handles to a file of up to three pages.
    MaxPage = 2
    PageValues = {1, 2}
    Torn = Torn
    MaxPagerCalls = 5
    \* Two handles to one terminal.
    MaxSerialCalls = 5
    \* Buffers of two bytes, and a descriptor number that is soon used again.
    BufSize = 2
    MaxBytes = 3
    MaxInput = 2
    Fds = {1}
INVARIANTS
    DescriptorsOwned
    MappingsHeld
    AnswersForItsChild
    AddressesKept
    
    SettingsKept
    DeliveredInOrder
CHECK_DEADLOCK FALSE
