SPECIFICATION LiveSpec
CONSTANTS
    NFd = 3
    Watcher = {w1, w2, w3}
    File = {f1}
    Closed = Closed
    Masks = {{"READ"}}
    Readiness = {{"READ"}}
    Restart = FALSE
    MaxOps = 3
    Backends = {"EPOLL", "POLL", "SELECT", "IOURING"}
    Regular = {}
    MaxWatches = 2
    StartMax = 1
    DupBack = FALSE
    NFDBITS = 2
    Entries = 1
    KernelMax = 2
    NoDrop = FALSE
    CloseWhilePolling = FALSE
INVARIANTS
    TypeOK
    ChangesListed
PROPERTIES
    ErrorIsTold
    ReadyIsTold
