SPECIFICATION PartsSpec
CONSTANTS
    NFd = 2
    Watcher = {w1}
    File = {f1, f2}
    Closed = Closed
    Masks = {{"READ"}, {"WRITE"}}
    Readiness = {{}, {"READ"}}
    Restart = TRUE
    MaxOps = 5
    Backends = {"EPOLL", "POLL", "SELECT", "IOURING"}
    Regular = {}
    Unpollable = {f2}
    MaxWatches = 4
    StartMax = 1
    DupBack = FALSE
    NFDBITS = 2
    Entries = 1
    KernelMax = 4
    NoDrop = FALSE
    CloseWhilePolling = FALSE
INVARIANTS
    InForce
PROPERTIES
    IoContract
