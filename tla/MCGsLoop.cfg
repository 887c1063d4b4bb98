SPECIFICATION FairSpec
CONSTANTS
    Clients = {c1, c2}
    Main = c1
    Ios = {io1}
    Timers = {tm1}
    MaxStarts = 3
    CancelUnlocked = FALSE
INVARIANTS
    TypeOK
    LibevExclusive
    NoLostWakeup
    PollOnlyWhenDrained
    CallbacksWhileParked
    AsyncNotForgotten
    SyncAliveWhileUsed
PROPERTIES
    StopReturns
    WorkDispatched
    WakeupConsumed
