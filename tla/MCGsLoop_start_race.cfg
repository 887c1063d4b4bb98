SPECIFICATION Spec
CONSTANTS
    Clients = {c1}
    Main = c1
    Ios = {io1}
    Timers = {tm1}
    MaxStarts = 1
    CancelUnlocked = FALSE
INVARIANT
    StartedLoopRuns
