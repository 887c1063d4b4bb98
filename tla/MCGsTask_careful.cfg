SPECIFICATION FairSpec
CONSTANTS
    NTasks = 2
    Kinds = {"SEND", "RECV"}
    MaxSends = 3
    MaxWrites = 1
    Careful = TRUE
INVARIANTS
    TypeOK
    WatchersOfRunningTasks
    RunningTasksWatched
    EndsOnce
    OutcomeTold
    CallbackOrder
    FreedUnknown
PROPERTIES
    LifeCycle
    TimedTaskEnds
