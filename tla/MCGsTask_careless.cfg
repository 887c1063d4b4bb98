SPECIFICATION Spec
CONSTANTS
    NTasks = 2
    Kinds = {"SEND"}
    MaxSends = 3
    MaxWrites = 1
    Careful = FALSE
INVARIANTS
    EndsAtMostTwice
    SocketOfRunningTasks
