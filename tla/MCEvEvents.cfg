SPECIFICATION LiveSpec
CONSTANTS
    w1 = w1
    w2 = w2
    w3 = w3
    Thread = {a, b}
    NSig = 2
    None = None
    NUMPRI = 2
    MaxDepth = 2
    File = {f1, f2}
    Missing = Missing
    StatOps = 4
    SignalOps = 4
    SignalfdOps = 5
    RunOps = 3
INVARIANTS
    TypeOK
    NothingForgotten
    NoneMissed
PROPERTIES
    RunsInOrder
    ToldInTheEnd
CHECK_DEADLOCK FALSE
