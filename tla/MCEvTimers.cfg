SPECIFICATION Spec
CONSTANTS
    NElement = 10
    Timer = {t1, t2}
    Times = {1, 2, 3}
    Repeats = {0, 1, 3}
    MIN_TIMEJUMP = 2
    MAX_BLOCKTIME = 2
    MAX_BLOCKTIME2 = 4
    EV_TSTAMP_HUGE = 100
    backend_mintime = 2
    MaxTime = 5
    MaxOps = 3
    HeapOps = 7
    FilledOps = 2
INVARIANTS
    TypeOK
    HeapsInOrder
    SleepsNotPast
    NotFar
PROPERTIES
    NoneLeftExpired
CHECK_DEADLOCK FALSE
