SPECIFICATION Spec
CONSTANTS
    Task = {t1, t2, t3}
    None = None
    Prompt = TRUE
    Waits = TRUE
INVARIANTS
    WatchedWhileRunning
    OutcomeReady
    EndsOnce
