SPECIFICATION MCSpec
CONSTANTS
    Processors = {p1}
    Policy = "end"
    Queueable <- Everything
    Cancels = TRUE
    CtxEnds = TRUE
    Wedges = TRUE
    MaxQueued = 3
INVARIANT FinishedOnce
INVARIANT EndFlushes
PROPERTY RunEnds
PROPERTY Drains
PROPERTY CleanupEnds
CHECK_DEADLOCK FALSE
