SPECIFICATION LiveSpec
CONSTANTS
    Processors = {}
    Policy = "continue"
    Queueable = {"data", "end", "stop", "endWorker"}
    Cancels = TRUE
    CtxEnds = FALSE
    Wedges = TRUE
    MaxQueued = 1
PROPERTY CancelEndsRun
CHECK_DEADLOCK FALSE
