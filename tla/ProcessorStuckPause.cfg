SPECIFICATION LiveSpec
CONSTANTS
    Scenarios <- StuckScenario
    MaxLoops = 1
    HonorsCtx = TRUE
PROPERTY PauseEndsAtInterruption
CHECK_DEADLOCK FALSE
