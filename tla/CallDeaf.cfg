SPECIFICATION MCSpec
CONSTANTS
    Scenarios <- SafeScenarios
    MaxLoops = 3
    HonorsCtx = TRUE
    call1 = call1
    call2 = call2
    ToolScenarios <- CutCall
    TurnScenarios <- OneTalk
    CallScenarios <- UpdatedCall
INVARIANT StillListening
CHECK_DEADLOCK FALSE
