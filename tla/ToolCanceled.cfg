SPECIFICATION MCSpec
CONSTANTS
    Scenarios <- SafeScenarios
    MaxLoops = 3
    HonorsCtx = TRUE
    call1 = call1
    call2 = call2
    ToolScenarios <- CutCall
    TurnScenarios <- OneTalk
    CallScenarios <- OneCall
INVARIANT CancelSettles
CHECK_DEADLOCK FALSE
