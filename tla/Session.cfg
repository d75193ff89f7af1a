SPECIFICATION MCSpec
CONSTANTS
    Scenarios <- SafeScenarios
    MaxLoops = 3
    HonorsCtx = TRUE
    call1 = call1
    call2 = call2
    ToolScenarios <- MixedCalls
    TurnScenarios <- Talks
    CallScenarios <- HeldCalls
INVARIANT InOrder
INVARIANT InterruptionFlushes
INVARIANT NothingVanishes
INVARIANT CallsSettled
INVARIANT ModelHears
INVARIANT WordsKept
INVARIANT OneMessage
INVARIANT TimersRight
INVARIANT ListensOn
INVARIANT HearsAll
INVARIANT SessionsTended
CHECK_DEADLOCK FALSE
