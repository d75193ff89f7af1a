SPECIFICATION MCSpec
CONSTANTS
    N = 2
    User = user
    Nobody = nobody
    Errors = 2
    Switches = 1
    Recoveries = 1
INVARIANT ActiveUsable
INVARIANT Routed
INVARIANT Spoken
INVARIANT Played
INVARIANT FloorRight
PROPERTY FailsOver
PROPERTY SpeechEnds
PROPERTY SessionEnds
CHECK_DEADLOCK FALSE
