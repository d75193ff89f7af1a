SPECIFICATION MCSpec
CONSTANTS
    N = 2
    User = user
    Nobody = nobody
    Errors = 2
    Switches = 1
    Recoveries = 1
INVARIANT ProviderTold
CHECK_DEADLOCK FALSE
