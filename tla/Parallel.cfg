SPECIFICATION LiveSpec
CONSTANTS
    N = 2
    Budgets <- EndAndCancel
    Raised = {"data", "own", "ownEnd"}
    MaxRaised = 1
    MaxIds = 4
INVARIANT EscapesOnce
INVARIANT LifecycleSynced
PROPERTY Drains
CHECK_DEADLOCK FALSE
