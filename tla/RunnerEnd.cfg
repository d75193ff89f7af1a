SPECIFICATION MCSpec
CONSTANTS
    j1 = j1  j2 = j2  j3 = j3
    w1 = w1  w2 = w2  w3 = w3
    NoJob = NoJob  Req = Req  Nobody = Nobody
    Jobs = {j1, j2, j3}
    Workers = {w1, w2, w3}
    NoParent = Nobody  NoWorker = Nobody  MaxHandoffs = 3
    Scenarios <- JobScenarios
    Plans <- RunnerPlans
INVARIANT EndIsGraceful
CHECK_DEADLOCK FALSE
