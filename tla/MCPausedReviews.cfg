SPECIFICATION MCSpec
CONSTANTS
    w1 = w1
    Workers = {w1}
    FailingCalls = {"get", "query", "read", "set"}
    Backoff = 1
    Lifetime = 2
    MaxClock = 5
    Messages = {"m1", "m2"}
    PausedReviews <- MCPaused
    Failing = {"r2"}
    MaxAttempts = 2
    MaxTrouble = 2
INVARIANTS
    NoMessageLost
PROPERTIES
    ImplementsLifecycle
    BackoffRespected
    EveryMessageSettled
    SweepReachesAll
CHECK_DEADLOCK FALSE
