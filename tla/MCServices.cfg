SPECIFICATION MCSpec
CONSTANTS
    RPM = 2
    TPM = 4
    Window = 2
    DedupTicks = 1
    Estimates = {1, 3, 5}
    Actuals = {1, 3}
    MaxWaits = {1, 99}
    NoLimit = 99
    MaxRequests = 4
    MaxNow = 3
    c1 = c1
    c2 = c2
    Callers = {c1, c2}
    FailureThreshold = 3
    RecoveryTimeout = 2
    WindowSeconds = 2
    Retries = 2
    MaxFailures = 5
    MaxTime = 4
    p1 = p1
    p2 = p2
    Procs = {p1, p2}
    EnvTier <- MCEnvTier
    Errors <- MCErrors
    MetaTiers = {"unset", "free"}
    CacheTicks = 1
    Debounce = 1
    DefaultCooldown = 2
    DayCooldown = 2
    MinuteCooldown = 1
    BusyCooldown = 1
    LastTick = 4
    MaxMarks = 2
    w1 = w1
    Workers = {w1}
    Heads = {1, 2}
    LeaseTicks = 1
    DurableEnabled = TRUE
    MaxClock = 1
    MaxClaims = 3
    MaxSessions = 3
    InlineComments = {TRUE}
    NativeDismissal = FALSE
    AllowedFaults = {"split", "late", "erased", "markRaised", "releaseRaised", "enforceRaised", "dismissFailed", "crash"}
INVARIANTS
    RequestsWithinQuota
    BookedOnItsOwnCall
    ClosedBelowThreshold
    OneAttemptPastOpening
    NoPhantomDepletion
    DailyExhaustionLasts
    SingleWorkerNoDuplicate
    OldObjectionsCleared
CHECK_DEADLOCK FALSE
