SPECIFICATION MCSpec
CONSTANTS
    Heads = {1, 2}
    BaseMerges = {}
    Signals = {"checks"}
    MaxAttempts = 2
    MaxMessages = 4
    MaxFaults = 1
    AllowedFaults = {"crash", "duplicate", "quota"}
    AuthorActions = {"rerun"}
    Items = {"x", "y"}
    Cutting = {"y"}
    Bodies <- MCBodies
    Callers = {"APPROVE", "COMMENT", "REQUEST_CHANGES"}
    Settings <- MCSettings
    Legacies <- MCLegacies
    MaxRounds = 2
    Diffs <- MCDiffs
    FindingLists <- MCFindings
    Begins <- MCBegins
    MaxBytes = 5
    LifetimeCap = 6
    GroupThreshold = 3
    Proximity = 2
    MaxDrift = 5
    MaxReviews = 3
INVARIANTS
    FailBlocks
    CriticalBlocks
    StandingCriticalBlocks
    UnprovenFixBlocks
    LifetimeCapHolds
    NotRaisedAgain
    CommentsFaithful
PROPERTIES
    FinalHeadReviewedAfterPause
CHECK_DEADLOCK FALSE
