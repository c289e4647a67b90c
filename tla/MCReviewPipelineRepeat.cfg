SPECIFICATION PipelineSpec
CONSTANTS
    Items = {"x", "y"}
    Cutting = {"y"}
    Bodies <- MCBodies
    Callers = {"APPROVE", "COMMENT", "REQUEST_CHANGES"}
    Settings <- MCSettings
    Legacies <- MCLegacies
    MaxRounds = 2
    Diffs <- MCDiffs
    FindingLists <- MCFindings
    Begins <- MCBegins
    MaxBytes = 5
    LifetimeCap = 6
    GroupThreshold = 3
    Proximity = 2
    MaxDrift = 5
    MaxReviews = 3
INVARIANTS
    FindingRaisedOnce
CHECK_DEADLOCK FALSE
