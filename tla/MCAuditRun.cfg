SPECIFICATION RunSpec
CONSTANTS
    flash = flash
    gemma = gemma
    deep = deep
    Models = {flash, gemma, deep}
    Chain = {flash, gemma}
    MaxRetries = 4
    MaxTurns = 2
    MaxHead = 2
    MaxRuns = 2
    MaxPosts = 2
INVARIANTS
    ReportedReviewExists
PROPERTIES
    OneReviewPerAnswer
    PausedOnlyWhenExhausted
    UnavailableIsPaused
    ReplyIsFresh
CHECK_DEADLOCK FALSE
