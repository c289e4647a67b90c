SPECIFICATION DispatchSpec
CONSTANTS
    Heads = {1, 2}
    BaseMerges = {2}
    Signals = {"checks"}
    MaxAttempts = 2
    MaxMessages = 3
    MaxFaults = 3
    AllowedFaults <- MCAllFaults
    AuthorActions = {"rerun", "close", "reopen"}
INVARIANTS
    ReviewedOnlyAfterGreen
    ClaimEarned
PROPERTIES
    ReviewMatchesFiles
    NoSecondAudit
CHECK_DEADLOCK FALSE
