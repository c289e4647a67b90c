SPECIFICATION FairSpec
CONSTANTS
    Heads = {1}
    BaseMerges = {}
    Signals = {"checks", "status"}
    MaxAttempts = 2
    MaxMessages = 2
    MaxFaults = 0
    AllowedFaults = {}
    AuthorActions = {}
PROPERTIES
    FinalHeadReviewed
CHECK_DEADLOCK FALSE
