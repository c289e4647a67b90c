SPECIFICATION MCSpec
CONSTANTS
    Events <- MCEvents
    Requests <- MCRequests
    MaxTurns = 2
    TalkTurns = 1
    AuditCalls = 3
    TriageCalls = 1
    TalkCalls = 2
    FailureThreshold = 2
    NoProgressWindow = 2
    MaxModelCalls = 3
    MaxInvocations = 2
    MaxBatch = 2
    MaxDeliveries = 2
    MaxEvents = 4
    ProtectTurns = 2
    MinPart = 1
    MinReclaim = 3
    Sizes = {0, 2}
    MaxContents = 9
    Sessions <- MCSessions
    MaxSessions = 2
INVARIANTS
    NoOrphanedOutput
    HeldSessionStays
PROPERTIES
    PermissionOfTheDelivery
    ReviewAfterLooking
    HaltIsFinal
    DeliveryEnds
CHECK_DEADLOCK FALSE
