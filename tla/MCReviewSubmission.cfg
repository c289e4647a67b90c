SPECIFICATION MCSpec
CONSTANTS
    w1 = w1
    w2 = w2
    Workers <- MCTwoWorkers
    Heads = {1}
    LeaseTicks = 1
    DurableEnabled = TRUE
    MaxClock = 1
    MaxClaims = 3
    MaxSessions = 3
    InlineComments = {FALSE}
    NativeDismissal = FALSE
    AllowedFaults = {"split", "late", "lostResponse", "erased", "markRaised", "enforceRaised", "crash"}
SYMMETRY MCSymmetry
INVARIANTS
    SingleDurableHolder
    NoUnforcedDuplicate
    NoOrphanClaim
PROPERTIES
    LiveClaimEndedByHolderOnly
