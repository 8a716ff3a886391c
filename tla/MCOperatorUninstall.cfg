SPECIFICATION FairSpec
CONSTANTS
    owned = owned
    required = required
    CRDs <- MCCRDs
    Owned <- MCOwned
    DeleteAll = TRUE
    OtherInstalls = TRUE
    Timeouts = TRUE
    MaxFaults = 2
    MaxRuns = 3
    None = None
INVARIANTS
    CleanedUp
PROPERTIES
    GroupGoesLast
    Succeeds
CHECK_DEADLOCK FALSE
