SPECIFICATION FairSpec
CONSTANTS
    basic = basic
    olm1 = olm1
    olm2 = olm2
    custom = custom
    Tests <- MCTests
    Stages <- MCStages
    Storage <- MCStorage
    Drains <- MCStorage
    Logs = {"pass", "fail", "garbage"}
    SkipCleanup = FALSE
    LateCalls = TRUE
    MaxFaults = 2
    None = None
INVARIANTS
    AllReported
    NothingLeftBehind
PROPERTIES
    VerdictFromTest
    RunEnds
CHECK_DEADLOCK FALSE
