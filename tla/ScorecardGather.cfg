SPECIFICATION FairSpec
CONSTANTS
    Entries = 3
    MaxPadding = 2
    MaxMessages = 3
    OutCap = 2
    ErrCap = 2
    MaxFaults = 1
INVARIANTS
    GatheredInFull
PROPERTIES
    GatheringEnds
CHECK_DEADLOCK FALSE
