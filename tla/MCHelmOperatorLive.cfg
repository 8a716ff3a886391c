SPECIFICATION FairSpec
CONSTANTS
    v1 = v1
    v2 = v2
    config = config
    extra = extra
    Values <- MCValues
    Resources <- MCResources
    Renders <- MCRenders
    Owned <- MCOwned
    Keep = {}
    StorageLag = FALSE
    MaxVersion = 6
    MaxFaults = 1
    MaxChanges = 2
    None = None
    NoCR = NoCR
PROPERTIES
    Converges
    DeletionCompletes
CHECK_DEADLOCK FALSE
