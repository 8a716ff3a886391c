SPECIFICATION Spec
CONSTANTS
    v1 = v1
    v2 = v2
    config = config
    extra = extra
    Values <- MCValues
    Resources <- MCResources
    Renders <- MCRenders
    Owned <- MCOwned
    Keep = {extra}
    StorageLag = TRUE
    MaxVersion = 6
    MaxFaults = 1
    MaxChanges = 1
    None = None
    NoCR = NoCR
PROPERTIES
    KeptObjectsSurvive
    NoLostUpdate
    WaitHonoured
    NotRecreated
CHECK_DEADLOCK FALSE
