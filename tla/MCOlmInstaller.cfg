SPECIFICATION FairSpec
CONSTANTS
    Versions <- MCVersions
    CRDs <- MCCRDs
    Resources <- MCResources
    KindOf <- MCKindOf
    Operator = "operator"
    Catalog = "catalog"
    Server = "server"
    CSV = "csv"
    Namespace = "olm"
    Inside <- MCInside
    MaxFaults = 2
    MaxRuns = 4
    None = "none"
PROPERTIES
    InstalledAsAsked
    NothingRemains
    InstallSucceeds
    UninstallEnds
CHECK_DEADLOCK FALSE
