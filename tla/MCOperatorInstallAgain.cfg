SPECIFICATION Spec
CONSTANTS
    Package = "p"
    DefaultChannel = "operator-sdk-run-bundle"
    None = None
    Bundles = {"b1", "b2", "b3"}
    Replaces <- MCReplaces
    LabelChannel = "stable"
    Default = "opm"
    Index <- MCIndex
    Listed <- MCListed
    Modes <- MCModes
    TargetsOf <- MCTargetsOf
    Own = "ns"
    Manifests <- MCManifests
    Traditional <- MCTraditional
    MaxConfigMap = 6
    MaxMaps = 2
    MaxFaults = 0
    MaxRuns = 2
PROPERTIES
    SubsequentUpgrades
CHECK_DEADLOCK FALSE
