SPECIFICATION Spec
CONSTANTS
    Stem <- MCStem
    GroupOf <- MCGroupOf
    Rank <- MCRank
    MaxOrder = 99
    MaxDepth = 4
    Operator = "op"
    Features <- MCFeatures
    Manifests <- MCManifests
    Packages <- MCPackages
    Resources <- MCResources
    Versions <- MCVersions
    BundleFlags <- MCBundleFlags
    PackageFlags <- MCPackageFlags
    MaxSteps = 3
INVARIANTS
    BaseOnlyMetadata
    GrantsKept
    BundleSelfContained
    ScorecardAgrees
    PackageConsistent
    MigratedAsPublished
PROPERTIES
    DescriptionsKept
CHECK_DEADLOCK FALSE
