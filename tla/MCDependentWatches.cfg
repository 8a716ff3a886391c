SPECIFICATION FairSpec
CONSTANTS
    w1 = w1
    w2 = w2
    c1 = c1
    c2 = c2
    service = service
    statefulset = statefulset
    clusterrole = clusterrole
    Workers <- MCWorkers
    CRs <- MCCRs
    Kinds <- MCKinds
    ClusterScoped <- MCClusterScoped
    Manifests <- MCManifests
    CRKind = memcached
    None = None
    MaxFaults = 2
INVARIANTS
    OwnedFollowed
PROPERTIES
    AllHooked
