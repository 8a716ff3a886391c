SPECIFICATION FairSecretsSpec
CONSTANTS
    w1 = w1
    w2 = w2
    w3 = w3
    ns1 = ns1
    ns2 = ns2
    Callers <- MCCallers
    Namespaces <- MCNamespaces
    Readable <- MCNamespaces
    Nobody = Nobody
    MaxAborts = 1
INVARIANTS
    ListsFromSynced
PROPERTIES
    ReadableServed
