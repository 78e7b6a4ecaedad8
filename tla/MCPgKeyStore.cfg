SPECIFICATION FairSpec
CONSTANTS
    Clients = {c1, c2}
    RawKeys <- MCRawKeys
    Replicas = {s1, s2}
    Lookups = {p1, p2}
    MaxFaults = 1
INVARIANTS RowBelongsToOwner
PROPERTIES RegistrySpec KeyMovesOn
CHECK_DEADLOCK FALSE
