SPECIFICATION Spec
CONSTANTS
    Requests = {r1, r2}
    Ids <- MCIds
    Burst <- MCBurst
    MaxKeys = 1
    IdleTTL = 1
    Deployments <- MCDeployments
    Traffic <- MCTraffic
    Edits <- MCEdits
    Hops = 2
    Addresses = {"a", "b"}
    Keys = {"k", "nameless"}
    ClientOf <- MCClientOf
    Expires <- MCExpires
    Jwts = {"nosub", "nested", "otherapp", "forgery"}
    Token <- MCToken
    MaxRequests = 3
    MaxClock = 2
    MaxEdits = 1
INVARIANTS OnlyAuthorised EveryRunCharged FailBound OnlyOffendersBlocked AdmitBound
SYMMETRY RequestSymmetry
CHECK_DEADLOCK FALSE
