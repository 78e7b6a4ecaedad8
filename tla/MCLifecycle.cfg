SPECIFICATION FairSpec
CONSTANTS
    Unset = Unset
    Empty = Empty
    Blank = Blank
    Garbage = Garbage
    NaN = NaN
    Envs <- MCEnvs
    FlagValues = {"", "stdio", "junk"}
    MaxRequests = 1
    MaxFaults = 1
INVARIANTS ConfigSound GuardsInPlace EverythingReleased ClosedAfterUse
PROPERTIES Stops ReadyFollowsNode
CHECK_DEADLOCK FALSE
