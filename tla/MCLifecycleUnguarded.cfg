SPECIFICATION Spec
CONSTANTS
    Unset = Unset
    Empty = Empty
    Blank = Blank
    Garbage = Garbage
    NaN = NaN
    Envs <- SharedOnly
    FlagValues = {""}
    MaxRequests = 1
    MaxFaults = 1
INVARIANTS GuardedWhenServing
CHECK_DEADLOCK FALSE
