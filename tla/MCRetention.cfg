SPECIFICATION FairSpec
CONSTANTS
    Purgers = {p1, p2}
    Configs <- MCConfigs
    BatchSize = 1
    MaxBatches = 2
    Arriving = {"write", "grant", "admin"}
    Breakable = {"write"}
    MaxRows = 3
    MaxClock = 3
    MaxFaults = 1
PROPERTIES NothingEarly LeavesTableClean ExpiredRowsGo
CHECK_DEADLOCK FALSE
