SPECIFICATION MCSpec
CONSTANTS
    NameClasses <- MCClasses
    Hole = Hole
    PageSize = 2
    MaxPages = 2
    DefaultLimit = 2
    Wrap = 1024
    DefaultTip = 2
    Tables <- MCTables
    Caps = {1, 2}
    Requests <- MCRequests
    Prices = {1, 4}
    Tips <- MCTips
    Estimates = {7, 50}
    MaxMoves = 2
    MaxFails = 1
INVARIANTS ScanComplete PagedWhole TotalTruthful PreparedUsable
CHECK_DEADLOCK FALSE
