CONSTANTS
    p1 = p1  p2 = p2  p3 = p3
    i1 = i1  i2 = i2  i3 = i3
    None = None  Odd = Odd  Partial = Partial  Rotten = Rotten
    Failed = Failed  Done = Done
    Procs <- TwoProcs
    Digests = {1}
    Inodes <- ThreeInodes
    Size <- MCSize
    RottenSize = 1
    Requests <- MCRequests
    Fragile = {}
    Cap = 2
    MaxUnknown = 0
    MaxClock = 0
    Plans <- OnlyFirst
    MaxCommands = 3
SPECIFICATION LiveSpec

PROPERTY EveryCommandEnds
CHECK_DEADLOCK FALSE
