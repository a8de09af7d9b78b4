CONSTANTS
    p1 = p1  p2 = p2  p3 = p3
    i1 = i1  i2 = i2  i3 = i3
    None = None  Odd = Odd  Partial = Partial  Rotten = Rotten
    Failed = Failed  Done = Done
    Procs <- TwoProcs
    Digests = {1, 2}
    Inodes <- ThreeInodes
    Size <- MCSize
    RottenSize = 1
    Requests <- MCRequests
    Fragile = {1}
    Cap = 2
    MaxUnknown = 0
    MaxClock = 0
    Plans <- OneImage
    MaxCommands = 3
SPECIFICATION BuildSpec
INVARIANTS BuildTypeOK OnlyHolderInside VerifiedIntact
PROPERTIES FetchKeepsGoodBlobs ImplementsCache
SYMMETRY Symmetry
CHECK_DEADLOCK FALSE
