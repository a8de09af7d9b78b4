CONSTANTS
    p1 = p1  p2 = p2
    i1 = i1  i2 = i2  i3 = i3
    None = None  Odd = Odd  Partial = Partial  Rotten = Rotten
    Failed = Failed  Done = Done
    Procs <- MCProcs
    Digests = {1}
    Inodes <- MCInodes
    Size <- MCSize
    RottenSize = 1
    Requests <- PinnedRequests
    Fragile = {1}
    Cap = 0
    MaxUnknown = 2
    MaxClock = 3
SPECIFICATION Spec
INVARIANT ReturnedIntact
SYMMETRY Symmetry
