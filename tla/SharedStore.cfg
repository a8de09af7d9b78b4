CONSTANTS
    p1 = p1  p2 = p2
    i1 = i1  i2 = i2  i3 = i3
    None = None  Odd = Odd  Partial = Partial  Rotten = Rotten
    Failed = Failed  Done = Done
    Procs <- MCProcs
    Digests = {1, 2}
    Inodes <- TwoInodes
    Size <- MCSize
    RottenSize = 1
    Requests <- MCRequests
    Fragile = {1}
    Cap = 2
    MaxUnknown = 2
    MaxClock = 2
SPECIFICATION Spec
INVARIANTS TypeOK PublishedWhole
SYMMETRY Symmetry
