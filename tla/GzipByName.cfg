CONSTANTS
    Lengths <- AllLengths
    SeedLengths <- AllSeedLengths
    Offset = 3
    Partition = 3
    Buffer = 2
    Before = Before
SPECIFICATION Spec
CHECK_DEADLOCK FALSE
INVARIANT FormatTrue
