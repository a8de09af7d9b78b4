CONSTANTS
    MaxInt = 7
    Expected <- AllSizes
    Caps <- MCCaps
    Bodies <- AllSizes
    Buffer = 2
    None = None
SPECIFICATION Spec
INVARIANTS AcceptsWhole CopiesBounded
CHECK_DEADLOCK FALSE
