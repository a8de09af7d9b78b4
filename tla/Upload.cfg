CONSTANTS
    c1 = c1  c2 = c2
    None = None
    Attempts <- Pair
    PartSize = 2
    MaxParts = 2
    Sizes = {2, 3, 4, 5}
    Wait = TRUE
SPECIFICATION Spec
INVARIANTS TypeOK CompletedTiles NoSessionLeft ReadyIsKnown
PROPERTIES CompletedKept WaitsEnd
CHECK_DEADLOCK FALSE
