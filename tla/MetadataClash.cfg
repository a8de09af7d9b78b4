CONSTANTS
    b1 = b1
    x = x  xmeta = xmeta  xmetameta = xmetameta
    None = None
    Paths <- MCPaths
    MetadataPath <- MCMetadataPath
    SharedLock = TRUE
    Builds = {b1}
    Targets <- Clashing
SPECIFICATION Spec
INVARIANT ImagesInPlace
CHECK_DEADLOCK FALSE
