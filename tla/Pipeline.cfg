CONSTANTS
    c1 = c1  c2 = c2
    s = s  t = t  Unset = Unset  Stable = s
    amd = amd  arm = arm
    a1 = a1  r1 = r1  a2 = a2  r2 = r2  a3 = a3  a4 = a4
    x = x  y = y  z = z  xmeta = xmeta  ymeta = ymeta  zmeta = zmeta
    None = None  Malformed = Malformed
    Builds <- MCBuilds
    Clients <- MCBuilds
    Channels <- MCChannels
    Offers <- MCOffers
    Images <- MCImages
    Unusable = {a4}
    Indexes <- MCIndexes
    Queries <- MCQueries
    Invocations <- MCInvocations
    OutputPath <- MCOutputPath
    Paths <- MCPaths
    Targets <- MCTargets
    MetadataPath <- MCMetadataPath
    SharedLock = TRUE
    K = 2
    MaxInt = 255
SPECIFICATION PipelineSpec
INVARIANTS PipelineTypeOK ImagesInPlace FailedLeavesNone MetadataTrue
    ResolvedNewest MissingTrue SameIndexSameImages RefusedBeforeBuild
PROPERTIES OthersUntouched ImplementsOutputs
CHECK_DEADLOCK FALSE
