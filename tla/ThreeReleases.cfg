CONSTANTS
    c1 = c1  c2 = c2  c3 = c3  v1 = v1  v2 = v2  a1 = a1  a2 = a2  b1 = b1  b2 = b2
    None = None
    Attempts <- Three
    Versions = {v1, v2}
    AliasNames = {a1, a2}
    Blobs = {b1, b2}
    Version <- MCVersion
    Count <- MCCount
    Blob <- MCBlob
    Aliases <- MCAliases
    AliasCount <- MCAliasCount
    Wait = FALSE
SPECIFICATION Spec
INVARIANTS TypeOK PublishedExact SuccessIsOwn AliasPublished AliasesFollow CleanupComplete ArtifactsReady
PROPERTIES ImplementsPublished
SYMMETRY Symmetry
CHECK_DEADLOCK FALSE
