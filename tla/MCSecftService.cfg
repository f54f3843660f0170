SPECIFICATION FairSpec
CONSTANTS
    BufferSize = 1
    Bytes = {1, 2}
    Paths <- MCPaths
    Stem <- MCStem
    InitialFiles <- MCInitialFiles
    Dirs <- MCDirs
    Sealed <- MCSealed
    c1 = c1
    c2 = c2
    Conns = {c1, c2}
    Faults = {"crash"}
    Requests <- MCRequests
    MaxSends <- MCMaxSends
INVARIANTS TypeOK OpenSocketsAreListed
PROPERTIES ListIsStableDuringPass DeniedStaysOut OnlyOverwriteDiscards
    NoOneWaitsForEver SilentSessionsAreErased
CHECK_DEADLOCK FALSE
