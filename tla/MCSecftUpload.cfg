SPECIFICATION Spec
CONSTANTS
    s1 = s1
    s2 = s2
    Conns = {s1, s2}
    BufferSize = 1
    Bytes = {1, 2, 3, 4, 5, 9}
    Paths <- MCPaths
    Stem <- MCStem
    InitialFiles <- MCInitialFiles
    Dirs = {}
    Sealed = {}
    Faults = {"cut", "split", "crash", "local", "deaf"}
    Path <- MCPath
    Content <- MCContent
    Size <- MCSize
    Trusted = {s1, s2}
    Cancellable = {}
    LocalSizes <- MCLocalSizes
INVARIANTS TypeOK StopAndWait StoredIsFront CleanUploadIsStored
PROPERTY KeepsContract
CHECK_DEADLOCK FALSE
