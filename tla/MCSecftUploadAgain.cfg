SPECIFICATION Spec
CONSTANTS
    s1 = s1
    s2 = s2
    Conns = {s1}
    BufferSize = 4
    Bytes = {1, 2, 3, 4, 5, 9}
    Paths <- MCPaths
    Stem <- MCStem
    InitialFiles <- MCInitialFiles
    Dirs = {}
    Sealed = {}
    Faults = {}
    Path <- MCPath
    Content <- MCContent
    Size <- MCSize
    Trusted = {s1}
    Cancellable = {}
    LocalSizes <- MCLocalSizes
INVARIANT SecondUploadReplaces
CHECK_DEADLOCK FALSE
