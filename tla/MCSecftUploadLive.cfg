SPECIFICATION FairSpec
CONSTANTS
    s1 = s1
    s2 = s2
    Conns = {s1}
    BufferSize = 2
    Bytes = {1, 2, 3, 4, 5, 9}
    Paths <- MCPaths
    Stem <- MCStem
    InitialFiles <- MCInitialFiles
    Dirs = {}
    Sealed = {}
    Faults = {"cut", "split", "crash", "local", "disk", "deaf"}
    Path <- MCPath
    Content <- MCContent
    Size <- MCSize
    Trusted = {s1}
    Cancellable = {s1}
    LocalSizes <- MCLocalLive
INVARIANTS EndIsTold StoredIsThinned CancelIsPrompt
PROPERTY EveryUploadEnds
CHECK_DEADLOCK FALSE
