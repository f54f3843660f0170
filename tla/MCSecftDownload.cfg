SPECIFICATION FairSpec
CONSTANTS
    s1 = s1
    s2 = s2
    Conns = {s1, s2}
    BufferSize = 1
    Bytes = {1, 2}
    Paths <- MCPaths
    Stem <- MCStem
    InitialFiles <- MCInitialFiles
    Dirs = {"d"}
    Sealed = {}
    Faults = {}
    Remotes <- MCRemotes
    LocalFiles <- MCLocalFiles
    Uncreatable = {"u"}
    Removable = {"f"}
    Cancellable = {s1}
INVARIANTS TypeOK FailureIsTold
PROPERTIES EveryDownloadEnds KeepsDownloadContract
CHECK_DEADLOCK FALSE
