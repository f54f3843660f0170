SPECIFICATION FairSpec
CONSTANTS
    Polls = 3
    ChildDies = TRUE
    Bytes = {1, 2, 3, 4, 5, 6, 9}
    Chunk = 2
    Modulus = 4
    Modes = {"none", "upload", "download", "quit"}
    Sources <- MCSources
    Changes <- MCChanges
    Olds <- MCOlds
    MaxEntries = 2
    ClientDies = TRUE
INVARIANTS TypeOK WholeIsStored FrontIsStored
PROPERTIES KeepsCopyContract ConnectionsEnd LaunchSettles
CHECK_DEADLOCK FALSE
