SPECIFICATION FairSpec
CONSTANTS
    Users = {u1, u2}
    Workers = {w1, w2}
    NoUser = NoUser
    Seconds = 1
    MaxLogins = 3
    Mistyped = {2}
    MaxLists = 1
INVARIANTS TypeOK IdentityIsOwn WindowsAreExplained FilesNeedLogin
PROPERTY SpinnerEnds
CHECK_DEADLOCK FALSE
