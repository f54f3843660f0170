SPECIFICATION FairSpec
CONSTANTS
    Frames = 3
    Sizes = {1, 3, 5}
    Small = 4
    Readings = {0, 3}
INVARIANTS TypeOK ExactUntilShort
PROPERTY IsChannel
CHECK_DEADLOCK FALSE
