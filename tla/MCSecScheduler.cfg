SPECIFICATION Spec
CONSTANTS
    a1 = a1
    a2 = a2
    Callers = {a1, a2}
    MaxCalls = 3
    Kinds <- MCKinds
    MaxTaskNum = 3
    TaskNums = {0, 4}
INVARIANTS TypeOK IdsNameOwnStreams EveryThreadIsCounted WithdrawnNeverStarts
PROPERTIES EveryStreamStarts IsPool
CHECK_DEADLOCK FALSE
