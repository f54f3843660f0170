SPECIFICATION Spec
CONSTANTS
    a1 = a1
    a2 = a2
    Callers = {a1}
    MaxCalls = 5
    Kinds = {"upload"}
    MaxTaskNum = 4
    TaskNums = {}
PROPERTY EveryStreamStarts
CHECK_DEADLOCK FALSE
