SPECIFICATION CallFairSpec
CONSTANTS
    MaxReads = 2
    MaxPerRead = 2
INVARIANTS CallTypeOK GoneMeansAnswered
PROPERTIES EventuallyAnswered AnsweredThenClosed
CHECK_DEADLOCK FALSE
