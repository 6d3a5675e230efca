CONSTANTS
    t1 = t1
    t2 = t2
    Tasks = {t1}
    OpsOf <- OneReads
    BufLen = 2
    MaxStarts = 1
    MaxUnits = 2
    NULL = NULL
SPECIFICATION FairSpec
PROPERTIES
    WholeBufferReturns
CHECK_DEADLOCK FALSE
