CONSTANTS
    t1 = t1
    t2 = t2
    Tasks = {t1, t2}
    OpsOf <- EachBesideTwo
    BufLen = 2
    MaxStarts = 1
    MaxUnits = 2
    NULL = NULL
SPECIFICATION FairSpec
INVARIANTS
    TypeOK
    BytesInOrder
    OnlyIoSpins
    ReaderNotRobbed
    SuccessEarned
PROPERTIES
    DueReturns
    EndsAfterHangUp
CHECK_DEADLOCK FALSE
