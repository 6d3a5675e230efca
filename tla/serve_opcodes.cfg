CONSTANTS
    worker_count = 0
    Requests <- AllRequests
    MaxRequests = 2
    FailureCancels = {FALSE}
    MayHangUp = FALSE
SPECIFICATION Spec
INVARIANTS
    TypeOK
    OneReply
CHECK_DEADLOCK FALSE
