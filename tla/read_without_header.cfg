CONSTANTS
    worker_count = 0
    Requests <- Reads
    MaxRequests = 1
    FailureCancels = {FALSE}
    MayHangUp = FALSE
SPECIFICATION Spec
INVARIANTS
    RepliesIdentified
CHECK_DEADLOCK FALSE
