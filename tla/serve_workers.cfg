CONSTANTS
    worker_count = 2
    Requests <- Deadly
    MaxRequests = 3
    FailureCancels = {TRUE, FALSE}
    MayHangUp = TRUE
SPECIFICATION FairSpec
INVARIANTS
    WholeInOrder
    NothingLost
    RepliesUnmixed
    OneReply
PROPERTIES
    EveryRequestAnswered
    ServeReturns
