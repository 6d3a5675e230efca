SPECIFICATION Spec
CONSTANTS
    Calls = {c1, c2, c3}
    Frames = {f1, f2}
    Files = {}
    Dirs = {}
    NULL = NULL
    Ops = {"unlink", "readlink"}
    Events = {"break", "cancel", "runt", "destroy"}
    MaxInFlight = 2
    Replies <- MixedReplies
SYMMETRY Interchangeable
INVARIANTS
    TypeOK
    AnswerIsOwn
    ReaderIsUnanswered
    StreamExclusive
    SomeoneReads
CHECK_DEADLOCK FALSE
