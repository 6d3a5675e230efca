SPECIFICATION Spec
CONSTANTS
    Calls = {c1, c2, c3, c4}
    Frames = {f1, f2, f3}
    Files = {h1}
    Dirs = {}
    NULL = NULL
    Ops = {"open", "write_some_at", "file_close"}
    Events = {}
    MaxInFlight = 3
    Replies <- HandleReplies
SYMMETRY Interchangeable
INVARIANTS
    SuccessIsAnswered
PROPERTIES
    AnswerStays
    CloseReleases
CHECK_DEADLOCK FALSE
