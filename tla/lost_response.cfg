SPECIFICATION Spec
CONSTANTS
    Calls = {c1, c2, c3}
    Frames = {f1, f2, f3}
    Files = {}
    Dirs = {}
    NULL = NULL
    Ops = {"unlink"}
    Events = {}
    MaxInFlight = 2
    Replies <- StatusReplies
INVARIANTS
    PendingIsQueued
CHECK_DEADLOCK FALSE
