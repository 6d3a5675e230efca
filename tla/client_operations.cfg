SPECIFICATION FairSpec
CONSTANTS
    Calls = {c1, c2}
    Frames = {f1, f2}
    Files = {h1}
    Dirs = {d1}
    NULL = NULL
    Ops = {"unlink", "mkdir", "rmdir", "rename", "chmod", "chown", "symlink",
           "hardlink", "setstat", "stat", "lstat", "readlink", "canonicalize_path",
           "expand_path", "home_directory", "open", "opendir", "read_some_at",
           "write_some_at", "do_read_", "file_close", "dir_close"}
    Events = {"break"}
    MaxInFlight = 2
    Replies <- HandleReplies
INVARIANTS
    PendingIsQueued
PROPERTIES
    CallsReturn
    RefinesCalls
