SPECIFICATION WorkspaceSpec
CONSTANTS
    Runs = {"r1", "r2", "r3"}
    Evictors = {"e1", "e2", "e3"}
    Casts = {{"r1", "r2", "e1"}, {"r1", "e1", "e2"}, {"r3", "e1"}, {"r1", "e3"}}
    Unlocked = {"r3", "e3"}
    Dirs = {1, 2, 3, 4, 5}
    NoDir = 0
    Kinds = {"venv", "toolchain", "scanner", "buildkit"}
    MaxCrashes = 1
    WgPaths = {"p", "q"}
INVARIANT LeaseSafe
PROPERTIES Served GuardKeeps
CHECK_DEADLOCK FALSE
