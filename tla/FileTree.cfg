\* Two requests at a time.
SPECIFICATION Spec
CONSTANTS
    None = None
    Root = root
    Ids = {i1, i2, i3}
    Names = {a, b}
    Requests = {r1, r2}
    Depth = 3
    TornReads = FALSE
    Calls = {"folder", "file", "rename", "trash", "delete", "move", "copy"}
    MaxCalls = 3
SYMMETRY Alike
INVARIANTS Rooted StillThere
PROPERTIES LockedPathsStand
CHECK_DEADLOCK FALSE
