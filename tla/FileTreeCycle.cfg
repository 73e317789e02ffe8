\* A folder is renamed while another request reads the two paths of a move.
SPECIFICATION Spec
CONSTANTS
    None = None
    Root = root
    Ids = {i1, i2}
    Names = {a, b}
    Requests = {r1, r2}
    Depth = 2
    TornReads = TRUE
    Calls = {"rename", "move"}
    MaxCalls = 2
PROPERTIES NotIntoItself
CHECK_DEADLOCK FALSE
