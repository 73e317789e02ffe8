CONSTANTS
    Files = {f1, f2, f3}
    Entities = {1, 2, 3}
    Ops = {o1, o2}
    None = None
    Quota = 2
    Retention = {TRUE, FALSE}
    Calls = {"delete", "copy", "unlink", "revert", "create", "update"}
    MaxCalls = 3
    MaxFaults = 1
SPECIFICATION Spec
INVARIANTS RefsCountLinks UsedIsLinked VersionsKept UploadsWithinQuota
PROPERTY StaleRecycled
CHECK_DEADLOCK FALSE
