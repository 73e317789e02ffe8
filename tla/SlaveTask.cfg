CONSTANTS
    Jobs = {j1, j2}
    Archives = {j1}
    Nodes = {n1, n2}
    NoNode = none
    MaxRetry = 1
    MaxWork = 6
    MaxFaults = 2
SPECIFICATION Spec
INVARIANTS TypeOK CompletedMeansDone HarmlessWithoutFaults
PROPERTIES JobsEnd
CHECK_DEADLOCK FALSE
