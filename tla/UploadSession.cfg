\* A file of two chunks, two requests at a time and a cancellation.
SPECIFICATION Spec
CONSTANTS
    None = None
    Chunks = {1, 2}
    Handlers = {r1, r2}
    Retention = {TRUE, FALSE}
    MaxRequests = 5
    MaxMutexes = 2
    MaxFaults = 1
INVARIANTS TypeOK OneCompletion WholeWhenComplete AckedMeansComplete GoneMeansFree
PROPERTIES RequestsEnd
CHECK_DEADLOCK FALSE
