CONSTANTS
    Files = {a, b}
    WaitForSeeding = TRUE
    MaxTried = 2
    MaxRetry = 1
    MaxHandles = 2
    MaxRequests = 2
    MaxFaults = 2
SPECIFICATION Spec
INVARIANTS CompletedHasAll EndedLeavesNothing UploadedOnce
PROPERTIES Ends
CHECK_DEADLOCK FALSE
