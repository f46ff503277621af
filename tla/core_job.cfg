SPECIFICATION Spec
CONSTANTS
    MaxPid = 3
    MaxCrashRestarts = 1
    MaxRetries = 1
    MaxRequests = 1
    MaxServiceCrashes = 1
    JobController = TRUE
    StopCanFail = FALSE
    DieWithService = TRUE
CHECK_DEADLOCK FALSE
INVARIANTS NoOrphan
