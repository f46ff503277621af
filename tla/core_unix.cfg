SPECIFICATION FairSpec
CONSTANTS
    MaxPid = 3
    MaxCrashRestarts = 2
    MaxRetries = 2
    MaxRequests = 3
    MaxServiceCrashes = 0
    JobController = FALSE
    StopCanFail = TRUE
    DieWithService = FALSE
CHECK_DEADLOCK FALSE
INVARIANTS Coherent Tracked DesiredCovers
PROPERTIES Recovery HandlersEnd
