SPECIFICATION FairSpec
CONSTANTS
    MaxPid = 3
    MaxCrashRestarts = 1
    MaxRetries = 1
    MaxRequests = 1
    MaxServiceCrashes = 2
    JobController = FALSE
    StopCanFail = FALSE
    DieWithService = FALSE
CHECK_DEADLOCK FALSE
INVARIANTS Tracked NoStartOverSurvivor
PROPERTIES BootServes
