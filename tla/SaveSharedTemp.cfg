CONSTANTS
    Threads = {t1, t2}
    Shared = TRUE
    Replaces = {TRUE}
    MaxSaves = 3
    MaxFaults = 1
    MaxCrashes = 0
SPECIFICATION Spec
CHECK_DEADLOCK FALSE
INVARIANTS WriteFailuresTruncateNothing
