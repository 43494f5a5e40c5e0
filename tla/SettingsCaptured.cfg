CONSTANTS
    t1 = t1
    t2 = t2
    None = None
    Threads <- TwoThreads
    Keys <- TwoKeys
    Values <- TwoValues
    MaxCalls = 3
SPECIFICATION Spec
CHECK_DEADLOCK FALSE
INVARIANT SettingsAreCaptured
