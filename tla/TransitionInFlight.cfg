CONSTANTS
    t1 = t1
    t2 = t2
    a = a
    b = b
    None = None
    Threads <- TwoThreads
    Sources <- TwoSources
    MaxBegins = 2
    MaxForces = 1
SPECIFICATION Spec
CHECK_DEADLOCK FALSE
INVARIANTS InFlightUntilResolved
