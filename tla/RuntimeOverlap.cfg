SPECIFICATION FairSpec
CONSTANTS
    r1 = r1
    r2 = r2
    r3 = r3
    NoThread = NoThread
    Runtimes <- ThreeRuntimes
    Faults <- NoFaults
    Sequential = FALSE
INVARIANT
    OneRuntimeAtATime
CHECK_DEADLOCK FALSE
