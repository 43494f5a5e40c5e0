CONSTANTS
    r1 = r1
    r2 = r2
    r3 = r3
    t1 = t1
    t2 = t2
    t3 = t3
    none = none
    NoThread = NoThread
    Runtimes <- ThreeRuntimes
    Faults <- AllFaults
    Sequential = TRUE
SPECIFICATION CallsSpec
CHECK_DEADLOCK FALSE
INVARIANTS RuntimesTakeTurns
PROPERTIES NewReturns LeaseSpec OperationsReturn
