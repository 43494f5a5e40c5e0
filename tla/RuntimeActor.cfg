CONSTANTS
    t1 = t1
    t2 = t2
    o1 = o1
    o2 = o2
    c1 = c1
    c2 = c2
    c3 = c3
    noObject = noObject
    r1 = r1
    r2 = r2
    r3 = r3
    Runtimes <- ThreeRuntimes
    NoThread = noThread
    Faults <- EveryFault
    Threads <- TwoThreads
    Objects <- TwoObjects
    Commands <- ThreeCommands
    SyncCommands <- TwoSyncCommands
    NoObject = noObject
    QueueCapacity = 1
SPECIFICATION ActorsSpec
CHECK_DEADLOCK FALSE
INVARIANTS TypeOK ObjectsAreOwned CleanShutdownDrains NativeLibraryIsOwned NoStrandedSlot
PROPERTIES NoWorkAfterPanic SyncCallReturns CleanupEnds RuntimeEnds DroppedRuntimeEnds
