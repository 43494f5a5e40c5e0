CONSTANTS
    t1 = t1
    t2 = t2
    actor = actor
    w1 = w1
    None = None
    Threads <- ThreeCallers
    Actor <- actor
    Wirings <- OneWiring
    MaxStarts = 2
    MaxPauses = 2
    Timeouts = TRUE
    SelfEnds = TRUE
    CallsFail = TRUE
    ActorClosures = TRUE
    StopCodes = {"success", "failure"}
SPECIFICATION Spec
CHECK_DEADLOCK FALSE
SYMMETRY Symmetry
INVARIANTS SlotsMatchNative
PROPERTIES WiringFrozen StopMeansStopped PauseMeansPaused
