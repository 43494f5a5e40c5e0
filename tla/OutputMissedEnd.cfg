CONSTANTS
    t1 = t1
    t2 = t2
    actor = actor
    w1 = w1
    None = None
    Threads <- TwoCallers
    Actor <- actor
    Wirings <- OneWiring
    MaxStarts = 1
    MaxPauses = 1
    Timeouts = FALSE
    SelfEnds = TRUE
    CallsFail = FALSE
    ActorClosures = FALSE
    StopCodes = {"success"}
SPECIFICATION Spec
CHECK_DEADLOCK FALSE
INVARIANTS StopsAreHeard
