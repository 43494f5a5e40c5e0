CONSTANTS
    t1 = t1
    t2 = t2
    actor = actor
    w1 = w1
    None = None
    Threads <- TwoCallers
    Actor <- actor
    Wirings <- OneWiring
    MaxStarts = 1
    MaxPauses = 1
    Timeouts = TRUE
    SelfEnds = FALSE
    CallsFail = FALSE
    ActorClosures = TRUE
    StopCodes = {"success"}
SPECIFICATION FairSpec
CHECK_DEADLOCK FALSE
PROPERTIES StopReturns
