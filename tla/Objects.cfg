CONSTANTS
    t1 = t1
    t2 = t2
    t3 = t3
    a = a
    b = b
    r1 = r1
    r2 = r2
    f1 = f1
    f2 = f2
    s1 = s1
    s2 = s2
    None = None
    Threads <- TwoThreads
    Sources <- TwoDestinations
    MaxBegins = 2
    MaxForces = 1
    Callers <- ThreeThreads
    MaxSaves = 4
    Scenes <- OneScene
    SceneSources <- TwoSources
    MaxCalls = 3
    Apart <- CallsApart
    Receivers <- TwoReceivers
    Capacity = 2
    MaxEvents = 4
    Attachable <- TwoFilters
    MaxGuards = 4
    ReAdd = FALSE
    Keys <- TwoKeys
    Values <- TwoValues
    MaxUpdates = 3
    Idle = "idle"
    MaxHandles = 3
SPECIFICATION ObjectsSpec
SYMMETRY Symmetry
CHECK_DEADLOCK FALSE
INVARIANTS ObjectsTypeOK SceneIsManaged CallsProgress CallbacksAreSafe FirstEventsArrive
    FiltersAreAttached SettingsAreCurrent PreviewIsSafe DestinationRetained
    CompletionIsNotLost
PROPERTIES SavedPathIsRight SnapsToCurrent ReconciledIsShown
