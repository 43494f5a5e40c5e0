CONSTANTS
    a = a
    b = b
    g = g
    s = s
    t1 = t1
    t2 = t2
    p1 = p1
    p2 = p2
    f1 = f1
    f2 = f2
    None = None
    Unknown = Unknown
    Threads <- TwoThreads
    Shared = FALSE
    Replaces = {FALSE, TRUE}
    MaxSaves = 3
    MaxFaults = 1
    MaxCrashes = 1
    Items <- TwoItems
    Groups <- OneGroup
    Sources <- OneSource
    States <- TwoStates
    MaxHistory = 3
    Rejections = FALSE
    Documents <- TwoDocuments
    Plugins <- PluginTypes
    Schemas <- TwoSchemas
    Encoders <- ManyEncoders
    Others <- PairsOfSettings
    Processes <- TwoProcesses
    ReleaseFiles <- TwoFiles
    MaxBuilds = 3
    Disturbances = {"replace", "interrupt", "skip"}
    Catalogue <- FiveEncoders
    OutputTypes <- ThreeOutputTypes
    Codec = "h264"
    MaxStarts = 2
    Versions <- FourVersions
    Configured <- Pinned
    Library = "obs"
    OtherFiles <- OtherFile
    NoVersion <- NotInstalled
    MaxInstalls = 2
SPECIFICATION ToolsSpec
SYMMETRY Symmetry
CHECK_DEADLOCK FALSE
INVARIANTS ToolsTypeOK ItemsStay SaveIsAtomic RestoreIsFaithful SettingsAreExact
    CacheIsComplete FallbackIsSound BootstrapIsSound
PROPERTIES History
