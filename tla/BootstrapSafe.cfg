CONSTANTS
    Versions <- FourVersions
    Configured <- Pinned
    Library = "obs"
    Rest = {"plugin"}
    Absent <- NotInstalled
    MaxCalls = 2
SPECIFICATION Spec
CHECK_DEADLOCK FALSE
INVARIANT SafeToCall
