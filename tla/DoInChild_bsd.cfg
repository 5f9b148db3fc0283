CONSTANTS
    MaxCalls = 2
    Fates = {"answers", "kill", "never"}
    Options = {}
    SavesMask = TRUE
    IgnoresSigpipe = TRUE
SPECIFICATION FairSpec
PROPERTIES KeepsPromise ExitEndsChildren KeepsPromiseInTime
CHECK_DEADLOCK FALSE
