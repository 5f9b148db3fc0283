CONSTANTS
    MaxCalls = 2
    Fates = {"answers", "intr", "kill", "never"}
    Options = {}
    SavesMask = FALSE
    IgnoresSigpipe = TRUE
SPECIFICATION FairSpec
PROPERTIES CallsEndAfterTimeout
CHECK_DEADLOCK FALSE
