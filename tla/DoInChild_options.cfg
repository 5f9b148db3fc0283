CONSTANTS
    MaxCalls = 2
    Fates = {"answers", "intr", "kill", "never"}
    Options = {"b", "O"}
    SavesMask = TRUE
    IgnoresSigpipe = FALSE
SPECIFICATION Spec
INVARIANTS TypeOK OwnAnswer AlarmIsHandled LeftWereKilled
CHECK_DEADLOCK FALSE
