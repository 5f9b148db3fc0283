\* Two scans of a repeating run: the list of helpers is made once, before the first.
CONSTANTS
    MaxCalls = 3
    MaxFrames = 1
    MaxCycles = 2
    cap = 2
    Ops = {"stat"}
    Fates = {"answers", "never"}
    HasNFS = TRUE
    ThroughLoader = FALSE
SPECIFICATION Spec
PROPERTY ListedAreHelpers
CHECK_DEADLOCK FALSE
