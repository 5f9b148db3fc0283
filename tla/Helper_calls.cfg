\* Calls that answer, hang, never end, get lost or are refused, in the setup and in the
\* scans of a repeating run on a host with an NFS mount.
CONSTANTS
    MaxCalls = 3
    MaxFrames = 1
    MaxCycles = 2
    cap = 2
    Ops = {"list"}
    Fates = {"answers", "hangs", "never", "nonsense"}
    HasNFS = TRUE
    ThroughLoader = FALSE
SPECIFICATION FairSpec
INVARIANTS TypeOK OwnAnswer LeftBounded ScanSkipsHelpers
PROPERTIES RefusedOnlyWhileWaiting ExitEndsHelpers KeepsPromiseInTime
CHECK_DEADLOCK FALSE
