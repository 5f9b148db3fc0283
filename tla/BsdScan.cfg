CONSTANTS
    MaxMoves = 1
    MaxLinks = 3
    MAXSYMLINKS = 4
    MaxOverlaid = 3
    FILEPORTS_INCR = 2
    THREADS_INCR = 8
    ThreadSize = 4
    MaxRegions = 4
    Obj <- MCObj
    Tree <- MCTree
    Beginnings <- MCBeginnings
    Scenarios <- MCScenarios
SPECIFICATION FairSpec
INVARIANTS ListedExactly Coherent ExitCodeTells
PROPERTIES Terminates
CHECK_DEADLOCK FALSE
