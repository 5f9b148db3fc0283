CONSTANTS
    MaxMoves = 1
    MaxLinks = 3
    MAXSYMLINKS = 4
    MaxNum = 4
    Obj <- MCObj
    Tree <- MCTree
    Beginnings <- MCBeginnings
    Login <- MCLogin
    Host <- MCHost
    Service <- MCService
    Inet4 <- MCInet4
    Inet6 <- MCInet6
    Regex <- MCRegex
    HostName <- MCHostName
    Rpc <- MCRpc
    PORTTABTHRESH = 2
    Scenarios <- MCExcluded
SPECIFICATION FairSpec
INVARIANT ExclusionsHold
CHECK_DEADLOCK FALSE
