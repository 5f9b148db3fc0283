CONSTANTS
    MaxAddrs = 3
    WORKERS = 2
    LOOKUP_TIMEOUT = 1
    PHASE_SLACK = 2
SPECIFICATION FairSpec
INVARIANTS TypeOK LookedUpOnce OwnNames NotCutOff
PROPERTY PhaseEnds
CHECK_DEADLOCK FALSE
