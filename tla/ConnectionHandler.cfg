\* Every script of three requests, cut anywhere, with FIN, resets and idle sweeps.
CONSTANTS
    MaxRequests = 3
    Scripts <- AllScripts
    RequestUnits = 2
    ResponseUnits = 3
    SndBuf = 2
    IdleTimeout = 1
    TimePasses = TRUE
    MayFin = TRUE
    MayReset = TRUE
SPECIFICATION FairSpec
INVARIANTS TypeOK NothingCompleteLeftBehind NothingAfterLast ServedCompletely
PROPERTIES AllAnswered
CHECK_DEADLOCK FALSE
