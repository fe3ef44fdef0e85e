\* Pipelined requests followed by a FIN.
CONSTANTS
    MaxRequests = 3
    Scripts <- KeepScripts
    RequestUnits = 2
    ResponseUnits = 3
    SndBuf = 2
    IdleTimeout = 1
    TimePasses = FALSE
    MayFin = TRUE
    MayReset = FALSE
SPECIFICATION Spec
INVARIANT PipelinedAnswered
CHECK_DEADLOCK FALSE
