SPECIFICATION Spec
CONSTANTS
    KeepAlives = {0}
    ServerKeepAlives = {1}
    MaxServices = 2
    MaxRuns = 2
    RunsAtOnce = FALSE
INVARIANTS
    PingTimerCurrent
    NoStrandedReceive
PROPERTIES
    
    DisconnectEnds
CHECK_DEADLOCK FALSE
