CONSTANTS
    N = 3
    QosSet = {0, 1, 2}
    MaxPid = 2
    MaxConn = 3
    Faults = {"session_lost", "malformed"}
    PartialWrites = FALSE
    Prompt = TRUE
SPECIFICATION FairSpec
INVARIANTS  ReleasedBeforeStored 
 
CHECK_DEADLOCK FALSE
