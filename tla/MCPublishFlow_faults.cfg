CONSTANTS
    N = 2
    QosSet = {0, 1, 2}
    MaxPid = 2
    SerialMod = 8
    FirstSerial = 6
    MAX_LIMIT = 9
    RecvMaxes = {1}
    MaxConn = 3
    Faults = {"error", "malformed", "sentry"}
SPECIFICATION FairSpec
INVARIANT ExactlyOnce
PROPERTY EveryPublishCompletes
CHECK_DEADLOCK FALSE
