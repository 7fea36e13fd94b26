CONSTANTS
    N = 2
    QosSet = {0, 1, 2}
    MaxPid = 2
    SerialMod = 8
    FirstSerial = 6
    MAX_LIMIT = 9
    RecvMaxes = {1, 9}
    MaxConn = 2
    Faults = {"cancel", "cancel_op", "malformed"}
SPECIFICATION FairSpec
PROPERTY CompletesUnlessStranded
CHECK_DEADLOCK FALSE
