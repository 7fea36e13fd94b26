CONSTANTS
    N = 3
    QosSet = {1, 2}
    MaxPid = 3
    SerialMod = 8
    FirstSerial = 6
    MAX_LIMIT = 9
    RecvMaxes = {1, 9}
    MaxConn = 2
    Faults = {"cancel_op"}
SPECIFICATION Spec
INVARIANT AckedMeansDelivered
CHECK_DEADLOCK FALSE
