CONSTANTS
    N = 3
    QosSet = {0, 1, 2}
    MaxPid = 2
    SerialMod = 8
    FirstSerial = 6
    MAX_LIMIT = 9
    RecvMaxes = {1, 9}
    MaxConn = 2
    Faults = {"session_lost", "invalid"}
SPECIFICATION Spec
INVARIANTS
    AckedMeansDelivered
    ReceiveMaximum
    InOrder
    SentOncePerConnection
    OneWayOn
PROPERTY ImplementsWindow
CHECK_DEADLOCK FALSE
