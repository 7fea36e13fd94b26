SPECIFICATION Spec
CONSTANTS
    Packets <- PacketsDef
    Undecodable <- UndecodableDef
    MaxPacket = 6
    MaxSent = 3
    MaxConn = 1
INVARIANTS
    FramesWhole
    NoPacketLeft
    ReadHasRoom
PROPERTIES
    ReadsAgain
CHECK_DEADLOCK FALSE
