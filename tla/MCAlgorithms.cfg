SPECIFICATION Spec
CONSTANTS
    MaxStringSize = 11
    Lengths <- LengthsDef
    CodePoints <- CodePointsDef
    MaxFilter = 5
    MAX_SIZE = 3
    MaxChannelOps = 9
    SerialMod = 8
    MAX_LIMIT = 5
    MaxQueue = 4
INVARIANTS
    CodecRoundTrip
    StringsExact
    LookupExact
    RequestsWithinLimits
    ChannelKeepsNewest
    LoopComputesChoice
CHECK_DEADLOCK FALSE
