CONSTANTS
    Ops = {reader, writer, shutdown}
    NoOp = NoOp
    MaxSlots = 4
SPECIFICATION FairSpec
INVARIANT MutualExclusion
PROPERTIES EveryRequestAnswered ImplementsFifoLock
