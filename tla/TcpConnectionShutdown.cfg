CONSTANTS
    LoopThread = loop
    Other = other
    MaxSends = 2
    MsgLen = 2
    Room = 2
    FdOutcomes = {"own"}
SPECIFICATION Spec
INVARIANT ShutdownKeepsData
CHECK_DEADLOCK FALSE
