CONSTANTS
    LoopThread = loop
    Other = other
    MaxSends = 2
    MsgLen = 2
    Room = 3
    FdOutcomes = {"own", "other", "none"}
SPECIFICATION FairSpec
INVARIANTS
    TypeOK
    WritingIffOutput
    FinAfterWrites
    SenderOrder
PROPERTIES
    ImplementsByteStream
    OutputDrains
    ShutdownHappens
CHECK_DEADLOCK FALSE
