CONSTANTS
    Owner = owner
    Creator = a
    Others = {a, b}
    Task = {x, y, z}
    EarlyTask = {x}
SPECIFICATION FairThreadSpec
INVARIANTS
    ThreadTypeOK
    NoLostWakeup
    HolderIsOwner
    HandsOverLiveLoop
PROPERTIES
    ImplementsTaskQueue
    TasksServedPromptly
    TasksDoNotStarveIo
    StartReturns
    JoinReturns
CHECK_DEADLOCK FALSE
