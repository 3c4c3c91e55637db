SPECIFICATION FairSpec
CONSTANTS
    Conn = {c1, c2}
    IoLoop = {io}
    Main = main
    InCallback = {"keep", "shutdown", "force_close", "send"}
    Foreign = {"force_close"}
    DropsEarly = FALSE
    Busy = {c1}
    MaxTasks = 1
INVARIANTS NoAssertFails InUseIsAlive
PROPERTY ClosedIsReleased
