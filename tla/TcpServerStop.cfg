SPECIFICATION StopSpec
CONSTANTS
    Conn = {c1}
    IoLoop = {io1, io2}
    Main = main
    InCallback = {}
    Foreign = {}
    DropsEarly = FALSE
    Busy = {}
    MaxTasks = 2
INVARIANT DestroyedByTheirLoop
CHECK_DEADLOCK FALSE
