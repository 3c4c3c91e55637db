CONSTANTS
    Threads = 2
    MaxQueue = 2
    Producer = {p1}
    Task = {a, b, c, d, m, n}
    Nested = {m, n}
    Starts = 1
SPECIFICATION FairSpec
INVARIANTS
    TakersCoverQueue
    AddersCoverSpace
PROPERTIES
    TasksRun
    AddTaskReturns
    StopReturns
CHECK_DEADLOCK FALSE
