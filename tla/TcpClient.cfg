CONSTANTS
    MaxConnects = 1
    MaxStops = 1
    MaxFailures = 3
SPECIFICATION FairSpec
INVARIANTS
    NoAssertFails
    OpenIsOwned
    OneAttempt
PROPERTY GetsConnected
CHECK_DEADLOCK FALSE
