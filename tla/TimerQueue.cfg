CONSTANTS
    MaxTimers = 3
    K = 2
    When = {0, 1}
    MaxLag = 2
    EqualTimes = FALSE
SPECIFICATION FairSpec
INVARIANTS
    MapsAgree
    OwnedOnce
    ArmedInTime
    CancelledStaysOut
PROPERTY TimersExpire
