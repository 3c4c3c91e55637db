CONSTANTS
    Channel = {c1, c2, c3}
    Fd = {f1, f2}
SPECIFICATION Spec
INVARIANTS
    MapHoldsRegistered
    InterestNeverStale
    PointersAreAlive
