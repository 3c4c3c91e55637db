CONSTANTS
    Channel = {c1}
    Fd = {f1}
SPECIFICATION Spec
INVARIANT AskedIsWatched
