SPECIFICATION Spec
CONSTANTS
    Size = 4
    ReadSize = 1
    Aligned = 0
    Lens = {1, 2, 3}
    SameWorker = TRUE
    MaxTotal = 12
    Readers = {r1}
    r1 = r1
CHECK_DEADLOCK FALSE
INVARIANTS
    OverrunDetected
