SPECIFICATION Spec
CONSTANTS
    k1 = k1
    v1 = v1
    k2 = k2
    k3 = k3
    Keys = {k1}
    Viewers = {v1}
    KeyOf <- PlaysK1
    Sizes = {3}
    Lens = {1, 2}
    ReadSize = 2
    Aligned = 1
    MaxStreams = 0
    MaxBytes = 0
    MaxTotal = 4
CHECK_DEADLOCK FALSE
INVARIANTS
    HandsWritten
