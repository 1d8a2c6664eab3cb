SPECIFICATION Spec
CONSTANTS
    k1 = k1
    k2 = k2
    k3 = k3
    v1 = v1
    Keys = {k1, k2, k3}
    Viewers = {v1}
    KeyOf <- PlaysK1
    Sizes = {2, 3}
    Lens = {1, 2}
    ReadSize = 2
    Aligned = 1
    MaxStreams = 2
    MaxBytes = 5
    MaxTotal = 4
CHECK_DEADLOCK FALSE
INVARIANTS
    TypeOK
    CountBalanced
    CapsHold
    TsInfoPaired
PROPERTIES
    OwnRingSound
