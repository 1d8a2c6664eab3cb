SPECIFICATION FairESpec
CONSTANTS
    Size = 4
    ReadSize = 2
    Aligned = 1
    Lens = {1, 2}
    SameWorker = TRUE
    MaxTotal = 6
    v = v
    Readers = {v}
    Viewer = v
    Batches = 2
    SendBuffer = 2
    StuckTimeout = 1
CHECK_DEADLOCK FALSE
INVARIANTS
    ETypeOK
    RingHoldsTail
    InOrder
    ResyncOnlyRingBehind
    WireIsStream
    OnlyStuckAreCut
PROPERTIES
    NoZombie
