SPECIFICATION FairSpec
CONSTANTS
    Size = 5
    ReadSize = 2
    Aligned = 2
    Lens = {1, 2, 3, 5}
    SameWorker = TRUE
    MaxTotal = 13
    Readers = {r1, r2}
    r1 = r1
    r2 = r2
CHECK_DEADLOCK FALSE
INVARIANTS
    TypeOK
PROPERTIES
    ImplementsByteStream
    Drains
