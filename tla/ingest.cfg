SPECIFICATION Spec
CONSTANTS
    Window = 3
    MinWindow = 2
    Gate = 3
    Threshold = 3
    Spike = 2
    MaxPacket = 3
    Ids = {p1, p2, p3}
    Id = p1
    RejectTtl = 2
    MaxRejects = 2
    FirstData = 3
    IdleTimeout = 4
    p1 = p1
    p2 = p2
    p3 = p3
SYMMETRY Sym
CHECK_DEADLOCK FALSE
INVARIANTS
    TypeOK
    NoRingUnanswered
    CloseOnce
    BlockedByDenial
    HonestNotCut
    AbuseIsCut
