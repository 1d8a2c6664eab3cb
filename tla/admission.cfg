SPECIFICATION Spec
CONSTANTS
    Conns = {c1, c2}
    Keys = {k1, k2}
    Ips = {i1, i2}
    Duration = 2
    NegDuration = 1
    Hold = 2
    Window = 1
    Requests = 1
    CacheCap = 1
    PendingCap = 2
    HeldCap = 2
    IpCap = 1
    AppLimit = 1
    KeyLimit = 2
    c1 = c1
    c2 = c2
    k1 = k1
    k2 = k2
    i1 = i1
    i2 = i2
SYMMETRY Sym
CHECK_DEADLOCK FALSE
INVARIANTS
    TypeOK
    OverrideLapses
    RateBudget
    HeldIsAsked
    HeldBounded
PROPERTIES
    RevokedKeyLapses
