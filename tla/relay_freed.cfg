SPECIFICATION Spec
CONSTANTS
    Workers = {w1, w2}
    Home = w1
    Upstreams = 2
    Pushers = {p1, p2, p3}
    Interval = 1
    w1 = w1
    w2 = w2
    p1 = p1
    p2 = p2
    p3 = p3
CHECK_DEADLOCK FALSE
INVARIANTS
    NoFreedManager
