SPECIFICATION FairSpec
CONSTANTS
    Workers = {w1, w2}
    Pubs = {p1}
    Pulls = {q1}
    Capacity = 1
    NoRole = NoRole
    w1 = w1
    w2 = w2
    p1 = p1
    q1 = q1
CHECK_DEADLOCK FALSE
PROPERTIES
    KeyReleased
