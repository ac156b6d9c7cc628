SPECIFICATION FairSpec
CONSTANTS
    m1 = m1
    m2 = m2
    m3 = m3
    p1 = p1
    p2 = p2
    c1 = c1
    c2 = c2
    c3 = c3
    Message = {m1, m2, m3, p1, p2}
    Poison = {p1, p2}
    Consumers = {c1, c2, c3}
    MaxMessages = 2
CHECK_DEADLOCK FALSE
INVARIANTS
    TypeOK
    NoMissedWakeUp
    EachMessageOnce
PROPERTIES
    NotStarved
