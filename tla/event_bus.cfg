SPECIFICATION Spec
CONSTANTS
    s1 = s1
    s2 = s2
    p1 = p1
    p2 = p2
    c1 = c1
    c2 = c2
    Subs = {s1, s2}
    Publishers = {p1, p2}
    Closers = {c1, c2}
    BufferSize = 1
    MaxEvents = 2
    Loads <- MCLoads
INVARIANTS
    Delivery
    MissesCounted
    CloseDrains
PROPERTIES
    CallsReturn
CHECK_DEADLOCK FALSE
