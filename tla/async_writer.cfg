SPECIFICATION Spec
CONSTANTS
    Jobs = {j1, j2}
    Workers = {w1, w2}
    Callers = {c1, c2}
    QueueSize = 1
INVARIANTS
    NoSendOnClosed
    FlushCovers
    CloseDrains
PROPERTIES
    CallsReturn
CHECK_DEADLOCK FALSE
