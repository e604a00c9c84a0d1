SPECIFICATION Spec
CONSTANTS
    Callers = {g1, g2, g3}
    Capacity = 2
    MaxCalls = 1
INVARIANTS
    PermitsConserved
    NoLostWakeup
PROPERTIES
    AcquireReturns
    ImplementsLimiter
CHECK_DEADLOCK FALSE
