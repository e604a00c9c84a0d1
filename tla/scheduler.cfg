SPECIFICATION Spec
CONSTANTS
    Entries <- MCEntries
    Names <- MCNames
    JobName <- MCJobName
    Interval <- MCInterval
    At <- MCAt
    Limit = 1
    Idle = 9
    MaxTime = 2
    MaxCalls = 1
INVARIANTS
    NoOverlap
    InFlightCounted
PROPERTIES
    PacedRuns
    LoopServes
CHECK_DEADLOCK FALSE
