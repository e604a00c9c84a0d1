SPECIFICATION BreakerSpec
CONSTANTS
    Goroutines = {g1, g2, g3}
    Threshold = 2
    Cooldown = 1
    MaxTime = 4
INVARIANTS
    SingleProbeUnlessStale
PROPERTIES
    TripsOnStreak
    HalfOpenEnds
