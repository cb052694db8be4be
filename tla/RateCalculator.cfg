\* A counter of 10 values at one byte per tick, any order of polls and restarts.
SPECIFICATION Spec
CONSTANTS
    Width = 10
    MinElapsed = 1
    StaleAfter = 1
    MaxRate = 2
    LineRate = 1
    SpeedKnown = TRUE
    MaxElapsed = 2
    MaxBehind = 9
INVARIANT
    TypeOK
PROPERTIES
    RateTruthful
    SpikesOnlyAfterStale
