\* Every fault and mode; T1s move, leave and join; the site has other T0s.
SPECIFICATION Spec
CONSTANTS
    T1s = {1, 2, 3}
    Nodes = {1, 2}
    Size = 2
    Modes = {"auto", "hybrid", "pinned"}
    T1Names = {1, 2}
    Rank <- RankById
    Broken = {}
    OtherT0s = TRUE
    Faults = {"list", "load", "save", "fetch", "noactive", "outage", "crash"}
    MaxFaults = 1
    MaxMoves = 2
INVARIANTS
    TypeOK
    WatchlistFilled
    HealedInTime
    NoFalseFailover
    PinnedExact
PROPERTIES
    SubstitutedAfterTwo
