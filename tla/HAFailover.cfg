\* Whole-cluster failovers with every fault, writes and restarts included.
SPECIFICATION FeedSpec
CONSTANTS
    T1s = {1, 2, 3, 4}
    Nodes = {1, 2}
    Size = 3
    Modes = {"auto"}
    T1Names = {}
    Rank <- RankById
    Broken = {}
    OtherT0s = FALSE
    Faults = {"list", "load", "save", "fetch", "noactive", "outage", "crash", "write"}
    MaxFaults = 2
    MaxMoves = 0
INVARIANTS
    FeedTypeOK
    SeenIsTold
PROPERTIES
    FailoverTold
