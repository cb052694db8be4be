\* Hybrid mode: a pinned T1 that left and came back finds its slot taken.
SPECIFICATION FairSpec
CONSTANTS
    T1s = {1, 2, 3}
    Nodes = {1, 2}
    Size = 2
    Modes = {"hybrid"}
    T1Names = {1, 2}
    Rank <- RankById
    Broken = {}
    OtherT0s = FALSE
    Faults = {}
    MaxFaults = 0
    MaxMoves = 2
PROPERTY
    PinnedComesBack
