\* A listed T1 whose status call always fails.
SPECIFICATION FairSpec
CONSTANTS
    T1s = {1, 2, 3}
    Nodes = {1}
    Size = 2
    Modes = {"auto"}
    T1Names = {}
    Rank <- RankById
    Broken = {1}
    OtherT0s = FALSE
    Faults = {}
    MaxFaults = 0
    MaxMoves = 0
PROPERTY
    BrokenSubstituted
