\* Ticks of 20 s: rounds 40 s apart, HA every 60 s, a check every 60 s with a
\* window of 80 s.  The slow interval is scaled down.
SPECIFICATION Spec
CONSTANTS
    host = host
    edge = edge
    Nodes = {host, edge}
    EdgeNodes = {edge}
    Extras = {"segments", "nat"}
    Interval = 2
    SlowInterval = 5
    HAInterval = 3
    MaxCycle = 2
    MaxRound = 2
    Window = 4
    CheckPeriod = 3
INVARIANTS
    TypeOK
    Fresh
    
