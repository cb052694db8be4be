\* Two sites with an interface key in common; calls, posts and rates that fail.
SPECIFICATION FairSpec
CONSTANTS
    w1 = w1
    w2 = w2
    shared = shared
    own = own
    Workers = {w1, w2}
    Interfaces = {shared, own}
    Sees <- SharedKey
    Cooldown = 3
    QueryLimit = 1
    Faults = {"rate", "query", "post"}
    MaxFaults = 2
    MaxSwings = 2
INVARIANT
    TypeOK
PROPERTIES
    AlertsSpaced
    SaturationAlerted
