\* Two T1s, a VRF and a plain T0, every kind of fault.
SPECIFICATION FairSpec
CONSTANTS
    T1s = {t1, t2}
    Parents = {v1, p1}
    Vrfs = {v1}
    Clusters = {c1}
    NoCluster = NoCluster
    Absent = Absent
    SlackEnabled = TRUE
    Faults = {"list", "load", "save", "post", "write", "crash"}
    MaxFaults = 2
    MaxChanges = 3
INVARIANTS
    TypeOK
    AtMostOncePerChange
    NoPhantomReport
    LossesAccounted
PROPERTIES
    KeepsJournal
    SnapshotConverges
