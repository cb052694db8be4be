\* Four managers, a signal at any moment, workers that may hang.
SPECIFICATION FairSpec
CONSTANT Workers = {w1, w2, w3, w4}
INVARIANTS
    TypeOK
    NoOverlap
    RoundAccounted
    AtMostOneLateRound
PROPERTIES
    ShutdownReturns
    EveryWorkerRuns
\* An exited process takes no step.
CHECK_DEADLOCK FALSE
