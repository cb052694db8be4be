\* A signal in mid-round.
SPECIFICATION Spec
CONSTANT Workers = {w1, w2}
INVARIANT ShutdownDrains
CHECK_DEADLOCK FALSE
