\* A cleanup() may raise. The model ends with the last try.
CONSTANT MaxTries = 2
SPECIFICATION Spec
CHECK_DEADLOCK FALSE
INVARIANT BreachIsNeverRetried
