\* A stopped job counts until it has exited.
CONSTANTS
    Hosts = {h1}
    Dirs = {d1}
    NoHost = NoHost
    MaxTries = 2
    Kinds = {"defer"}
    Overlap = FALSE
    InOrder = TRUE
SPECIFICATION Spec
CHECK_DEADLOCK FALSE
INVARIANT NeverMoreThanOneAnalysis
