\* A new try starts while the old worker lives.
CONSTANTS
    Hosts = {h1}
    Dirs = {d1}
    NoHost = NoHost
    MaxTries = 2
    Kinds = {"defer"}
    Overlap = TRUE
    InOrder = TRUE
SPECIFICATION Spec
CHECK_DEADLOCK FALSE
INVARIANT AtMostOneAnalysis
