\* One try at a time, hosts that launch a job before a later sweep.  The model
\* ends with the last try.
CONSTANTS
    Hosts = {h1, h2}
    Dirs = {d1}
    NoHost = NoHost
    MaxTries = 2
    Kinds = {"defer", "sync", "local"}
    Overlap = FALSE
    InOrder = TRUE
SPECIFICATION Spec
CHECK_DEADLOCK FALSE
SYMMETRY ScopeSymmetry
INVARIANTS TypeOK AtMostOneAnalysis OnlyOwnDirectory NothingLeftBehind ReadsOwnOutput
PROPERTY IsAnalysisLifecycle
