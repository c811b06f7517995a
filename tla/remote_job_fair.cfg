\* A new try may start while an old worker lives.
\* The model ends with the last try.
CONSTANTS
    Hosts = {h1}
    Dirs = {d1}
    NoHost = NoHost
    MaxTries = 2
    Kinds = {"defer", "sync"}
    Overlap = TRUE
    InOrder = TRUE
SPECIFICATION FairSpec
CHECK_DEADLOCK FALSE
INVARIANT NothingLeftBehind
PROPERTIES StoppedByOthersOnly EveryTryEnds
