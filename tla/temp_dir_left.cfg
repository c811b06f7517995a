\* The model ends with the last run.
CONSTANTS
    MaxRuns = 1
    Logs = {l1, l2}
    Names = {n1, n2}
    Dirs = {d1}
    NoDir = NoDir
    MaxSegs = 2
SPECIFICATION Spec
CHECK_DEADLOCK FALSE
INVARIANT NoTempDirLeft
