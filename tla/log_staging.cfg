\* The model ends with the last run.
CONSTANTS
    MaxRuns = 2
    Logs = {l1, l2}
    Names = {n1, n2}
    Dirs = {d1}
    NoDir = NoDir
    MaxSegs = 2
SPECIFICATION Spec
SYMMETRY Symmetry
CHECK_DEADLOCK FALSE
INVARIANTS TypeOK ReadsOwnLogs BaselineIsNotTheCopy TempDirsRemoved 
