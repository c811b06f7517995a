\* The model ends when every call is over.
CONSTANTS
    c1 = c1
    c2 = c2
    c3 = c3
    p1 = p1
    p2 = p2
    Calls = {c1, c2, c3}
    Procs = {p1, p2}
    ProcOf <- Caller
    Readers = {r1}
    Length = 2
    NoReport = NoReport
SPECIFICATION Spec
CHECK_DEADLOCK FALSE
INVARIANTS TypeOK ReportsAreWhole ReadersAreLetIn NeverWorldWritable TempFilesRemoved
PROPERTY IsReportStore
