\* The model ends with the deferral.
CONSTANTS
    Grace = 3
    CommandTimeout = 2
    Timeouts = {1, 3}
    Polls = {2, 4}
    Limits = {2, 6, 12}
    NoLimit = NoLimit
    MaxSubmit = 9
SPECIFICATION Spec
CHECK_DEADLOCK FALSE
INVARIANTS TypeOK JobHasItsTime FinishedJobIsSeen GivesUpInTime EndsWithinLimit
