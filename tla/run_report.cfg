\* The model ends with the last try.
CONSTANT MaxTries = 2
SPECIFICATION Spec
CHECK_DEADLOCK FALSE
INVARIANTS TypeOK ViolationFailsTheTask ReportIsPublished VerdictHasALink StagedLogsRemoved FinalFailuresAreFinal SameAsSynchronous
