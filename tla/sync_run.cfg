\* The model ends with the worker and its CLIs.
SPECIFICATION FairSpec
CHECK_DEADLOCK FALSE
INVARIANTS TypeOK KilledAnalysisStops HoldsOneRun OneCliAtATime StrangersUntouched
PROPERTY AnalysisEnds
