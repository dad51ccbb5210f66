SPECIFICATION Spec
CONSTANTS
    Names = {1}
    MaxWorkers = 1
    MaxRuns = 1
CHECK_DEADLOCK FALSE
PROPERTIES MergedRunLosesNothing
