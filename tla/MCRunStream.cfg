SPECIFICATION StreamFairSpec
CONSTANTS
    MaxSteps = 2
    MaxCalls = 2
    Backlog = 3
INVARIANTS NoRunOutlivesItsStream ResultIsTheOutcome CancelIsHeard
PROPERTIES StreamEnds
CHECK_DEADLOCK FALSE
