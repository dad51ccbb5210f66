SPECIFICATION Spec
CONSTANTS
    Jobs = {j1, j2}
    Workers = {w1, w2}
    Cancellers = {c1, c2}
    MaxCrashes = 1
    None = None
SYMMETRY Symmetry
INVARIANTS ExecutedOnce CancelledInQueueNeverRuns StatusIsTrue
PROPERTIES RefinesLifecycle
