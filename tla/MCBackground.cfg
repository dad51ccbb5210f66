SPECIFICATION FairSpec
CONSTANTS
    Jobs = {j1, j2}
    Workers = {w1, w2}
    Cancellers = {c1}
    MaxCrashes = 1
    None = None
    RoutineIds = {r1, r2}
    RoutineWorkers = {w1, w2}
    User = user
    Absent = absent
    Torn = torn
    MaxTime = 1
    MaxFaults = 1
    MaxEdits = 2
    Procs = {p, q}
    Roles = {a}
    Cap = 2
    Enough = 1
    MaxEpisodes = 3
    MaxRuns = 2
CHECK_DEADLOCK FALSE
INVARIANTS FiresOnce CountsAreExact
PROPERTIES QueuedSettles DueIsServed
