CONSTANTS
    t1 = t1
    t2 = t2
    Threads = {t1, t2}
    NTables = 2
    Uses <- Overlapping
    MaxCommits = 2
    MaxCrashes = 2
SPECIFICATION Spec
CHECK_DEADLOCK FALSE
INVARIANTS AcknowledgedSurvives
