CONSTANTS
    t1 = t1
    t2 = t2
    Threads = {t1, t2}
    NTables = 2
    Uses <- CommitUses
    MaxCommits = 4
    MaxCrashes = 1
SPECIFICATION FairSpec
CHECK_DEADLOCK FALSE
INVARIANTS AcknowledgedSurvives AllOrNothingAlone
PROPERTIES CommitReturns
