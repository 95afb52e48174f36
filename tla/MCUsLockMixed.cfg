CONSTANTS
    t1 = t1
    t2 = t2
    t3 = t3
    Threads = {t1, t2, t3}
    Uses = {{"readLock", "tryReadLock", "writeLock", "tryWriteLock"}}
    MAX_NEW_READERS = 1
SPECIFICATION Spec
SYMMETRY ThreadSymmetry
INVARIANTS MutualExclusion
