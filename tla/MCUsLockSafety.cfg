CONSTANTS
    t1 = t1
    t2 = t2
    t3 = t3
    t4 = t4
    Threads = {t1, t2, t3, t4}
    Uses = {{"readLock", "tryReadLock", "writeLock"}, {"readLock", "tryReadLock", "tryWriteLock"}}
    MAX_NEW_READERS = 1
SPECIFICATION Spec
SYMMETRY ThreadSymmetry
INVARIANTS TypeOK MutualExclusion WriterFlagOwned NoUnlockChase
