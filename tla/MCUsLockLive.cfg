CONSTANTS
    t1 = t1
    t2 = t2
    t3 = t3
    Threads = {t1, t2, t3}
    Uses = {{"readLock", "writeLock"}}
    MAX_NEW_READERS = 1
SPECIFICATION FairSpec
PROPERTIES WriterGetsLock ReaderGetsLock
