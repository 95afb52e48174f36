CONSTANTS
    t1 = t1
    t2 = t2
    t3 = t3
    Threads = {t1, t2, t3}
    MAX = 2
SPECIFICATION FairSpec
INVARIANTS TypeOK MutualExclusion SlotsAccounted
PROPERTIES WriterGetsLock
