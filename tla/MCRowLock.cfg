CONSTANTS
    r1 = r1
    r2 = r2
    N = 3
    Rows = {r1, r2}
    Uses <- AtMostTwoReaders
    DEFAULT_TRANSACTION_RETRY = 0
    DEFAULT_TRANSACTION_INFINITE = 4
SPECIFICATION Spec
SYMMETRY RowSymmetry
CHECK_DEADLOCK FALSE
INVARIANTS RowExclusion SharedAccounted NoSleepingCycle NoLostWakeup
