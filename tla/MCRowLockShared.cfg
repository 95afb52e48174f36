CONSTANTS
    r1 = r1
    r2 = r2
    N = 3
    Rows = {r1}
    Uses <- AllRead
    DEFAULT_TRANSACTION_RETRY = 0
    DEFAULT_TRANSACTION_INFINITE = 4
SPECIFICATION Spec
CHECK_DEADLOCK FALSE
INVARIANTS RowExclusion
