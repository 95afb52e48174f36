------------------------------ MODULE MCRowLock ------------------------------
(* Model-checking instances of RowLock.                                     *)
EXTENDS RowLock, TLC

CONSTANTS r1, r2

Use(ops, runs) == [ops |-> ops, runs |-> runs]

\* Two transactions that read and write what they commit, and a third that
\* only writes.
Readers2 == [t \in Tx |-> Use(IF t <= 2 THEN {"LOCK_READ", "put"} ELSE {"put"}, 1)]

\* Two connections whose transactions also lock rows without changing them and
\* roll back, one after the other, and that disconnect.
Writers2 == [t \in Tx |-> IF t <= 2 THEN Use({"LOCK_WRITE", "put", "rollback", "destroy"}, 2)
                                    ELSE Use({}, 0)]

AtMostTwoReaders == {Readers2, Writers2}

\* Everybody reads and writes.
AllRead == {[t \in Tx |-> Use({"LOCK_READ", "put"}, 2)]}

\* Rows are locked for writing and not changed, and read later.
LockOnly == {[t \in Tx |-> Use({"LOCK_READ", "LOCK_WRITE"}, 2)]}

RowSymmetry == Permutations(Rows)
=============================================================================
