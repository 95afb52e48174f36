--------------------------- MODULE MCAtomicCommit ---------------------------
(* Model-checking instances of AtomicCommit.                               *)
EXTENDS AtomicCommit

CONSTANTS t1, t2

Use(of1, of2, fault, trtSize) ==
    [tables |-> [t \in Threads |-> IF t = t1 THEN of1 ELSE of2],
     fault |-> fault, trtSize |-> trtSize]

One == {{1}, {2}}
Both == {{1, 2}}

\* A thread that commits over both tables beside one that commits to a single
\* one, with a deep.trt that wraps, and two that do both, with one that does not;
\* with either kind of crash.
CommitUses ==
    {Use(Both, One, fault, 1) : fault \in {"process", "machine"}}
        \cup {Use(Both \cup One, Both \cup One, fault, MaxCommits) :
                fault \in {"process", "machine"}}

\* Two threads that commit over both tables.
Overlapping == {Use(Both, Both, "process", 1)}
=============================================================================
