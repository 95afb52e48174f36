-------------------------- MODULE MCFileReplication --------------------------
(* Model-checking instances of FileReplication.                            *)
EXTENDS FileReplication

\* Files that are empty, end within a bundle, with a bundle, and just after one; a
\* queue with room for one bundle of each transfer, and one without; a destination
\* that is removed, or is not and holds nothing, or a longer file.
TransferUses ==
    {[blocks |-> n, old |-> d.more * (n + 1), queueSize |-> q * FILE_BUNDLE_SIZE, ups |-> u,
      shared |-> d.shared] :
        n \in {0, FILE_BUNDLE_SIZE - 1, FILE_BUNDLE_SIZE, FILE_BUNDLE_SIZE + 1,
               2 * FILE_BUNDLE_SIZE},
        q \in 1..3, u \in 1..3,
        d \in {[shared |-> TRUE, more |-> 1], [shared |-> FALSE, more |-> 0],
               [shared |-> FALSE, more |-> 1]}}

\* The sizes of the code: a queue of 16384 and bundles of 10000.
CodeUses ==
    {[blocks |-> 2 * FILE_BUNDLE_SIZE, old |-> 0, queueSize |-> FILE_BUNDLE_SIZE + 1, ups |-> 2,
      shared |-> FALSE]}

\* Two UPs on one host, with room for both transfers.
OneHostUses ==
    {[blocks |-> 2, old |-> 0, queueSize |-> 2 * FILE_BUNDLE_SIZE, ups |-> 2, shared |-> TRUE]}

\* One transfer to another host, where a longer file is.
OldFileUses ==
    {[blocks |-> 2, old |-> 3, queueSize |-> FILE_BUNDLE_SIZE, ups |-> 1, shared |-> FALSE]}
=============================================================================
