---------------------- MODULE MCUserSpaceReadWriteLock ----------------------
(* Model-checking instances of UserSpaceReadWriteLock.                     *)
EXTENDS UserSpaceReadWriteLock, TLC

\* Safety does not tell the threads apart.
ThreadSymmetry == Permutations(Threads)
=============================================================================
