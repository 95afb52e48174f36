--------------------- MODULE MCLwUserSpaceReadWriteLock ---------------------
(* Model-checking instance of LwUserSpaceReadWriteLock.  Its run checks a  *)
(* liveness property too, so it uses no symmetry.                          *)
EXTENDS LwUserSpaceReadWriteLock
=============================================================================
