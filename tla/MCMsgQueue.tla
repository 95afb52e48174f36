----------------------------- MODULE MCMsgQueue -----------------------------
(* Model-checking instances of MsgQueue.                                   *)
EXTENDS MsgQueue
=============================================================================
