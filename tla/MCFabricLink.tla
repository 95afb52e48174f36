---------------------------- MODULE MCFabricLink ----------------------------
(* Model-checking instances of FabricLink.                                 *)
EXTENDS FabricLink, TLC

\* Safety does not tell the clients apart.
ClientSymmetry == Permutations(Clients)
=============================================================================
