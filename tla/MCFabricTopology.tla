-------------------------- MODULE MCFabricTopology --------------------------
(* Model-checking instances of FabricTopology.                             *)
EXTENDS FabricTopology

CONSTANTS a, b, c

\* One fabric with two peers.
Fork == {<<a, b>>, <<a, c>>}

\* Three fabrics, each a peer of the next.
Ring == {<<a, b>>, <<b, c>>, <<c, a>>}
=============================================================================
