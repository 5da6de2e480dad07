------------------------- MODULE MCSceneReplication -------------------------
EXTENDS SceneReplication

CONSTANTS n1, n2

\* n1 is a child of the scene, n2 a child of n1.
MCNodes == {n1, n2}
MCParent == [n \in MCNodes |-> IF n = n2 THEN n1 ELSE NoNode]
=============================================================================
