------------------------ MODULE MCClusterCollection ------------------------
(* Three nodes and two kinds of objects.                                   *)
EXTENDS ClusterCollection, TLC
CONSTANTS n1, n2, n3, k1, k2
NamesDef == {n1, n2, n3}
KindsDef == {k1, k2}
Symmetry == Permutations(NamesDef) \cup Permutations(KindsDef)
=============================================================================
