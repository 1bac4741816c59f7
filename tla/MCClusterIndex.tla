--------------------------- MODULE MCClusterIndex ---------------------------
EXTENDS ClusterIndex, TLC

Symmetry == Permutations(Key) \cup Permutations(Version)
=============================================================================
