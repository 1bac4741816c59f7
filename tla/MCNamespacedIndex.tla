------------------------- MODULE MCNamespacedIndex -------------------------
EXTENDS NamespacedIndex, WatchSummary, TLC

Symmetry == Permutations(Version)

\* Two names in one namespace, one in another.
Lone == CHOOSE ns \in Namespace : TRUE
LoneName == CHOOSE n \in Name : TRUE
ThreeKeys == {k \in Namespace \X Name : k[1] = Lone => k[2] = LoneName}

\* The two in one namespace are created at once, the other later.
TwoAtOnce == [k \in Key |-> IF k[1] = Lone THEN 2 ELSE 1]
=============================================================================
