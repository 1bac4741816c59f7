---------------------------- MODULE MCLeaseTask ----------------------------
EXTENDS LeaseTaskInvariant, TLC

SameClock == [c \in Claimant |-> 0]

Symmetry == Permutations(Claimant)
=============================================================================
