------------------------------ MODULE MCLease ------------------------------
EXTENDS LeaseInvariant, TLC

SameClock == [c \in Claimant |-> 0]

\* One clock is MaxSkew ahead of the others.
OneAhead == LET fast == CHOOSE c \in Claimant : TRUE
            IN [c \in Claimant |-> IF c = fast THEN MaxSkew ELSE 0]

Symmetry == Permutations(Claimant)
=============================================================================
