------------------------- MODULE MCLeaseDiagnostics -------------------------
EXTENDS LeaseDiagnostics

SameClock == [c \in Claimant |-> 0]
=============================================================================
