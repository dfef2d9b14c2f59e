--------------------------- MODULE MCTaskCoherence ---------------------------
EXTENDS TaskCoherence, TLC

CONSTANT u1

OneOwner == [t \in Tasks |-> u1]
Symmetry == Permutations(Clients)
=============================================================================
