--------------------------- MODULE MCTasksService ---------------------------
EXTENDS TasksService, TLC

CONSTANT u1

\* All tasks belong to one user.
OneOwner == [t \in Tasks |-> u1]
Symmetry == Permutations(Clients)
=============================================================================
