--------------------------- MODULE MCDatabasePool ---------------------------
EXTENDS DatabasePool, TLC

CONSTANTS t1, t2, t3, c1, c2, c3, c4, c5
Symmetry == Permutations(Threads) \cup Permutations(Clients)
=============================================================================
