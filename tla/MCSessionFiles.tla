--------------------------- MODULE MCSessionFiles ---------------------------
EXTENDS SessionFiles, TLC
Alike == Permutations(Clients)
=============================================================================
