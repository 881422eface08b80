--------------------------- MODULE MCReviewQueue ---------------------------
EXTENDS ReviewQueueProps, TLC
CONSTANTS s1, s2, q1, q2
Symmetry == Permutations(Sessions) \cup Permutations(Requests)
=============================================================================
