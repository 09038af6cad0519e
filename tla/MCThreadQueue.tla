--------------------------- MODULE MCThreadQueue ----------------------------
EXTENDS ThreadQueue

CONSTANTS p1, p2, worker, k1, k2, bad

=============================================================================
