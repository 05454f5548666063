--------------------------- MODULE MCRestoreDrill ---------------------------
EXTENDS RestoreDrill
CONSTANTS d1, d2, r1, r2, p1, p2
============================================================================
