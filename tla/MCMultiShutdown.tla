--------------------------- MODULE MCMultiShutdown ----------------------------
EXTENDS MultiShutdown
CONSTANTS p1, p2
=============================================================================
