--------------------------- MODULE MCGenTopoSort ---------------------------
EXTENDS GenTopoSort

MCN == 4
=============================================================================
