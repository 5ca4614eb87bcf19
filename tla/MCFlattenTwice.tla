--------------------------- MODULE MCFlattenTwice ---------------------------
EXTENDS FlattenTwice

MCS == 2
=============================================================================
