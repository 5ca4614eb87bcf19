----------------------------- MODULE MCFlatten -----------------------------
EXTENDS Flatten

MCS == 4
=============================================================================
