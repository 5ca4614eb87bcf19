---------------------------- MODULE MCTypeNames ----------------------------
EXTENDS TypeNames

CONSTANTS foo, bar

MCBases == {foo, bar}
MCK == 4

=============================================================================
