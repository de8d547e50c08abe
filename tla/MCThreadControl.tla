--------------------------- MODULE MCThreadControl ---------------------------
EXTENDS ThreadControl, TLC
=============================================================================
