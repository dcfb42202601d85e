------------------------- MODULE MCInputForwarding --------------------------
EXTENDS InputForwarding
=============================================================================
