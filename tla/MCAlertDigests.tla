--------------------------- MODULE MCAlertDigests ---------------------------
EXTENDS AlertDigests

CONSTANTS g1, g2, ch1, ch2, a1, a2, f1, f2, none
=============================================================================
