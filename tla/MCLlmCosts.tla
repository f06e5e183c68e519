----------------------------- MODULE MCLlmCosts -----------------------------
EXTENDS LlmCosts, TLC

CONSTANTS i1, i2, p1, p2, f1, f2
=============================================================================
