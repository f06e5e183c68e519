-------------------------- MODULE MCWorkflowMirror --------------------------
EXTENDS WorkflowMirror, TLC

CONSTANTS w1, w2, c1, c2, j1, j2, none
=============================================================================
