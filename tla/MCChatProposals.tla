-------------------------- MODULE MCChatProposals --------------------------
EXTENDS ChatProposals, TLC

CONSTANTS w1, w2, w3, c1, c2

\* The root and a sub-workflow.
Split == [root |-> w1, touchesRoot |-> TRUE, parts |-> {w2}, governed |-> {}]

\* Two sub-workflows, not the root.
PartsOnly == [Split EXCEPT !.touchesRoot = FALSE, !.parts = {w2, w3}]

\* The sub-workflow is in an environment that receives promotions only.
Downstream == [Split EXCEPT !.governed = {w2}]

SomeProposals == {Split, PartsOnly, Downstream}

Symmetry == Permutations({c1, c2})
=============================================================================
