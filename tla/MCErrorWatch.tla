---------------------------- MODULE MCErrorWatch ----------------------------
EXTENDS ErrorWatch, TLC

CONSTANTS i1, i2, c1, c2, none

Everything == Executions

\* Execution 2 of the first instance belongs to an environment nobody watches.
AllButOne == Executions \ {<<i1, 2>>}

Symmetry == Permutations({c1, c2})
=============================================================================
