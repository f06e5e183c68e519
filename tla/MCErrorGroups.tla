--------------------------- MODULE MCErrorGroups ---------------------------
(***************************************************************************)
(* Small instances of ErrorGroups for TLC.  The .cfg files choose how many *)
(* calls run at once and what else happens meanwhile.                      *)
(***************************************************************************)
EXTENDS ErrorGroups, TLC

CONSTANTS e1, e2, e3, d1, d2, w1, w2, none

\* Two executions fail for the same reason, the second one later.
TwoOfAKind == e1 :> d1 @@ e2 :> d1
OneLater == e1 :> 0 @@ e2 :> 1

\* A third one fails for another reason.
OneApart == TwoOfAKind @@ e3 :> d2
MiddleLater == OneLater @@ e3 :> 0

\* The calls are interchangeable.
Symmetry == Permutations({w1, w2})
=============================================================================
