---------------------------- MODULE MCPromotion ----------------------------
(* A small chain of environments for TLC. *)
EXTENDS Promotion, TLC

CONSTANTS c1, c2

TheWorkflows == Families \X Envs

Asks(from, to, through, cascade, confirm, force) ==
    [from |-> from, to |-> to, through |-> through, cascade |-> cascade, confirm |-> confirm, force |-> force]

\* A step of the chain; over a step with every option.
Routes ==
    {Asks(1, 2, FALSE, TRUE, FALSE, FALSE), Asks(1, 3, FALSE, FALSE, TRUE, TRUE)}
        \union {Asks(1, 3, TRUE, cascade, FALSE, FALSE) : cascade \in BOOLEAN}

With(mode, calls, clash, present, closed) ==
    [mode |-> mode, calls |-> calls, clash |-> clash,
     live |-> [w \in TheWorkflows |-> IF w \in present THEN 1 ELSE 0], locked |-> closed]

\* A caller and its sub-workflow at the root; an older copy in production;
\* somebody holds the URL of the caller, or of its sub-workflow, in between.
Situations ==
    LET present == {Main(1), Sub(1), Main(3), Sub(3), Holder(2)} IN
    {With("block", TRUE, "main", present, {Holder(2)}), With("warn", TRUE, "sub", present, {Main(3)}),
     With("block", TRUE, "sub", present \ {Sub(3)}, {Holder(2)})}

Bounds(edits, locks, outages, restarts) ==
    [promotion |-> 2, edit |-> edits, lock |-> locks, outage |-> outages, restart |-> restarts]

OneEvent == {Bounds(1, 0, 0, 0), Bounds(0, 1, 0, 0), Bounds(0, 0, 1, 0), Bounds(0, 0, 0, 1)}

Symmetry == Permutations({c1, c2})
=============================================================================
