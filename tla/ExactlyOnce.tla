----------------------------- MODULE ExactlyOnce -----------------------------
(***************************************************************************)
(* What the error watch promises: "the cursor signals each error exactly   *)
(* once" (docs/conception-error-watch.md).  Items fail, a signal carries   *)
(* a set of failed items, and no failed item that is due stays without a   *)
(* signal, unless it is released.  A signal that may not have been         *)
(* recorded is doubtful: only such an item may be carried again.           *)
(***************************************************************************)
EXTENDS Integers

CONSTANT Items

VARIABLES
    failed,    \* the items that failed
    due,       \* those of them that must be signalled
    signals,   \* how many signals carried each item
    doubtful,  \* the items a later signal may carry again
    released   \* the items nobody has to signal any more, for now or for good

vars == <<failed, due, signals, doubtful>>

Init ==
    /\ failed = {}
    /\ due = {}
    /\ signals = [x \in Items |-> 0]
    /\ doubtful = {}

Fail(x) ==
    /\ x \in Items \ failed
    /\ failed' = failed \union {x}
    /\ due' \in {due, due \union {x}}
    /\ UNCHANGED <<signals, doubtful>>

\* Doubt never goes away, and concerns only what was signalled.
Doubts == doubtful \subseteq doubtful' /\ \A x \in doubtful' : signals'[x] > 0

Signal(fresh) ==
    /\ fresh # {}
    /\ \A x \in fresh : signals[x] = 0 \/ x \in doubtful
    /\ signals' = [x \in Items |-> IF x \in fresh THEN signals[x] + 1 ELSE signals[x]]
    /\ Doubts
    /\ UNCHANGED <<failed, due>>

Unrecord ==
    /\ Doubts
    /\ UNCHANGED <<failed, due, signals>>

Next == \/ \E x \in Items : Fail(x)
        \/ \E fresh \in SUBSET failed : Signal(fresh)
        \/ Unrecord

Spec == Init /\ [][Next]_vars

\* No item that is due is forgotten, unless its signal was given up meanwhile.
AllSignalled == \A x \in Items : x \in due ~> (signals[x] > 0 \/ x \in released)
=============================================================================
