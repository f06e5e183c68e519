\* Two requests at once, retried; an edit, a lock, a failure, a restart.
SPECIFICATION Spec

CONSTANTS
    w1 = w1
    w2 = w2
    w3 = w3
    c1 = c1
    c2 = c2
    Workflows = {w1, w2, w3}
    Calls = {c1, c2}
    Proposals <- SomeProposals
    MaxEvents = 2
    MaxEach = 1

SYMMETRY Symmetry

INVARIANTS
    WrittenWhole
    WritesJustified
    NoBackDoor
    Settled
PROPERTIES
    DecidedOnce
CHECK_DEADLOCK FALSE
