\* Two calls at once, and a user.
SPECIFICATION Spec
CONSTANTS
    e1 = e1
    e2 = e2
    e3 = e3
    d1 = d1
    d2 = d2
    w1 = w1
    w2 = w2
    none = none
    Executions = {e1, e2}
    Workers = {w1, w2}
    Details = {none, d1}
    NoDetail = none
    DetailOf <- TwoOfAKind
    StartedAt <- OneLater
    None = None
    MaxGroups = 3
    MaxClock = 1
    MaxActions = 1
    MaxPrunes = 0
    MaxRestarts = 0
INVARIANTS
    GroupsTrue
    AnnouncedOnce
    ToldInOrder
    AnnouncedFromSettled
    RegressionsTraced
\* Every execution may be historised, settled and grouped: nothing is left to do.
CHECK_DEADLOCK FALSE
SYMMETRY Symmetry
