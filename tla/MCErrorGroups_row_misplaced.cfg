\* The ingestion moves a detailed row back to the provisional group.
SPECIFICATION Spec
CONSTANTS
    e1 = e1
    e2 = e2
    e3 = e3
    d1 = d1
    d2 = d2
    w1 = w1
    w2 = w2
    none = none
    Executions = {e1, e2}
    Workers = {w1, w2}
    Details = {none, d1}
    NoDetail = none
    DetailOf <- TwoOfAKind
    StartedAt <- OneLater
    None = None
    MaxGroups = 6
    MaxClock = 0
    MaxActions = 0
    MaxPrunes = 0
    MaxRestarts = 0
INVARIANT
    RowsSorted
CHECK_DEADLOCK FALSE
