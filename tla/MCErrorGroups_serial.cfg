\* One call at a time, the users of the console, a prune and a restart; fair.
SPECIFICATION FairSpec
CONSTANTS
    e1 = e1
    e2 = e2
    e3 = e3
    d1 = d1
    d2 = d2
    w1 = w1
    w2 = w2
    none = none
    Executions = {e1, e2}
    Workers = {w1}
    Details = {none, d1}
    NoDetail = none
    DetailOf <- TwoOfAKind
    StartedAt <- OneLater
    None = None
    MaxGroups = 6
    MaxClock = 1
    MaxActions = 2
    MaxPrunes = 1
    MaxRestarts = 1
PROPERTIES
    DetailLasts
\* Every execution may be historised, settled and grouped: nothing is left to do.
CHECK_DEADLOCK FALSE
