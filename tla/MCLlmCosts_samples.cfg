\* Two passes and two corrections at once, an instance down, a restart; fair.
SPECIFICATION FairSpec

CONSTANTS
    i1 = i1
    i2 = i2
    p1 = p1
    p2 = p2
    f1 = f1
    f2 = f2
    Ticks = {p1}
    Samples = {p2}
    Fixers = {f1, f2}
    Instances = {i1, i2}
    Down = {i1}
    Foreign = {}
    MaxId = 2
    Reach = 2
    MaxDays = 2
    Tariffs = {0, 2}
    Budgets = {0, 1}
    MaxEvents = 1

INVARIANTS
    PassedIsCounted
    AlertedOnce
PROPERTIES
    CostFrozen
    FinishedIsSettled
    OverspendTold
