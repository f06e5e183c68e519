\* An execution fails after one that started later.
SPECIFICATION Spec

CONSTANTS
    i1 = i1
    i2 = i2
    c1 = c1
    c2 = c2
    none = none
    None = none
    Instances = {i1}
    Checks = {c1}
    MaxId = 3
    MaxParallel = 2
    Monitored <- Everything
    PageLimit = 2
    MaxPages = 2
    Threshold = 2
    MaxOutages = 0
    MaxRestarts = 0
    MaxEdits = 0

INVARIANTS
    SeenIsSignalled
