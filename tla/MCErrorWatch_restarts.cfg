\* One check at a time, cut short by a restart or a failed call, and an edit.
SPECIFICATION FairSpec

CONSTANTS
    i1 = i1
    i2 = i2
    c1 = c1
    c2 = c2
    none = none
    None = none
    Instances = {i1, i2}
    Checks = {c1}
    MaxId = 2
    MaxParallel = 1
    Monitored <- AllButOne
    PageLimit = 1
    MaxPages = 2
    Threshold = 2
    MaxOutages = 1
    MaxRestarts = 1
    MaxEdits = 1

PROPERTIES
    NoneForgotten
