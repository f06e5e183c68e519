\* Two checks at once, failed calls, the push URL given or cleared meanwhile.
SPECIFICATION Spec

CONSTANTS
    i1 = i1
    i2 = i2
    c1 = c1
    c2 = c2
    none = none
    None = none
    Instances = {i1}
    Checks = {c1, c2}
    MaxId = 2
    MaxParallel = 2
    Monitored <- AllButOne
    PageLimit = 1
    MaxPages = 2
    Threshold = 1
    MaxOutages = 2
    MaxRestarts = 0
    MaxEdits = 1

SYMMETRY Symmetry

INVARIANTS
    RelayToldOnce
    PassedIsSignalled

PROPERTIES
    AtMostOnce
