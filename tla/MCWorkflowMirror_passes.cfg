\* Two syncs that may overlap, an edit, a deletion, a failed call, a restart; fair.
SPECIFICATION FairSpec

CONSTANTS
    w1 = w1
    w2 = w2
    c1 = c1
    c2 = c2
    j1 = j1
    j2 = j2
    none = none
    None = none
    Workflows = {w1}
    Contents = {c1, c2}
    Syncs = {j1, j2}
    MaxEdits = 2
    MaxClicks = 1
    MaxOutages = 1
    MaxRestarts = 1

INVARIANTS
    CopiesAreVersioned
    MissingIsGone
    FreshIsCurrentAlone
PROPERTIES
    MirrorConverges
