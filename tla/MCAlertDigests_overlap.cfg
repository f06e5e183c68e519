\* Two alerts and two flushes in progress at once, an edit, a relapse, a restart; fair.
SPECIFICATION FairSpec

CONSTANTS
    g1 = g1
    g2 = g2
    ch1 = ch1
    ch2 = ch2
    a1 = a1
    a2 = a2
    f1 = f1
    f2 = f2
    none = none
    None = none
    Groups = {g1}
    Channels = {ch1, ch2}
    Alerts = {a1, a2}
    Flushes = {f1, f2}
    Window = 2
    MaxHits = 2
    MaxRelapses = 1
    MaxEdits = 1
    MaxRestarts = 1

INVARIANTS
    RemindersRight
    ActiveIsCounted
PROPERTIES
    DigestsSpaced
    DigestsSettle
CHECK_DEADLOCK FALSE
