\* Two requests at once, n8n users, a lock, a failure, a restart; fair.
SPECIFICATION FairSpec

CONSTANTS
    w1 = w1
    w2 = w2
    w3 = w3
    c1 = c1
    c2 = c2
    none = none
    None = none
    Workflows = {w1, w2, w3}
    Calls = {c1, c2}
    Trees <- SomeTrees
    MaxEvents = 2
    MaxEach = 1

INVARIANTS
    PublishedOnce
    RowIsTrue
    CalleesPlayed
    LiftsJournaled
    StopIsAPauseUndisturbed
PROPERTIES
    RunsStop
    AbandonedPlaysNothing
CHECK_DEADLOCK FALSE
