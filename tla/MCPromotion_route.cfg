\* Promotions along a chain of three environments.
SPECIFICATION Spec
CONSTANTS
    c1 = c1
    c2 = c2
    Length = 3
    Calls = {c1, c2}
    Workflows <- TheWorkflows
    Requests <- Routes
    Parks <- Situations
    MaxContent = 2
    Budgets <- OneEvent
INVARIANTS
    NumberNamesOneContent
    LocksHold
    NothingSkips
    OneCopyEach
    CalleesThere
\* Nobody asks for more promotions than the bound.
CHECK_DEADLOCK FALSE
SYMMETRY Symmetry
