\* Four loads, answered in any order.
SPECIFICATION FairHookSpec
CONSTANT MaxRenders = 4
INVARIANTS
    SettledIsCurrent
PROPERTY
    LoadingEnds
CHECK_DEADLOCK FALSE
