CONSTANTS
    c1 = c1
    c2 = c2
    c3 = c3
    Calls = {c1, c2, c3}
    KillerSets <- MaybeKilled
SPECIFICATION Spec
INVARIANTS FreedOnce
CHECK_DEADLOCK FALSE
