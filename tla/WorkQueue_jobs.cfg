CONSTANTS
    c1 = c1
    c2 = c2
    c3 = c3
    Calls = {c1, c2, c3}
    KillerSets <- MaybeKilled
SPECIFICATION FairSpec
INVARIANTS TypeOK OneHandler NobodyForgotten RunOnce InOrder QueueClosed
PROPERTIES EveryJobSettled
CHECK_DEADLOCK FALSE
