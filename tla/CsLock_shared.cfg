CONSTANTS
    t1 = t1
    t2 = t2
    t3 = t3
    t4 = t4
    Threads = {t1, t2, t3}
    ReaderSets <- TwoReaders
    Timings = {TRUE}
SPECIFICATION Spec
INVARIANTS ExclusiveAlways
