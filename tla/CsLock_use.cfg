CONSTANTS
    t1 = t1
    t2 = t2
    t3 = t3
    t4 = t4
    Threads = {t1, t2, t3, t4}
    ReaderSets <- FewReaders
    Timings = {TRUE, FALSE}
SPECIFICATION Spec
INVARIANTS TypeOK ExclusiveWithOneReader CountsExact NoLostWakeup FreeWhenIdle
PROPERTIES WritersFirst
