CONSTANTS
    x = x
    y = y
    NumRequests = 3
    Ecms = {x, y}
    NoCw = NoCw
    Assignments <- Mixed
    MaxPending = 2
    ClientTimeout = 1000
    Lag = 1
SPECIFICATION Spec
INVARIANTS TypeOK NotFreedInUse NobodyForgotten NoWaitingInCircles WordOfOwnEcm
PROPERTY StaysInCache
