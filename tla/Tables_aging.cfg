CONSTANTS
    Nodes = {x1, x2, x3}
    Null = Null
    Callers = {y1, y2, y3}
    Addresses = {a1, a2}
    BanTime = 1
    MaxLag = 1
    Hashes = {a1, a2}
    Words = {x1, x2, x3, x4}
    NoWord = NoWord
    MaxWords = 3
    MaxCacheTime = 1
    MaxTotal = 4
    Services = {x1, x2, x3, x4}
    NoService = NoService
    MaxSlots = 4
    Limit = 2
    Window = 3
    Delay = 1
    Cooling = 2
SPECIFICATION Spec
SYMMETRY Symmetry
INVARIANTS TypeOK ListIntact NoneOverlooked MostlyReceived SweepExact AtMostLimit KeepsItsSlot
PROPERTY CoolsUnderLoad
