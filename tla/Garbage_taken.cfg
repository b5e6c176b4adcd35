CONSTANTS
    Elements = {e1, e2, e3, e4}
    Collector = Collector
    Nil = Nil
    Timeout = 1
SYMMETRY Symmetry
SPECIFICATION Spec
INVARIANT TakenOut
