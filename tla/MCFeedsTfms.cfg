CONSTANTS
    k1 = k1
    k2 = k2
    None = None
    Unparsable = Unparsable
    Consumer = {c1}
    Flight = {f1, f2}
    Key = {k1, k2}
    Parsed <- MCUpToTwo
    Keyed = FALSE
    Earliest = FALSE
    MaxMessages = 2
    MaxFaults = 1
SYMMETRY Symmetry
SPECIFICATION Spec
INVARIANTS
    CountIsExact
    RoutesAreLinked
PROPERTY FirstIgtdKept
CHECK_DEADLOCK FALSE
