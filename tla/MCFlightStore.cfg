CONSTANTS
    Consumer = {c1}
    Tfdm = {t1, t2}
    Tfm = {m1, m2}
    Plan = {p1}
    Leg = {l1}
    MaxMessages = 4
SYMMETRY Symmetry
SPECIFICATION Spec
INVARIANTS
    UniqueTfdm
PROPERTIES
    DeleteLeavesNone
    RepeatInsertsNothing
    ImplementsRegistry
CHECK_DEADLOCK FALSE
