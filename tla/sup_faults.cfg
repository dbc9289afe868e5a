SPECIFICATION Spec
CONSTANTS
    Task = {t1}
    Proc = {p1}
    Worker = {w1, w2}
    Client = {c1}
    None = None
    SingleServer = FALSE
    Punctual = TRUE
    StoreFaults = TRUE
    LateCalls = TRUE
SYMMETRY Symmetry
CHECK_DEADLOCK FALSE
INVARIANTS
    IndInv
