SPECIFICATION Spec
CONSTANTS
    Task = {t1}
    Proc = {p1, p2}
    Worker = {w1, w2}
    Client = {c1, c2}
    None = None
    SingleServer = TRUE
    Punctual = TRUE
    StoreFaults = FALSE
    LateCalls = TRUE
SYMMETRY Symmetry
CHECK_DEADLOCK FALSE
INVARIANTS
    IndInv
    WorkerReachable
    OneExecutor
    RecoverableStatus
PROPERTIES
    ReplyMeetsQuestion
    OrphaningSparesLive
