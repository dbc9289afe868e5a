SPECIFICATION FairSpec
CONSTANTS
    Task = {t1}
    Proc = {p1}
    Worker = {w1}
    Client = {c1, c2}
    None = None
    SingleServer = TRUE
    Punctual = TRUE
    StoreFaults = FALSE
    LateCalls = FALSE
CHECK_DEADLOCK FALSE
PROPERTIES
    CallsReturn
    DeadWorkerSurfaces
    CancelledWorkerEnds
