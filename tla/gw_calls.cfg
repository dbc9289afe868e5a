SPECIFICATION FairSpec
CONSTANTS
    Gate = {g1}
    Call = {c1, c2}
    Write = {k1}
    Read = {r1}
    Tool = {k1, r1}
    ToolOf <- OwnTools
    Slots = 1
    Threshold = 2
    Attempts = 2
    None = None
    Prompt = TRUE
    StoreFaults = TRUE
INVARIANTS
    IndInv
    AtMostOnce
    SuccessReplayable
PROPERTIES
    EffectOncePromise
    CallsEnd
