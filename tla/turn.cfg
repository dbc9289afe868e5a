SPECIFICATION FairSpec
CONSTANTS
    Key = {search, save, sub}
    SideEffect = {save}
    Sub = sub
    SubEffect = note
    MaxSteps = 2
    MaxCalls = 2
    MaxAsk = 2
INVARIANTS OncePerInput AlwaysAnswered
PROPERTIES EffectApproved TurnEnds
CHECK_DEADLOCK FALSE
