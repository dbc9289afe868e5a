SPECIFICATION Spec
CONSTANTS
    Key = {search, save, sub}
    SideEffect = {save}
    Sub = sub
    SubEffect = note
    MaxSteps = 2
    MaxCalls = 2
    MaxAsk = 2
INVARIANT RefusalIsAnswered
CHECK_DEADLOCK FALSE
