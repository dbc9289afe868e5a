SPECIFICATION Spec
CONSTANTS
    Put = {r1, r2}
    HostUser = {t1}
    MaxBuilds = 3
    MaxOpened = 3
    MaxBreaks = 1
    Calls <- ToolCalls
    MaxTries = 3
    Threads = 2
    MaxMsgs = 2
    MaxText = 2
    MaxClicks = 4
    StepId <- StepIds
    ParentOf <- Parents
    NoParent = "none"
    Tries = 1
INVARIANTS HostSound PaperKept PageKept 
CHECK_DEADLOCK FALSE
