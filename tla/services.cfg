SPECIFICATION FairSpec
CONSTANTS
    StreamCall = {c1}
    MaxReplies = 2
    MaxEvents = 3
    Job = {1}
    Notifies = {1}
    Pdf = {1}
    FeedQueue = 1
    MaxBreaks = 1
    MayFail = TRUE
    BufferMax = 2
    TraceEvents = 3
    TraceFailures = 1
    TraceRestarts = 1
    Queries = 2
    RunQueue = 2
    Exp = {1, 2}
    MaxRunning = 1
    StudyMax = 2
    ExpEvents = 1
    ExpRestarts = 1
    Name = {"a", "b", "c"}
    Id = {"a", "b"}
    Slug <- Slugs
    MaxPlan = 2
    MaxTexts = 3
    Fact = {"f1", "f2"}
    Lesson = {"l1", "l2"}
    Key = {"kf", "kl"}
    KeyOf <- Topics
    NoKey = "none"
    Conf = {12, 18}
    MemoryWrites = 3
    Buffer = 2
    Refresh = 2
    MaxChars = 5
    Size = {1, 2}
    MaxTurns = 4
    TextSize = {1, 6}
    Args = {1, 9}
    Budget = {10, 16}
    System = {2, 12}
    Floor = 1
    MaxRounds = 2
    N = 2
    Threshold = 2
    Cooldown = 2
    Uses = 3
    MaxCalls = 4
    MaxTime = 3
INVARIANTS TypesOK ClientTold EventsKept DomainsAgree PromptSound ModelCalls
PROPERTIES ReportStays Settles
CHECK_DEADLOCK FALSE
