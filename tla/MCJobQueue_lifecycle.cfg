SPECIFICATION Spec
CONSTANTS
    w1 = w1  w2 = w2  p1 = p1  fast = fast  key = key
    Producers = {p1}
    Workers = {w1, w2}
    Names = {fast}
    QueueOf <- OneQueue
    JobKeys = {key}
    NoKey = NoKey
    NoRequest = NoRequest
    Priorities = {0}
    Delays = {0}
    AttemptLimits = {2}
    Concurrency = 2
    VisibilityTimeout <- Timeout2
    HeartbeatFloor = 1
    Backoff <- ShortBackoff
    RemoveOnComplete = TRUE
    SkipLocked = TRUE
    ManualAges = {1}
    MaxJobs = 2
    AttemptCap = 3
    AgeCap = 3
    MaxCrashes = 1
    MaxFreezes = 1
    MaxStops = 1
INVARIANTS FencingTokens SettlementsInOrder RowMatchesReports  
PROPERTIES FinishedRowsAreFinal ImplementsLifecycle
