SPECIFICATION MCSpec
CONSTANTS
    w1 = w1  w2 = w2  w3 = w3  fast = fast  slow = slow  c1 = c1  c2 = c2
    NoTask = NoTask
    NoPromise = NoPromise
    Producers = {}
    Workers = {w1, w2, w3}
    Names = {fast, slow}
    QueueOf <- TwoQueues
    JobKeys = {}
    NoKey = NoKey
    NoRequest = NoRequest
    Priorities = {0}
    Delays = {0}
    AttemptLimits = {2}
    Concurrency = 1
    VisibilityTimeout <- TimeoutBy
    HeartbeatFloor = 1
    Backoff <- ShortBackoff
    RemoveOnComplete = FALSE
    SkipLocked = FALSE
    ManualAges = {}
    MaxJobs = 2
    AttemptCap = 5
    AgeCap = 5
    MaxCrashes = 1
    MaxFreezes = 1
    MaxStops = 0
    Slots = 2
    PollInterval = 1
    MaxPollInterval = 3
    RateCount = 2
    RateWindow = 3
    Stoppers = {c1, c2}
    SqliteJobs = 5
    PostgresJobs = 3
INVARIANTS LiveRunKeepsLease StopDrains LimitsHold
PROPERTIES EveryJobFinishes EveryStopResolves JobsGetClaimed
