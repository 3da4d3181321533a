SPECIFICATION Spec
CONSTANTS
    c1 = c1  c2 = c2
    Concurrency = 2
    PollInterval = 1
    MaxPollInterval = 3
    RateCount = 0
    RateWindow = 3
    Stoppers = {c1, c2}
    NoTask = NoTask
    NoPromise = NoPromise
    MaxJobs = 3
INVARIANTS StopDrains
