SPECIFICATION Spec
CONSTANTS
    d1 = d1  c1 = c1
    Docs = {d1}
    Collections = {c1}
    CollOf <- OneCollection
    Nodes = {1, 2}
    Hub = 3
    Writers = {1, 3}
    Skew <- SameClock
    Explicit = {c1}
    Resolver = "lww"
    BatchSize = 1
    PreDocs <- NoPreDocs
    StartColls <- Opened
    NoCompaction = NoCompaction
    KeepLast = 1
    MaxTime = 1
    MaxWrites = 2
    MaxFaults = 1
    MaxCrashes = 1
INVARIANTS CaughtUpMeansEqual AckedIsDelivered
PROPERTIES UnpushedKept
CHECK_DEADLOCK FALSE
