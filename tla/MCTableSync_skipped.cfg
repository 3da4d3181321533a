SPECIFICATION FairSpec
CONSTANTS
    d1 = d1  c1 = c1
    Docs = {d1}
    Collections = {c1}
    CollOf <- OneCollection
    Nodes = {1, 2}
    Hub = 3
    Writers = {1, 2}
    Skew <- SameClock
    Explicit = {c1}
    Resolver = "lww"
    BatchSize = 1
    PreDocs <- NoPreDocs
    StartColls <- Opened
    NoCompaction = NoCompaction
    KeepLast = NoCompaction
    MaxTime = 0
    MaxWrites = 2
    MaxFaults = 0
    MaxCrashes = 0
PROPERTIES EventuallyEqual
CHECK_DEADLOCK FALSE
