SPECIFICATION MCSpec
CONSTANTS
    Docs = {d1, d2}
    Collections = {c1}
    OnlyCollection = c1
    CollOf <- OneCollection
    Nodes = {1, 2}
    Hub = 3
    Writers = {1, 2}
    Skew <- SameClock
    Explicit = {c1}
    Resolver = "lww"
    BatchSize = 1
    OldDoc = d1
    PreDocs <- OldInTwo
    StartColls <- NoneOpen
    NoCompaction = NoCompaction
    KeepLast = NoCompaction
    MaxTime = 0
    MaxWrites = 2
    MaxFaults = 0
    MaxCrashes = 0
    TableWriter = 1
    MaxTableFaults = 1
    MaxTableCrashes = 1
    MemoryDocs = {d1}
    MemoryWriters = {2}
    MemoryBatch = 9
    Live = {1}
    MaxUpsets <- OneUpset
    MaxMemoryWrites = 3
    MaxMemoryFaults = 1
INVARIANTS MarkedHasArrived
PROPERTIES AllComeToAgree RowsNeverGoBack
CHECK_DEADLOCK FALSE
