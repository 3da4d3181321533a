SPECIFICATION DataSpec
CONSTANTS
    p1 = p1  a = a
    Subscribers = {s1, s2}
    Channels = {a}
    ProcessOf <- OneProcess
    ChannelOf <- OneChannel
    Processes = {p1, p2}
    NoDoc = NoDoc
    NoRow = NoRow
    Never = Never
    NoCall = NoCall
    NoScore = NoScore
    Infinite = 99
    DocIds = {1, 2, 3}
    PgDocIds = {1, 2}
    MaxN = 2
    MaxCalls = 4
    MaxVersion = 2
    MaxSets = 2
    MaxFlushes = 1
    MaxFaults = 1
    Locks = {lock}
    Counters = {count}
    Ttls = {1, 2}
    CacheTime = 2
    CacheCalls = 3
    MaxMessages = 2
    LogTime = 1
    KeepFor = 0
    MaxDrains = 2
    Searchers = {p1, p2}
    Ids = {1, 2}
    Contents = {x, y}
    Nothing = Nothing
    NoRecord = NoRecord
    MaxTime = 2
    MaxWrites = 2
    MaxCrashes = 1
    MaxBusy = 1
    Floor = 1
    Cap = 2
    MaxLimit = 2
    RrfK = 1
    Scale = 60
INVARIANTS
    OneWinnerOneRow
    RowsIndexAndFeedAgree
    BalanceIsAcknowledged
    FiltersMeanWhatTheySay
    
    ReadsAddUp
    IndexIsCurrent
    SearchesFindWhatMatches
    
    LocksAndCountsHold

    
CHECK_DEADLOCK FALSE
