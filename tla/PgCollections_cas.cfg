SPECIFICATION PgSpec
CONSTANTS
    Processes = {p1, p2}
    Ids = {1, 2}
    Keys = {"u", "c"}
    NoDoc = NoDoc
    MaxN = 2
    MaxCalls = 4
INVARIANTS PgCasWinsOnce
CHECK_DEADLOCK FALSE
