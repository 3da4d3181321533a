SPECIFICATION MCSpec
CONSTANTS
    f1 = f1  f2 = f2  f3 = f3  d1 = d1  d2 = d2  w1 = w1  w2 = w2
    Flows = {f1, f2, f3}
    Top = Top
    Outer <- OuterOf
    Parallel = FALSE
    Docs = {d1, d2}
    Values <- ValuesOf
    MaxWrites = 4
    Watchers = {w1, w2}
    Args <- ArgsOf
    Gone = Gone
    Clients = {1, 2}
    NoClient = NoClient
    PgWrites = 1
    Processes = {p1, p2}
    p1 = p1  s1 = s1  s2 = s2  here = here  there = there
INVARIANTS AllOrNothingHolds   HeardOnceInOrder
PROPERTIES CallsSettle EventuallyHeard
CHECK_DEADLOCK FALSE
