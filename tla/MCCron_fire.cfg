SPECIFICATION FairSpec
CONSTANTS
    p1 = p1  p2 = p2  report = report  Other = Other
    MinutesPerHour = 2
    HoursPerDay = 3
    MonthOf <- Month
    DayOf <- Day
    WeekdayOf <- Week
    Local = Local
    Zones = {Other}
    Walls <- ServerGains
    Horizon = 20
    Processes = {p1, p2}
    Slots = {1}
    Names = {report}
    Specs <- TwoSpecs
    NextRun <- Searched
    None = None
    MaxTime = 3
    MaxCalls = 3
    MaxCrashes = 1
INVARIANTS ClaimedOnce NextIsFirst
PROPERTIES  DueFires
CHECK_DEADLOCK FALSE
