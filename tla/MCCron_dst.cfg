SPECIFICATION Spec
CONSTANTS
    p1 = p1  p2 = p2  report = report  Other = Other
    MinutesPerHour = 2
    HoursPerDay = 3
    MonthOf <- Month
    DayOf <- Day
    WeekdayOf <- Week
    Local = Local
    Zones = {Other}
    Walls <- ServerLoses
    Horizon = 20
    Processes = {p1}
    Slots = {1}
    Names = {report}
    Specs <- TwoSpecs
    NextRun <- Searched
    None = None
    MaxTime = 5
    MaxCalls = 1
    MaxCrashes = 0
INVARIANTS ClaimedOnce
CHECK_DEADLOCK FALSE
