----------------------------- MODULE CronSearch -----------------------------
(***************************************************************************)
(* parseCron() and nextCronRun() of @monlite/cron as functions: the first  *)
(* instant after another one at which a cron expression fires, found by    *)
(* skipping days and hours that do not match.  Instants are minutes since  *)
(* the beginning; each zone reads a wall clock off an instant, with        *)
(* the hours it gains and loses.                                           *)
(***************************************************************************)
EXTENDS Naturals

CONSTANTS MinutesPerHour, HoursPerDay, MonthOf, DayOf, WeekdayOf,
          Local,    \* no option tz: the server's local time
          Zones,    \* values of the option tz
          Walls,    \* what each of them shows at each instant, in minutes
          Horizon   \* bound: the last instant

Instants == 0..Horizon
Tzs      == Zones \cup {Local}

ASSUME CalendarAssumption ==
    /\ MinutesPerHour \in Nat \ {0} /\ HoursPerDay \in Nat \ {0}
    /\ Horizon \in Nat /\ Local \notin Zones
    /\ Walls \in [Tzs -> [Instants -> Nat]]

MinutesPerDay == HoursPerDay * MinutesPerHour

(* localParts(), tzParts(): the wall-clock fields of the instant d. *)
Parts(tz, d) ==
    LET wall == Walls[tz][d]
        date == wall \div MinutesPerDay
    IN [minute |-> wall % MinutesPerHour,
        hour   |-> (wall % MinutesPerDay) \div MinutesPerHour,
        day    |-> DayOf[date], month |-> MonthOf[date], dow |-> WeekdayOf[date]]

(* parseField(), one part of a field: a range with a step. *)
Stepped(lo, hi, step) == {v \in lo..hi : (v - lo) % step = 0}

(* dayMatches(): when both kinds of day are restricted, either will do. *)
DayMatches(c, p) ==
    LET dom == p.day \in c.dom
        dow == p.dow \in c.dow
    IN /\ p.month \in c.month
       /\ IF c.domRestricted /\ c.dowRestricted THEN dom \/ dow ELSE dom /\ dow

Fires(c, tz, d) == LET p == Parts(tz, d)
                   IN DayMatches(c, p) /\ p.hour \in c.hour /\ p.minute \in c.minute

(* What the setters of Date do with a local time: the first instant that    *)
(* shows it, also when it is shown twice and d was the second of them; for  *)
(* a time that is left out (they ask for no other than the first minute of  *)
(* a gap), the one after it.                                                *)
AtWall(wall) ==
    LET later == {i \in Instants : Walls[Local][i] >= wall}
    IN IF later = {} THEN Horizon
       ELSE CHOOSE i \in later : \A j \in later : i <= j

(* d.setTime(d.getTime() + n minutes) *)
Add(d, n) == IF d + n > Horizon THEN Horizon ELSE d + n

NextMinute(tz, d) == IF tz = Local THEN AtWall(Walls[Local][d] + 1) ELSE Add(d, 1)

NextHour(tz, d) ==
    LET left == MinutesPerHour - Parts(tz, d).minute
    IN IF tz = Local THEN AtWall(Walls[Local][d] + left) ELSE Add(d, left)

NextDay_OneHourLate(tz, d) ==   \* mutant: the skip lands at one o'clock
    LET p    == Parts(tz, d)
        left == (HoursPerDay + 1 - p.hour) * MinutesPerHour - p.minute
    IN IF tz = Local THEN AtWall(Walls[Local][d] + left) ELSE Add(d, left)

NextDay(tz, d) ==
    LET p    == Parts(tz, d)
        left == (HoursPerDay - p.hour) * MinutesPerHour - p.minute
    IN IF tz = Local THEN AtWall(Walls[Local][d] + left) ELSE Add(d, left)

(* The loop of nextCronRun(). *)
Search(c, tz) ==
    LET f[d \in Instants] ==
          LET p == Parts(tz, d)
          IN IF d = Horizon THEN Horizon
             ELSE IF ~DayMatches(c, p)   THEN f[NextDay(tz, d)]
             ELSE IF p.hour \notin c.hour THEN f[NextHour(tz, d)]
             ELSE IF p.minute \in c.minute THEN d
             ELSE f[NextMinute(tz, d)]
    IN f

(* nextCronRun(): d.setMinutes(d.getMinutes() + 1) is the same in every     *)
(* mode, a setter of the local time.                                        *)
NextCronRun(c, from, tz) == Search(c, tz)[AtWall(Walls[Local][from] + 1)]
=============================================================================
