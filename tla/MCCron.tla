------------------------------- MODULE MCCron -------------------------------
(* The scheduler with the search of nextCronRun(), on a calendar with days *)
(* of three hours of two minutes in two months, where the server's clock    *)
(* gains an hour and the other zone loses one, or the other way round.      *)
EXTENDS CronSearch, Cron

CONSTANTS p1, p2, report, Other

Dates == 0..5
Month == [x \in Dates |-> 1 + (x \div 3)]
Day   == [x \in Dates |-> 1 + (x % 3)]
Week  == [x \in Dates |-> x % 2]

Even  == [i \in Instants |-> i]
Gains == [i \in Instants |-> IF i >= 2 THEN i + 2 ELSE i]
Loses == [i \in Instants |-> IF i >= 4 THEN i - 2 ELSE i]

ServerGains == [tz \in Tzs |-> IF tz = Local THEN Gains ELSE Loses]
OtherGains  == [tz \in Tzs |-> IF tz = Local THEN Even ELSE Gains]
ServerLoses == [tz \in Tzs |-> IF tz = Local THEN Loses ELSE Even]

(* Every expression: each field a star, or a value, a list, a range or a     *)
(* step, which make these sets.                                             *)
Expressions ==
    {c \in [minute : SUBSET (0..1) \ {{}}, hour : SUBSET (0..2) \ {{}},
            month : {{1}, {2}, {1, 2}},
            dom : {{1}, {3}, {1, 2, 3}}, dow : {{0}, {1}, {0, 1}},
            domRestricted : BOOLEAN, dowRestricted : BOOLEAN] :
       /\ c.domRestricted \/ c.dom = {1, 2, 3}
       /\ c.dowRestricted \/ c.dow = {0, 1}}

Star(minute, hour) == [minute |-> minute, hour |-> hour, month |-> {1, 2},
                       dom |-> {1, 2, 3}, dow |-> {0, 1},
                       domRestricted |-> FALSE, dowRestricted |-> FALSE]
EveryMinute == Star(Stepped(0, 1, 1), Stepped(0, 2, 1))
EveryHour   == Star({0}, Stepped(0, 2, 1))

Mondays     == [Star({0}, {0}) EXCEPT !.dow = {1}, !.dowRestricted = TRUE]

Options(cron, tz, jitter) == [cron |-> cron, tz |-> tz, jitter |-> jitter]
TwoSpecs == {Options(EveryMinute, Local, 0), Options(EveryHour, Other, 2)}

MondaySpec == {Options(Mondays, Other, 0)}

Searched == [e \in Specs |-> [t \in 0..MaxTime |-> NextCronRun(e.cron, t, e.tz)]]

(* nextCronRun(), "the next time (strictly after `from`)": whatever a        *)
(* schedule asks for, in whichever zone and at whichever time, the run it   *)
(* waits for is the first one after that time, so that skipping days and    *)
(* hours passes over none and never leads back.  The statement has no       *)
(* variables, hence it is evaluated before anything has happened.           *)
NextIsFirst ==
    used = 0 /\ now = 0 =>
      \A c \in Expressions, tz \in Tzs, from \in Instants :
        LET runs == {d \in Instants : d > from /\ Fires(c, tz, d)} \cup {Horizon}
        IN NextCronRun(c, from, tz) = CHOOSE d \in runs : \A r \in runs : d <= r

(* nextCronRun(), "the coarse jumps are self-correcting": no row waits      *)
(* for a run although an earlier time matches its expression.               *)
NoneSkipped ==
    \A n \in Names : rows[n] # None =>
      LET plan == rows[n].next
      IN \A d \in Instants :
           plan.from < d /\ d < plan.base => ~Fires(plan.by.cron, plan.by.tz, d)
=============================================================================
