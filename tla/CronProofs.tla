----------------------------- MODULE CronProofs -----------------------------
(***************************************************************************)
(* The claim of Cron, proved for any processes, schedules and calendar: as *)
(* long as nextCronRun() leads forward, no occurrence is fired twice       *)
(* between two writes of its row by schedule(); and, wherever it leads, an *)
(* occurrence that is due stays until it is fired.                         *)
(***************************************************************************)
EXTENDS Cron, TLAPS

(* What the claim rests on, and what a clock that is set back breaks. *)
NextGoesForward == \A e \in Specs, t \in 0..MaxTime : NextRun[e][t] > t

-----------------------------------------------------------------------------
Plan(x) == x \in PlanTypes /\ x.base <= x.at

LEMMA PlansTyped ==
    ASSUME NEW e \in Specs, NEW from \in 0..MaxTime, NEW x \in Plans(e, from)
    PROVE  Plan(x) /\ x.base = NextRun[e][from]
<1>1. PICK delay \in {0} \cup {j \in 0..e.jitter : j < e.jitter} :
        x = [by |-> e, from |-> from, base |-> NextRun[e][from],
             at |-> NextRun[e][from] + delay]
  BY DEF Plans
<1>2. delay \in Nat /\ NextRun[e][from] \in Nat
  BY CronAssumption
<1> QED BY <1>1, <1>2 DEF Plan, PlanTypes

LEMMA TickTyped ==
    ASSUME NEW c \in CallTypes, c.kind = "tick"
    PROVE  /\ c \in TickCalls
           /\ c.t \in 0..MaxTime /\ c.seen \subseteq Names
           /\ c.claim # None => c.claim.name \in Names /\ c.claim.next \in PlanTypes
<1>1. c \in TickCalls
  BY DEF CallTypes, Idle, ScheduleCalls, TickCalls
<1>2. c.t \in 0..MaxTime /\ c.seen \subseteq Names
      /\ c.claim \in {None} \cup [name : Names, next : PlanTypes]
  BY <1>1 DEF TickCalls
<1> QED BY <1>1, <1>2

LEMMA ScheduleTyped ==
    ASSUME NEW c \in CallTypes, c.kind = "schedule"
    PROVE  /\ c.name \in Names /\ c.spec \in Specs /\ c.next \in PlanTypes
           /\ c \in ScheduleCalls
<1>1. c \in ScheduleCalls
  BY DEF CallTypes, Idle, ScheduleCalls, TickCalls
<1> QED BY <1>1 DEF ScheduleCalls

LEMMA UnscheduleTyped ==
    ASSUME NEW c \in CallTypes, c.kind = "unschedule"
    PROVE  c.name \in Names
BY DEF CallTypes, Idle, ScheduleCalls, TickCalls

LEMMA RowTyped ==
    ASSUME NEW row \in RowTypes, row # None
    PROVE  /\ row.next \in PlanTypes /\ row.next.base \in Nat /\ row.next.at \in Nat
           /\ row.cron \in {e.cron : e \in Specs}
<1>1. row.next \in PlanTypes /\ row.cron \in {e.cron : e \in Specs}
  BY DEF RowTypes
<1> QED BY <1>1 DEF PlanTypes

LEMMA RowSet ==
    ASSUME NEW row \in RowTypes, row # None, NEW next \in PlanTypes
    PROVE  /\ [row EXCEPT !.next = next] \in RowTypes
           /\ [row EXCEPT !.next = next].next = next
BY DEF RowTypes

LEMMA RowMade ==
    ASSUME NEW e \in Specs, NEW next \in PlanTypes
    PROVE  [cron |-> e.cron, next |-> next] \in RowTypes
BY DEF RowTypes

(* What a tick can be left with after it has visited a name. *)
LEMMA VisitedTyped ==
    ASSUME NEW p, NEW c \in TickCalls, NEW n \in Names
    PROVE  /\ Visited(p, c, n) \in CallTypes
           /\ Visited(p, c, n).kind # "schedule"
           /\ Visited(p, c, n).kind = "tick" => Visited(p, c, n).claim = None
<1>1. CASE Visited(p, c, n) = Idle
  BY <1>1 DEF CallTypes, Idle
<1>2. CASE Visited(p, c, n) = [c EXCEPT !.seen = c.seen \cup {n}, !.claim = None]
  <2>1. [c EXCEPT !.seen = c.seen \cup {n}, !.claim = None] \in TickCalls
    BY DEF TickCalls
  <2>2. /\ [c EXCEPT !.seen = c.seen \cup {n}, !.claim = None].kind = "tick"
        /\ [c EXCEPT !.seen = c.seen \cup {n}, !.claim = None].claim = None
    BY DEF TickCalls
  <2> QED BY <1>2, <2>1, <2>2 DEF CallTypes
<1> QED BY <1>1, <1>2 DEF Visited

LEMMA ForgottenTyped ==
    ASSUME NEW p, NEW c \in CallTypes, NEW n \in Names
    PROVE  /\ Forgotten(p, c, n) \in CallTypes
           /\ \/ Forgotten(p, c, n) = c \/ Forgotten(p, c, n).kind = "idle"
              \/ /\ c.kind = "tick" /\ Forgotten(p, c, n).kind = "tick"
                 /\ Forgotten(p, c, n).t = c.t
                 /\ Forgotten(p, c, n).claim = c.claim
<1>1. CASE Forgotten(p, c, n) = c
  BY <1>1
<1>2. CASE Forgotten(p, c, n) = Idle
  BY <1>2 DEF CallTypes, Idle
<1>3. CASE c.kind = "tick" /\ Forgotten(p, c, n) = [c EXCEPT !.seen = c.seen \ {n}]
  <2>1. c \in TickCalls
    BY <1>3, TickTyped
  <2>2. /\ [c EXCEPT !.seen = c.seen \ {n}] \in TickCalls
        /\ [c EXCEPT !.seen = c.seen \ {n}].kind = "tick"
        /\ [c EXCEPT !.seen = c.seen \ {n}].t = c.t
        /\ [c EXCEPT !.seen = c.seen \ {n}].claim = c.claim
    BY <2>1 DEF TickCalls
  <2> QED BY <1>3, <2>2 DEF CallTypes
<1> QED BY <1>1, <1>2, <1>3 DEF Forgotten

-----------------------------------------------------------------------------
(* A step that sets one call. *)
LEMMA OneCall ==
    ASSUME calls \in [Processes -> [Slots -> CallTypes]],
           NEW p \in Processes, NEW s \in Slots, NEW c, SetCall(p, s, c)
    PROVE  /\ calls'[p][s] = c
           /\ \A q \in Processes, x \in Slots :
                calls'[q][x] = c \/ calls'[q][x] = calls[q][x]
           /\ c \in CallTypes => calls' \in [Processes -> [Slots -> CallTypes]]
BY DEF SetCall

LEMMA NextTyped ==
    ASSUME TypeOK, NEW n \in Names, NEW e \in Specs, NEW next \in NextFor(n, e)
    PROVE  next \in PlanTypes
<1>1. CASE next = rows[n].next /\ rows[n] # None
  BY <1>1, RowTyped DEF TypeOK
<1>2. CASE next \in Plans(e, now)
  BY <1>2, PlansTyped DEF TypeOK, Plan
<1> QED BY <1>1, <1>2 DEF NextFor

(* The histories and the table keep their types in every step that leaves   *)
(* the table alone.                                                         *)
LEMMA TypeCall ==
    ASSUME TypeOK, NEW p \in Processes, NEW s \in Slots, CallStep(p, s)
    PROVE  TypeOK'
<1> USE DEF TypeOK
<1>1. CASE ScheduleWrites(p, s)
  <2>1. /\ calls[p][s].name \in Names /\ calls[p][s].spec \in Specs
        /\ calls[p][s].next \in PlanTypes
    BY <1>1, ScheduleTyped DEF ScheduleWrites
  <2>2. rows' \in [Names -> RowTypes]
    BY <1>1, <2>1, RowMade DEF ScheduleWrites
  <2>3. handlers' \in [Processes -> [Names -> Specs \cup {None}]]
    BY <1>1, <2>1 DEF ScheduleWrites, Register
  <2>4. calls' \in [Processes -> [Slots -> CallTypes]]
    BY <1>1, OneCall DEF ScheduleWrites, CallTypes
  <2>5. written' \in [Names -> Nat] /\ task' \in [Processes -> BOOLEAN]
    BY <1>1, <2>1 DEF ScheduleWrites
  <2> QED BY <1>1, <2>2, <2>3, <2>4, <2>5 DEF ScheduleWrites
<1>2. CASE UnscheduleDeletes(p, s)
  <2>1. calls[p][s].name \in Names
    BY <1>2, UnscheduleTyped DEF UnscheduleDeletes
  <2>2. rows' \in [Names -> RowTypes]
    BY <1>2, <2>1 DEF UnscheduleDeletes, RowTypes
  <2>3. calls' \in [Processes -> [Slots -> CallTypes]]
    BY <1>2, OneCall DEF UnscheduleDeletes, CallTypes
  <2> QED BY <1>2, <2>2, <2>3 DEF UnscheduleDeletes
<1>3. CASE TickBegins(p, s)
  <2>1. [kind |-> "tick", t |-> now, seen |-> {}, claim |-> None] \in CallTypes
    BY DEF CallTypes, TickCalls
  <2>2. calls' \in [Processes -> [Slots -> CallTypes]]
    BY <1>3, <2>1, OneCall DEF TickBegins
  <2> QED BY <1>3, <2>2 DEF TickBegins
<1>4. ASSUME NEW n \in Names, TickReads(p, s, n)
      PROVE  TypeOK'
  <2>1. PICK c \in CallTypes : c = calls[p][s]
    OBVIOUS
  <2>2. c \in TickCalls /\ c.t \in 0..MaxTime
    BY <1>4, <2>1, TickTyped DEF TickReads
  <2>3. calls' \in [Processes -> [Slots -> CallTypes]]
    <3>1. CASE IsDue(n, c.t)
      <4>1. PICK next \in Plans(handlers[p][n], c.t) :
              SetCall(p, s, [c EXCEPT !.claim = [name |-> n, next |-> next]])
        BY <1>4, <2>1, <3>1 DEF TickReads
      <4>2. handlers[p][n] \in Specs
        BY <1>4 DEF TickReads, Registered
      <4>3. next \in PlanTypes
        BY <2>2, <4>2, PlansTyped DEF Plan
      <4>4. [c EXCEPT !.claim = [name |-> n, next |-> next]] \in CallTypes
        BY <2>2, <4>3 DEF TickCalls, CallTypes
      <4> QED BY <4>1, <4>4, OneCall
    <3>2. CASE ~IsDue(n, c.t)
      BY <1>4, <2>1, <2>2, <3>2, VisitedTyped, OneCall DEF TickReads
    <3> QED BY <3>1, <3>2
  <2> QED BY <1>4, <2>3 DEF TickReads
<1>5. CASE TickClaims(p, s)
  <2>1. PICK c \in CallTypes : c = calls[p][s]
    OBVIOUS
  <2>2. PICK n \in Names : n = c.claim.name
    BY <1>5, <2>1, TickTyped DEF TickClaims
  <2>3. c \in TickCalls /\ c.claim.next \in PlanTypes
    BY <1>5, <2>1, TickTyped DEF TickClaims
  <2>4. calls' \in [Processes -> [Slots -> CallTypes]]
    BY <1>5, <2>1, <2>2, <2>3, VisitedTyped, OneCall, SMTT(40) DEF TickClaims
  <2>5. rows' \in [Names -> RowTypes] /\ ran' \in [Names -> Seq(Nat)]
    <3>1. CASE Claims(n, c.t)
      <4>1. /\ rows' = [rows EXCEPT ![n].next = c.claim.next]
            /\ ran' = [ran EXCEPT ![n] = Append(@, rows[n].next.base)]
        BY <1>5, <2>1, <2>2, <3>1 DEF TickClaims
      <4>2. rows[n] # None /\ rows[n] \in RowTypes
        BY <3>1 DEF Claims, IsDue
      <4>3. [rows[n] EXCEPT !.next = c.claim.next] \in RowTypes
        BY <2>3, <4>2, RowSet
      <4>4. rows[n].next.base \in Nat
        BY <4>2, RowTyped
      <4> QED BY <4>1, <4>3, <4>4
    <3>2. CASE ~Claims(n, c.t)
      BY <1>5, <2>1, <2>2, <3>2 DEF TickClaims
    <3> QED BY <3>1, <3>2
  <2> QED BY <1>5, <2>4, <2>5 DEF TickClaims
<1> QED BY <1>1, <1>2, <1>3, <1>4, <1>5 DEF CallStep

LEMMA TypeStep ==
    ASSUME TypeOK, [Next]_vars
    PROVE  TypeOK'
<1> USE DEF TypeOK
<1>1. ASSUME NEW p \in Processes, NEW s \in Slots, NEW n \in Names, NEW e \in Specs,
             ScheduleReads(p, s, n, e)
      PROVE  TypeOK'
  <2>1. PICK next \in NextFor(n, e) :
          SetCall(p, s, [kind |-> "schedule", name |-> n, spec |-> e, next |-> next,
                         existing |-> rows[n]])
    BY <1>1 DEF ScheduleReads
  <2>2. [kind |-> "schedule", name |-> n, spec |-> e, next |-> next,
         existing |-> rows[n]] \in CallTypes
    BY NextTyped DEF CallTypes, ScheduleCalls
  <2>3. calls' \in [Processes -> [Slots -> CallTypes]]
    BY <2>1, <2>2, OneCall
  <2>4. used' \in 0..MaxCalls
    BY <1>1, CronAssumption DEF ScheduleReads
  <2> QED BY <1>1, <2>3, <2>4 DEF ScheduleReads
<1>2. ASSUME NEW p \in Processes, NEW s \in Slots, NEW n \in Names, Unschedule(p, s, n)
      PROVE  TypeOK'
  <2>1. [kind |-> "unschedule", name |-> n] \in CallTypes
    BY DEF CallTypes
  <2>2. \A x \in Slots : Forgotten(p, calls[p][x], n) \in CallTypes
    BY ForgottenTyped
  <2>3. calls' \in [Processes -> [Slots -> CallTypes]]
    BY <1>2, <2>1, <2>2 DEF Unschedule
  <2>4. used' \in 0..MaxCalls
    BY <1>2, CronAssumption DEF Unschedule
  <2>5. handlers' \in [Processes -> [Names -> Specs \cup {None}]]
    BY <1>2 DEF Unschedule
  <2> QED BY <1>2, <2>3, <2>4, <2>5 DEF Unschedule
<1>3. ASSUME NEW p \in Processes, Stop(p)
      PROVE  TypeOK'
  BY <1>3, CronAssumption DEF Stop
<1>4. ASSUME NEW p \in Processes, Crash(p)
      PROVE  TypeOK'
  BY <1>4, CronAssumption DEF Crash, CallTypes
<1>5. CASE Clock
  BY <1>5, CronAssumption DEF Clock
<1>6. CASE UNCHANGED vars
  BY <1>6 DEF vars
<1> QED BY <1>1, <1>2, <1>3, <1>4, <1>5, <1>6, TypeCall DEF Next

(* The table, the calls and the histories keep their types. *)
THEOREM TypeCorrect == Spec => []TypeOK
<1>1. Init => TypeOK
  BY CronAssumption DEF Init, TypeOK, RowTypes, CallTypes
<1>2. TypeOK /\ [Next]_vars => TypeOK'
  BY TypeStep
<1> QED BY <1>1, <1>2, PTL DEF Spec

-----------------------------------------------------------------------------
(* No run is planned before the occurrence it delays, every occurrence that *)
(* has been fired is before the one that its row waits for, and a tick that *)
(* is about to claim holds one after the time it began.                     *)
RowsPlanned ==
    \A n \in Names : rows[n] # None => rows[n].next.base <= rows[n].next.at

FiredBehindRow ==
    \A n \in Names : rows[n] # None =>
      \A i \in DOMAIN ran[n] : written[n] < i => ran[n][i] < rows[n].next.base

CallPlanned(c) ==
    /\ c.kind = "schedule" => Plan(c.next)
    /\ (c.kind = "tick" /\ c.claim # None)
         => Plan(c.claim.next) /\ c.t < c.claim.next.base

CallsPlanned == \A p \in Processes, s \in Slots : CallPlanned(calls[p][s])

OInv == TypeOK /\ RowsPlanned /\ FiredBehindRow /\ CallsPlanned /\ ClaimedOnce

(* A step that writes no row and fires nothing. *)
LEMMA QuietStep ==
    ASSUME OInv, TypeOK', CallsPlanned', UNCHANGED <<rows, ran, written>>
    PROVE  OInv'
BY DEF OInv, RowsPlanned, FiredBehindRow, ClaimedOnce

LEMMA OneCallPlanned ==
    ASSUME OInv, NEW p \in Processes, NEW s \in Slots, NEW c, SetCall(p, s, c),
           CallPlanned(c)
    PROVE  CallsPlanned'
<1>1. calls \in [Processes -> [Slots -> CallTypes]]
  BY DEF OInv, TypeOK
<1>2. \A q \in Processes, x \in Slots :
        calls'[q][x] = c \/ calls'[q][x] = calls[q][x]
  BY <1>1, OneCall
<1>3. \A q \in Processes, x \in Slots : CallPlanned(calls[q][x])
  BY DEF OInv, CallsPlanned
<1>4. \A q \in Processes, x \in Slots : CallPlanned(calls'[q][x])
  BY <1>2, <1>3
<1> QED BY <1>4 DEF CallsPlanned

LEMMA IdlePlanned == CallPlanned(Idle)
BY DEF CallPlanned, Idle

LEMMA NextPlanned ==
    ASSUME OInv, NEW n \in Names, NEW e \in Specs, NEW next \in NextFor(n, e)
    PROVE  Plan(next)
<1>1. CASE next = rows[n].next /\ rows[n] # None
  BY <1>1, RowTyped DEF OInv, TypeOK, RowsPlanned, Plan
<1>2. CASE next \in Plans(e, now)
  BY <1>2, PlansTyped DEF OInv, TypeOK
<1> QED BY <1>1, <1>2 DEF NextFor

(* The write of schedule() begins a new history of its row. *)
LEMMA WriteOrdered ==
    ASSUME OInv, TypeOK', NEW p \in Processes, NEW s \in Slots, ScheduleWrites(p, s)
    PROVE  OInv'
<1>1. PICK c \in CallTypes : c = calls[p][s]
  BY DEF OInv, TypeOK
<1>2. c.kind = "schedule" /\ Plan(c.next) /\ c.name \in Names
  BY <1>1, ScheduleTyped DEF ScheduleWrites, OInv, CallsPlanned, CallPlanned
<1>3. PICK n \in Names : n = c.name
  BY <1>2
<1>4. /\ rows' = [rows EXCEPT ![n] = [cron |-> c.spec.cron, next |-> c.next]]
      /\ written' = [written EXCEPT ![n] = Len(ran[n])] /\ ran' = ran
  BY <1>1, <1>3 DEF ScheduleWrites
<1>5. /\ rows'[n].next = c.next /\ written'[n] = Len(ran[n])
      /\ \A m \in Names : m # n => rows'[m] = rows[m] /\ written'[m] = written[m]
  BY <1>4 DEF OInv, TypeOK
<1>6. DOMAIN ran[n] = 1..Len(ran[n]) /\ Len(ran[n]) \in Nat
  BY DEF OInv, TypeOK
<1>7. RowsPlanned'
  BY <1>2, <1>5 DEF OInv, RowsPlanned, Plan
<1>8. FiredBehindRow'
  BY <1>4, <1>5, <1>6 DEF OInv, FiredBehindRow
<1>9. ClaimedOnce'
  <2>1. \A m \in Names : \A i, j \in DOMAIN ran[m] :
          written'[m] < i /\ i < j => ran[m][i] < ran[m][j]
    BY <1>5, <1>6 DEF OInv, ClaimedOnce
  <2> QED BY <1>4, <2>1 DEF ClaimedOnce
<1>10. CallsPlanned'
  BY IdlePlanned, OneCallPlanned DEF ScheduleWrites
<1> QED BY <1>7, <1>8, <1>9, <1>10 DEF OInv

(* A claim fires the occurrence that the row waited for, which is not after *)
(* the time its tick began, and leaves the row waiting for one that is.     *)
LEMMA ClaimOrdered ==
    ASSUME OInv, TypeOK', NEW p \in Processes, NEW s \in Slots, TickClaims(p, s)
    PROVE  OInv'
<1>1. PICK c \in CallTypes : c = calls[p][s]
  BY DEF OInv, TypeOK
<1>2. c.kind = "tick" /\ c.claim # None
  BY <1>1 DEF TickClaims
<1>3. /\ Plan(c.claim.next) /\ c.t < c.claim.next.base
      /\ c \in TickCalls /\ c.t \in Nat
  <2>1. c.t \in 0..MaxTime /\ c \in TickCalls
    BY <1>2, TickTyped
  <2>2. Plan(c.claim.next) /\ c.t < c.claim.next.base
    BY <1>1, <1>2 DEF OInv, CallsPlanned, CallPlanned
  <2> QED BY <2>1, <2>2
<1>4. PICK n \in Names : n = c.claim.name
  BY <1>2, TickTyped
<1>5. CallsPlanned'
  <2>1. CallPlanned(Visited(p, c, n))
    BY <1>3, VisitedTyped DEF CallPlanned
  <2> QED BY <1>1, <1>4, <2>1, OneCallPlanned DEF TickClaims
<1>6. CASE ~Claims(n, c.t)
  BY <1>1, <1>4, <1>5, <1>6, QuietStep DEF TickClaims
<1>7. CASE Claims(n, c.t)
  <2>1. /\ rows' = [rows EXCEPT ![n].next = c.claim.next]
        /\ ran' = [ran EXCEPT ![n] = Append(@, rows[n].next.base)]
        /\ written' = written
    BY <1>1, <1>4, <1>7 DEF TickClaims
  <2>2. rows[n] # None /\ rows[n] \in RowTypes /\ rows[n].next.at <= c.t
    BY <1>7 DEF Claims, IsDue, OInv, TypeOK
  <2>3. /\ rows[n].next.base \in Nat /\ rows[n].next.at \in Nat
        /\ rows[n].next.base <= rows[n].next.at
    BY <2>2, RowTyped DEF OInv, RowsPlanned
  <2>4. rows'[n].next = c.claim.next
    BY <1>3, <2>1, <2>2, RowSet DEF OInv, TypeOK, Plan
  <2>5. rows[n].next.base < c.claim.next.base
    <3>1. c.claim.next.base \in Nat
      BY <1>3 DEF Plan, PlanTypes
    <3> QED BY <1>3, <2>2, <2>3, <3>1
  <2>6. \A m \in Names : m # n => rows'[m] = rows[m] /\ ran'[m] = ran[m]
    BY <2>1 DEF OInv, TypeOK
  <2>7. PICK old \in Seq(Nat) : old = ran[n]
    BY DEF OInv, TypeOK
  <2>8. ran'[n] = Append(old, rows[n].next.base)
    BY <2>1, <2>7 DEF OInv, TypeOK
  <2>9. /\ DOMAIN ran'[n] = 1..(Len(old) + 1) /\ Len(old) \in Nat
        /\ \A i \in 1..Len(old) : ran'[n][i] = old[i] /\ old[i] \in Nat
        /\ ran'[n][Len(old) + 1] = rows[n].next.base
    BY <2>3, <2>8
  <2>10. \A i \in 1..Len(old) : written[n] < i => old[i] < rows[n].next.base
    BY <2>2, <2>7 DEF OInv, FiredBehindRow
  <2>11. RowsPlanned'
    BY <1>3, <2>4, <2>6 DEF OInv, RowsPlanned, Plan
  <2>12. FiredBehindRow'
    <3>1. \A i \in DOMAIN ran'[n] : written[n] < i => ran'[n][i] < rows'[n].next.base
      <4>1. c.claim.next.base \in Nat
        BY <1>3 DEF Plan, PlanTypes
      <4>2. ASSUME NEW i \in 1..Len(old) + 1, written[n] < i
            PROVE  ran'[n][i] < c.claim.next.base
        <5>1. CASE i \in 1..Len(old)
          <6>1. old[i] < rows[n].next.base
            BY <2>10, <4>2, <5>1
          <6>2. ran'[n][i] = old[i] /\ old[i] \in Nat
            BY <2>9, <5>1
          <6> QED BY <2>3, <2>5, <4>1, <6>1, <6>2
        <5>2. CASE i = Len(old) + 1
          BY <2>5, <2>9, <5>2
        <5> QED BY <2>9, <4>2, <5>1, <5>2
      <4>3. DOMAIN ran'[n] = 1..Len(old) + 1
        BY <2>9
      <4> QED BY <2>4, <4>2, <4>3
    <3> QED BY <2>1, <2>6, <3>1 DEF OInv, FiredBehindRow
  <2>13. ClaimedOnce'
    <3>1. \A i, j \in 1..Len(old) : written[n] < i /\ i < j => old[i] < old[j]
      BY <2>7 DEF OInv, ClaimedOnce
    <3>2. \A i, j \in DOMAIN ran'[n] :
            written[n] < i /\ i < j => ran'[n][i] < ran'[n][j]
      <4>1. ASSUME NEW i \in 1..Len(old) + 1, NEW j \in 1..Len(old) + 1,
                   written[n] < i, i < j
            PROVE  ran'[n][i] < ran'[n][j]
        <5>1. i \in 1..Len(old)
          BY <2>9, <4>1
        <5>2. CASE j \in 1..Len(old)
          BY <2>9, <3>1, <4>1, <5>1, <5>2
        <5>3. CASE j = Len(old) + 1
          <6>1. old[i] < rows[n].next.base
            BY <2>10, <4>1, <5>1
          <6> QED BY <2>9, <5>1, <5>3, <6>1
        <5> QED BY <2>9, <5>2, <5>3
      <4> QED BY <2>9, <4>1
    <3> QED BY <2>1, <2>6, <3>2 DEF OInv, ClaimedOnce
  <2> QED BY <1>5, <2>11, <2>12, <2>13, SMTT(40) DEF OInv
<1> QED BY <1>6, <1>7

LEMMA OrderStep ==
    ASSUME OInv, [Next]_vars, NextGoesForward
    PROVE  OInv'
<1>0. TypeOK'
  BY TypeStep DEF OInv
<1>1. ASSUME NEW p \in Processes, NEW s \in Slots, NEW n \in Names, NEW e \in Specs,
             ScheduleReads(p, s, n, e)
      PROVE  OInv'
  <2>1. PICK next \in NextFor(n, e) :
          SetCall(p, s, [kind |-> "schedule", name |-> n, spec |-> e, next |-> next,
                         existing |-> rows[n]])
    BY <1>1 DEF ScheduleReads
  <2>2. CallPlanned([kind |-> "schedule", name |-> n, spec |-> e, next |-> next,
                     existing |-> rows[n]])
    BY NextPlanned DEF CallPlanned
  <2> QED BY <1>0, <1>1, <2>1, <2>2, OneCallPlanned, QuietStep DEF ScheduleReads
<1>2. ASSUME NEW p \in Processes, NEW s \in Slots, NEW n \in Names, Unschedule(p, s, n)
      PROVE  OInv'
  <2>1. calls \in [Processes -> [Slots -> CallTypes]]
        /\ \A q \in Processes, x \in Slots : CallPlanned(calls[q][x])
    BY DEF OInv, TypeOK, CallsPlanned
  <2>2. \A x \in Slots : CallPlanned(Forgotten(p, calls[p][x], n))
    BY <2>1, ForgottenTyped DEF CallPlanned
  <2>3. CallPlanned([kind |-> "unschedule", name |-> n])
    BY DEF CallPlanned
  <2>4. \A q \in Processes, x \in Slots : CallPlanned(calls'[q][x])
    BY <1>2, <2>1, <2>2, <2>3 DEF Unschedule
  <2> QED BY <1>0, <1>2, <2>4, QuietStep DEF Unschedule, CallsPlanned
<1>3. ASSUME NEW p \in Processes, Stop(p)
      PROVE  OInv'
  BY <1>0, <1>3, QuietStep DEF Stop, OInv, CallsPlanned
<1>4. ASSUME NEW p \in Processes, Crash(p)
      PROVE  OInv'
  <2>1. \A q \in Processes, x \in Slots :
          calls'[q][x] = Idle \/ calls'[q][x] = calls[q][x]
    BY <1>4 DEF Crash, OInv, TypeOK
  <2>2. \A q \in Processes, x \in Slots : CallPlanned(calls'[q][x])
    BY <2>1, IdlePlanned DEF OInv, CallsPlanned
  <2> QED BY <1>0, <1>4, <2>2, QuietStep DEF Crash, CallsPlanned
<1>5. CASE Clock
  BY <1>0, <1>5, QuietStep DEF Clock, OInv, CallsPlanned
<1>6. CASE UNCHANGED vars
  BY <1>0, <1>6, QuietStep DEF vars, OInv, CallsPlanned
<1>7. ASSUME NEW p \in Processes, NEW s \in Slots, UnscheduleDeletes(p, s)
      PROVE  OInv'
  <2>1. CallsPlanned'
    BY <1>7, IdlePlanned, OneCallPlanned DEF UnscheduleDeletes
  <2>2. \A m \in Names : rows'[m] = None \/ rows'[m] = rows[m]
    BY <1>7 DEF UnscheduleDeletes, OInv, TypeOK
  <2>3. ran' = ran /\ written' = written
    BY <1>7 DEF UnscheduleDeletes
  <2> QED BY <1>0, <2>1, <2>2, <2>3
          DEF OInv, RowsPlanned, FiredBehindRow, ClaimedOnce
<1>8. ASSUME NEW p \in Processes, NEW s \in Slots, TickBegins(p, s)
      PROVE  OInv'
  <2>1. CallPlanned([kind |-> "tick", t |-> now, seen |-> {}, claim |-> None])
    BY DEF CallPlanned
  <2> QED BY <1>0, <1>8, <2>1, OneCallPlanned, QuietStep DEF TickBegins
<1>9. ASSUME NEW p \in Processes, NEW s \in Slots, NEW n \in Names, TickReads(p, s, n)
      PROVE  OInv'
  <2>1. PICK c \in CallTypes : c = calls[p][s]
    BY DEF OInv, TypeOK
  <2>2. c \in TickCalls /\ c.t \in 0..MaxTime
    BY <1>9, <2>1, TickTyped DEF TickReads
  <2>3. CallsPlanned'
    <3>1. CASE IsDue(n, c.t)
      <4>1. PICK next \in Plans(handlers[p][n], c.t) :
              SetCall(p, s, [c EXCEPT !.claim = [name |-> n, next |-> next]])
        BY <1>9, <2>1, <3>1 DEF TickReads
      <4>2. handlers[p][n] \in Specs
        BY <1>9 DEF TickReads, Registered, OInv, TypeOK
      <4>3. Plan(next) /\ next.base > c.t
        BY <2>2, <4>2, PlansTyped DEF NextGoesForward
      <4>4. PICK d : d = [c EXCEPT !.claim = [name |-> n, next |-> next]]
        OBVIOUS
      <4>5. d.kind = "tick" /\ d.t = c.t /\ d.claim = [name |-> n, next |-> next]
        BY <2>2, <4>4 DEF TickCalls
      <4>6. c.t < next.base
        BY <2>2, <4>3 DEF Plan, PlanTypes
      <4>7. CallPlanned(d)
        BY <4>3, <4>5, <4>6 DEF CallPlanned
      <4> QED BY <4>1, <4>4, <4>7, OneCallPlanned
    <3>2. CASE ~IsDue(n, c.t)
      <4>1. CallPlanned(Visited(p, c, n))
        BY <2>2, VisitedTyped DEF CallPlanned
      <4> QED BY <1>9, <2>1, <3>2, <4>1, OneCallPlanned DEF TickReads
    <3> QED BY <3>1, <3>2
  <2> QED BY <1>0, <1>9, <2>3, QuietStep DEF TickReads
<1> QED BY <1>0, <1>1, <1>2, <1>3, <1>4, <1>5, <1>6, <1>7, <1>8, <1>9,
            WriteOrdered, ClaimOrdered DEF Next, CallStep

(* The claim, "UPDATE ... WHERE next_run <= ?", fires each occurrence once  *)
(* and in order between two writes of the row by schedule(), for any        *)
(* processes, crashes and overlapping ticks, if nextCronRun() leads forward.*)
THEOREM OccurrencesFireOnce ==
    ASSUME NextGoesForward
    PROVE  Spec => []ClaimedOnce
<1>1. Init => OInv
  <2>1. Init => TypeOK
    BY CronAssumption DEF Init, TypeOK, RowTypes, CallTypes
  <2>2. ASSUME Init
        PROVE  RowsPlanned /\ FiredBehindRow /\ CallsPlanned /\ ClaimedOnce
    BY <2>2, IdlePlanned DEF Init, RowsPlanned, FiredBehindRow, CallsPlanned, ClaimedOnce
  <2> QED BY <2>1, <2>2 DEF OInv
<1>2. OInv /\ [Next]_vars => OInv'
  BY OrderStep
<1>3. OInv => ClaimedOnce
  BY DEF OInv
<1> QED BY <1>1, <1>2, <1>3, PTL DEF Spec

-----------------------------------------------------------------------------
(* No run is planned before the occurrence it delays, and a schedule() that *)
(* has found its expression in the row keeps the run that it found there.   *)
(* Neither needs nextCronRun() to lead forward.                             *)
CallHeld(c) ==
    /\ c.kind = "schedule" =>
          /\ Plan(c.next)
          /\ c.existing # None /\ c.existing.cron = c.spec.cron => c.next = c.existing.next
    /\ c.kind = "tick" /\ c.claim # None => Plan(c.claim.next)

CallsHeld == \A p \in Processes, s \in Slots : CallHeld(calls[p][s])

DInv == TypeOK /\ RowsPlanned /\ CallsHeld

LEMMA OneCallHeld ==
    ASSUME DInv, NEW p \in Processes, NEW s \in Slots, NEW c, SetCall(p, s, c), CallHeld(c)
    PROVE  CallsHeld'
<1>1. calls \in [Processes -> [Slots -> CallTypes]]
  BY DEF DInv, TypeOK
<1>2. \A q \in Processes, x \in Slots :
        calls'[q][x] = c \/ calls'[q][x] = calls[q][x]
  BY <1>1, OneCall
<1>3. \A q \in Processes, x \in Slots : CallHeld(calls[q][x])
  BY DEF DInv, CallsHeld
<1>4. \A q \in Processes, x \in Slots : CallHeld(calls'[q][x])
  BY <1>2, <1>3
<1> QED BY <1>4 DEF CallsHeld

LEMMA IdleHeld == CallHeld(Idle)
BY DEF CallHeld, Idle

(* What schedule() is about to write. *)
LEMMA ScheduleHeld ==
    ASSUME DInv, NEW n \in Names, NEW e \in Specs, NEW next \in NextFor(n, e)
    PROVE  CallHeld([kind |-> "schedule", name |-> n, spec |-> e, next |-> next,
                     existing |-> rows[n]])
<1>1. Plan(next)
  <2>1. CASE next = rows[n].next /\ rows[n] # None
    BY <2>1, RowTyped DEF DInv, TypeOK, RowsPlanned, Plan
  <2>2. CASE next \in Plans(e, now)
    BY <2>2, PlansTyped DEF DInv, TypeOK
  <2> QED BY <2>1, <2>2 DEF NextFor
<1>2. rows[n] # None /\ rows[n].cron = e.cron => next = rows[n].next
  BY DEF NextFor
<1> QED BY <1>1, <1>2 DEF CallHeld

(* A tick that has read a name. *)
LEMMA ReadHeld ==
    ASSUME DInv, NEW p \in Processes, NEW s \in Slots, NEW n \in Names, TickReads(p, s, n)
    PROVE  CallsHeld'
<1>1. PICK c \in CallTypes : c = calls[p][s]
  BY DEF DInv, TypeOK
<1>2. c \in TickCalls /\ c.t \in 0..MaxTime
  BY <1>1, TickTyped DEF TickReads
<1>3. CASE IsDue(n, c.t)
  <2>1. PICK next \in Plans(handlers[p][n], c.t) :
          SetCall(p, s, [c EXCEPT !.claim = [name |-> n, next |-> next]])
    BY <1>1, <1>3 DEF TickReads
  <2>2. handlers[p][n] \in Specs
    BY DEF TickReads, Registered, DInv, TypeOK
  <2>3. Plan(next)
    BY <1>2, <2>2, PlansTyped
  <2>4. PICK d : d = [c EXCEPT !.claim = [name |-> n, next |-> next]]
    OBVIOUS
  <2>5. d.kind = "tick" /\ d.claim = [name |-> n, next |-> next]
    BY <1>2, <2>4 DEF TickCalls
  <2>6. CallHeld(d)
    BY <2>3, <2>5 DEF CallHeld
  <2> QED BY <2>1, <2>4, <2>6, OneCallHeld
<1>4. CASE ~IsDue(n, c.t)
  <2>1. CallHeld(Visited(p, c, n))
    BY <1>2, VisitedTyped DEF CallHeld
  <2> QED BY <1>1, <1>4, <2>1, OneCallHeld DEF TickReads
<1> QED BY <1>3, <1>4

(* The two statements that write a row. *)
LEMMA ScheduleKeepsPlans ==
    ASSUME DInv, NEW p \in Processes, NEW s \in Slots, ScheduleWrites(p, s)
    PROVE  RowsPlanned' /\ CallsHeld'
<1>1. PICK c \in CallTypes : c = calls[p][s]
  BY DEF DInv, TypeOK
<1>2. c.kind = "schedule" /\ Plan(c.next) /\ c.name \in Names
  BY <1>1, ScheduleTyped DEF ScheduleWrites, DInv, CallsHeld, CallHeld
<1>3. rows' = [rows EXCEPT ![c.name] = [cron |-> c.spec.cron, next |-> c.next]]
  BY <1>1 DEF ScheduleWrites
<1>4. rows'[c.name].next = c.next /\ \A m \in Names : m # c.name => rows'[m] = rows[m]
  BY <1>2, <1>3 DEF DInv, TypeOK
<1>5. RowsPlanned'
  BY <1>2, <1>4 DEF DInv, RowsPlanned, Plan
<1> QED BY <1>5, IdleHeld, OneCallHeld DEF ScheduleWrites

LEMMA ClaimKeepsPlans ==
    ASSUME DInv, NEW p \in Processes, NEW s \in Slots, TickClaims(p, s)
    PROVE  RowsPlanned' /\ CallsHeld'
<1>1. PICK c \in CallTypes : c = calls[p][s]
  BY DEF DInv, TypeOK
<1>2. c.kind = "tick" /\ c.claim # None /\ Plan(c.claim.next)
  BY <1>1 DEF TickClaims, DInv, CallsHeld, CallHeld
<1>3. c \in TickCalls
  BY <1>2, TickTyped
<1>4. PICK n \in Names : n = c.claim.name
  BY <1>2, TickTyped
<1>5. CallsHeld'
  <2>1. CallHeld(Visited(p, c, n))
    BY <1>3, VisitedTyped DEF CallHeld
  <2> QED BY <1>1, <1>4, <2>1, OneCallHeld DEF TickClaims
<1>6. CASE ~Claims(n, c.t)
  BY <1>1, <1>4, <1>5, <1>6 DEF TickClaims, DInv, RowsPlanned
<1>7. CASE Claims(n, c.t)
  <2>1. rows' = [rows EXCEPT ![n].next = c.claim.next]
    BY <1>1, <1>4, <1>7 DEF TickClaims
  <2>2. rows[n] # None /\ rows[n] \in RowTypes
    BY <1>7 DEF Claims, IsDue, DInv, TypeOK
  <2>3. rows'[n].next = c.claim.next
    BY <1>2, <2>1, <2>2, RowSet DEF DInv, TypeOK, Plan
  <2>4. \A m \in Names : m # n => rows'[m] = rows[m]
    BY <2>1 DEF DInv, TypeOK
  <2>5. RowsPlanned'
    BY <1>2, <2>3, <2>4 DEF DInv, RowsPlanned, Plan
  <2> QED BY <1>5, <2>5, SMTT(40)
<1> QED BY <1>6, <1>7

LEMMA HeldStep ==
    ASSUME DInv, [Next]_vars
    PROVE  DInv'
<1>0. TypeOK'
  BY TypeStep DEF DInv
<1> SUFFICES RowsPlanned' /\ CallsHeld'
  BY <1>0 DEF DInv
<1>1. ASSUME NEW p \in Processes, NEW s \in Slots, NEW n \in Names, NEW e \in Specs,
             ScheduleReads(p, s, n, e)
      PROVE  RowsPlanned' /\ CallsHeld'
  <2>1. PICK next \in NextFor(n, e) :
          SetCall(p, s, [kind |-> "schedule", name |-> n, spec |-> e, next |-> next,
                         existing |-> rows[n]])
    BY <1>1 DEF ScheduleReads
  <2> QED BY <1>1, <2>1, ScheduleHeld, OneCallHeld DEF ScheduleReads, DInv, RowsPlanned
<1>2. ASSUME NEW p \in Processes, NEW s \in Slots, NEW n \in Names, Unschedule(p, s, n)
      PROVE  RowsPlanned' /\ CallsHeld'
  <2>1. calls \in [Processes -> [Slots -> CallTypes]]
        /\ \A q \in Processes, x \in Slots : CallHeld(calls[q][x])
    BY DEF DInv, TypeOK, CallsHeld
  <2>2. \A x \in Slots : CallHeld(Forgotten(p, calls[p][x], n))
    BY <2>1, ForgottenTyped DEF CallHeld
  <2>3. CallHeld([kind |-> "unschedule", name |-> n])
    BY DEF CallHeld
  <2>4. \A q \in Processes, x \in Slots : CallHeld(calls'[q][x])
    BY <1>2, <2>1, <2>2, <2>3 DEF Unschedule
  <2> QED BY <1>2, <2>4 DEF Unschedule, CallsHeld, DInv, RowsPlanned
<1>3. ASSUME NEW p \in Processes, Crash(p)
      PROVE  RowsPlanned' /\ CallsHeld'
  <2>1. \A q \in Processes, x \in Slots :
          calls'[q][x] = Idle \/ calls'[q][x] = calls[q][x]
    BY <1>3 DEF Crash, DInv, TypeOK
  <2>2. \A q \in Processes, x \in Slots : CallHeld(calls'[q][x])
    BY <2>1, IdleHeld DEF DInv, CallsHeld
  <2> QED BY <1>3, <2>2 DEF Crash, CallsHeld, DInv, RowsPlanned
<1>4. CASE Clock \/ UNCHANGED vars \/ \E p \in Processes : Stop(p)
  BY <1>4 DEF Clock, vars, Stop, DInv, RowsPlanned, CallsHeld
<1>5. ASSUME NEW p \in Processes, NEW s \in Slots, UnscheduleDeletes(p, s)
      PROVE  RowsPlanned' /\ CallsHeld'
  <2>1. \A m \in Names : rows'[m] = None \/ rows'[m] = rows[m]
    BY <1>5 DEF UnscheduleDeletes, DInv, TypeOK
  <2> QED BY <1>5, <2>1, IdleHeld, OneCallHeld DEF UnscheduleDeletes, DInv, RowsPlanned
<1>6. ASSUME NEW p \in Processes, NEW s \in Slots, TickBegins(p, s)
      PROVE  RowsPlanned' /\ CallsHeld'
  <2>1. CallHeld([kind |-> "tick", t |-> now, seen |-> {}, claim |-> None])
    BY DEF CallHeld
  <2> QED BY <1>6, <2>1, OneCallHeld DEF TickBegins, DInv, RowsPlanned
<1>7. ASSUME NEW p \in Processes, NEW s \in Slots, NEW n \in Names, TickReads(p, s, n)
      PROVE  RowsPlanned' /\ CallsHeld'
  BY <1>7, ReadHeld DEF TickReads, DInv, RowsPlanned
<1> QED BY <1>1, <1>2, <1>3, <1>4, <1>5, <1>6, <1>7, ScheduleKeepsPlans, ClaimKeepsPlans
        DEF Next, CallStep

-----------------------------------------------------------------------------
(* Why a step keeps the occurrence that is due in a row, or fires it. *)
KeptOrFired(n) ==
    (/\ IsDue(n, now) /\ rows'[n] # None /\ rows'[n].cron = rows[n].cron
     /\ \A p \in Processes, s \in Slots : ~Outdated(p, s, n))
      => rows'[n].next.base <= now \/ ran'[n] # ran[n]

LEMMA RowLeftAlone ==
    ASSUME DInv, NEW n \in Names, rows'[n] = rows[n]
    PROVE  KeptOrFired(n)
<1> SUFFICES ASSUME IsDue(n, now) PROVE rows'[n].next.base <= now
  BY DEF KeptOrFired
<1>1. rows[n] # None /\ rows[n].next.at <= now /\ rows[n].next.base <= rows[n].next.at
  BY DEF IsDue, DInv, RowsPlanned
<1>2. rows[n].next.base \in Nat /\ rows[n].next.at \in Nat /\ now \in Nat
  BY <1>1, RowTyped DEF DInv, TypeOK
<1> QED BY <1>1, <1>2

(* A schedule() of the same expression that is up to date writes back what  *)
(* the row held.                                                            *)
LEMMA ScheduleKeepsDue ==
    ASSUME DInv, NEW p \in Processes, NEW s \in Slots, ScheduleWrites(p, s), NEW n \in Names
    PROVE  KeptOrFired(n)
<1>1. PICK c \in CallTypes : c = calls[p][s]
  BY DEF DInv, TypeOK
<1>2. c.kind = "schedule" /\ c.name \in Names /\ CallHeld(c)
  BY <1>1, ScheduleTyped DEF ScheduleWrites, DInv, CallsHeld
<1>3. rows' = [rows EXCEPT ![c.name] = [cron |-> c.spec.cron, next |-> c.next]]
  BY <1>1 DEF ScheduleWrites
<1>4. CASE n # c.name
  BY <1>2, <1>3, <1>4, RowLeftAlone DEF DInv, TypeOK
<1>5. CASE n = c.name
  <2> SUFFICES ASSUME IsDue(n, now), rows'[n].cron = rows[n].cron, ~Outdated(p, s, n)
               PROVE  rows'[n].next.base <= now
    BY DEF KeptOrFired
  <2>1. rows'[n] = [cron |-> c.spec.cron, next |-> c.next]
    BY <1>3, <1>5 DEF DInv, TypeOK
  <2>2. c.existing = rows[n] /\ rows[n] # None
    BY <1>1, <1>2, <1>5 DEF Outdated, IsDue
  <2>3. c.next = rows[n].next
    BY <1>2, <2>1, <2>2 DEF CallHeld
  <2>4. rows[n].next.at <= now /\ rows[n].next.base <= rows[n].next.at
    BY <2>2 DEF IsDue, DInv, RowsPlanned
  <2>5. rows[n].next.base \in Nat /\ rows[n].next.at \in Nat /\ now \in Nat
    BY <2>2, RowTyped DEF DInv, TypeOK
  <2> QED BY <2>1, <2>3, <2>4, <2>5
<1> QED BY <1>4, <1>5

(* A claim that moves a row on has fired what the row waited for. *)
LEMMA ClaimFiresDue ==
    ASSUME DInv, NEW p \in Processes, NEW s \in Slots, TickClaims(p, s), NEW n \in Names
    PROVE  KeptOrFired(n)
<1>1. PICK c \in CallTypes : c = calls[p][s]
  BY DEF DInv, TypeOK
<1>2. c.kind = "tick" /\ c.claim # None
  BY <1>1 DEF TickClaims
<1>3. PICK m \in Names : m = c.claim.name
  BY <1>2, TickTyped
<1>4. CASE ~Claims(m, c.t)
  BY <1>1, <1>3, <1>4, RowLeftAlone DEF TickClaims
<1>5. CASE Claims(m, c.t)
  <2>1. /\ rows' = [rows EXCEPT ![m].next = c.claim.next]
        /\ ran' = [ran EXCEPT ![m] = Append(@, rows[m].next.base)]
    BY <1>1, <1>3, <1>5 DEF TickClaims
  <2>2. CASE n # m
    BY <2>1, <2>2, RowLeftAlone DEF DInv, TypeOK
  <2>3. CASE n = m
    <3>1. ran[n] \in Seq(Nat) /\ ran'[n] = Append(ran[n], rows[n].next.base)
      BY <2>1, <2>3 DEF DInv, TypeOK
    <3>2. Len(ran'[n]) = Len(ran[n]) + 1 /\ Len(ran[n]) \in Nat
      BY <3>1
    <3>3. ran'[n] # ran[n]
      BY <3>2
    <3> QED BY <3>3 DEF KeptOrFired
  <2> QED BY <2>2, <2>3, SMTT(40)
<1> QED BY <1>4, <1>5

LEMMA DueStep ==
    ASSUME DInv, [Next]_vars, NEW n \in Names
    PROVE  KeptOrFired(n)
<1>1. ASSUME NEW p \in Processes, NEW s \in Slots, UnscheduleDeletes(p, s)
      PROVE  KeptOrFired(n)
  <2>1. rows'[n] = None \/ rows'[n] = rows[n]
    BY <1>1 DEF UnscheduleDeletes, DInv, TypeOK
  <2> QED BY <2>1, RowLeftAlone DEF KeptOrFired
<1>2. CASE rows' = rows
  BY <1>2, RowLeftAlone
<1>3. \/ rows' = rows
      \/ \E p \in Processes, s \in Slots :
            ScheduleWrites(p, s) \/ UnscheduleDeletes(p, s) \/ TickClaims(p, s)
  BY DEF Next, CallStep, ScheduleReads, Unschedule, Stop, Crash, Clock, TickBegins, TickReads,
         vars
<1> QED BY <1>1, <1>2, <1>3, ScheduleKeepsDue, ClaimFiresDue

(* An occurrence that has come due stays in its row, perhaps with another   *)
(* jitter, until it is fired, whatever processes die, register the name     *)
(* again or tick; on any calendar, and also where nextCronRun() leads back. *)
THEOREM DueStaysUntilFired == Spec => DueUntilFired
<1>1. Init => DInv
  <2>1. Init => TypeOK
    BY CronAssumption DEF Init, TypeOK, RowTypes, CallTypes
  <2>2. ASSUME Init
        PROVE  RowsPlanned /\ CallsHeld
    BY <2>2, IdleHeld DEF Init, RowsPlanned, CallsHeld
  <2> QED BY <2>1, <2>2 DEF DInv
<1>2. DInv /\ [Next]_vars => DInv'
  BY HeldStep
<1>3. DInv /\ [Next]_vars => \A n \in Names : KeptOrFired(n)
  BY DueStep
<1>4. DInv /\ [Next]_vars
        => [\A n \in Names :
              (/\ IsDue(n, now) /\ rows'[n] # None /\ rows'[n].cron = rows[n].cron
               /\ \A p \in Processes, s \in Slots : ~Outdated(p, s, n))
                => rows'[n].next.base <= now \/ ran'[n] # ran[n]]_vars
  BY <1>3 DEF KeptOrFired
<1> QED BY <1>1, <1>2, <1>4, PTL DEF Spec, DueUntilFired
=============================================================================
