-------------------------------- MODULE Cron --------------------------------
(***************************************************************************)
(* The persisted scheduler of @monlite/cron (Cron over SQLite, PgCron over *)
(* Postgres): the table _schedules, shared by processes that each look for *)
(* due schedules on a timer and claim them.  Each SQL statement is one     *)
(* step.  A process has one call under way at a time over SQLite (one      *)
(* slot); over Postgres its awaited calls and ticks overlap (more slots).  *)
(* The column last_run, which nothing reads, is left out.                  *)
(***************************************************************************)
EXTENDS Naturals, Sequences

CONSTANTS
    Processes, Slots,
    Names,         \* names of schedules
    Specs,         \* expressions with their options: cron, tz and jitter
    NextRun,       \* nextCronRun(), of each of them, by instant
    None,          \* no row, no handler, no claim
    MaxTime, MaxCalls, MaxCrashes   \* bounds of the model

ASSUME CronAssumption ==
    /\ \A e \in Specs : e.jitter \in Nat
    /\ MaxTime \in Nat /\ MaxCalls \in Nat /\ MaxCrashes \in Nat
    /\ NextRun \in [Specs -> [0..MaxTime -> Nat]]
    /\ None \notin Specs

VARIABLES
    rows,      \* _schedules: of each name the expression and the next run
    handlers,  \* of each process, the registered expression of each name
    task,      \* whether it has a task on the heartbeat
    calls,     \* what each slot of a process is in the middle of
    now,
    ran,       \* history, by name: the occurrences fired
    written,   \* history: how many of them before the row was last written
    used, crashes   \* used up from their bounds

vars == <<rows, handlers, task, calls, now, ran, written, used, crashes>>

Idle == [kind |-> "idle"]

(* computeNext(): at is what the column next_run holds, the rest records    *)
(* what it was computed from.                                               *)
Plans(e, from) ==
    LET delays == {0} \cup {j \in 0..e.jitter : j < e.jitter}
    IN {[by |-> e, from |-> from, base |-> NextRun[e][from],
         at |-> NextRun[e][from] + delay] : delay \in delays}

IsDue(n, t) == rows[n] # None /\ rows[n].next.at <= t

Registered(p) == {n \in Names : handlers[p][n] # None}

SetCall(p, s, call) == calls' = [calls EXCEPT ![p][s] = call]

Init ==
    /\ rows = [n \in Names |-> None]
    /\ handlers = [p \in Processes |-> [n \in Names |-> None]]
    /\ task = [p \in Processes |-> FALSE]
    /\ calls = [p \in Processes |-> [s \in Slots |-> Idle]]
    /\ now = 0 /\ used = 0 /\ crashes = 0
    /\ ran = [n \in Names |-> << >>]
    /\ written = [n \in Names |-> 0]

-----------------------------------------------------------------------------
NextFor_Recomputed(n, e) == Plans(e, now)   \* mutant: the stored run is dropped

(* The stored next run is kept when the expression has not changed, even if *)
(* the options have.                                                        *)
NextFor(n, e) == IF rows[n] # None /\ rows[n].cron = e.cron THEN {rows[n].next}
                 ELSE Plans(e, now)

(* schedule(): the SELECT. *)
ScheduleReads(p, s, n, e) ==
    /\ calls[p][s] = Idle /\ used < MaxCalls
    /\ used' = used + 1
    /\ \E next \in NextFor(n, e) :
         SetCall(p, s, [kind |-> "schedule", name |-> n, spec |-> e, next |-> next,
                        existing |-> rows[n]])
    /\ UNCHANGED <<rows, handlers, task, now, ran, written, crashes>>

Register_Unparsed(p, c) ==   \* mutant: the text is kept, not what it parses to
    handlers' = [handlers EXCEPT ![p][c.name] = c.spec.cron]

Register(p, c) == handlers' = [handlers EXCEPT ![p][c.name] = c.spec]

(* schedule(): the upsert, and the registration in this process. *)
ScheduleWrites(p, s) ==
    /\ calls[p][s].kind = "schedule"
    /\ LET c == calls[p][s]
       IN /\ rows' = [rows EXCEPT ![c.name] = [cron |-> c.spec.cron, next |-> c.next]]
          /\ Register(p, c)
          /\ written' = [written EXCEPT ![c.name] = Len(ran[c.name])]
    /\ task' = [task EXCEPT ![p] = TRUE]
    /\ SetCall(p, s, Idle)
    /\ UNCHANGED <<now, ran, used, crashes>>

(* A tick visits a name once more when it is registered again, and ends    *)
(* when no other is left.                                                   *)
Forgotten(p, c, n) ==
    IF c.kind # "tick" THEN c
    ELSE IF c.claim = None /\ Registered(p) \subseteq c.seen \cup {n} THEN Idle
    ELSE [c EXCEPT !.seen = c.seen \ {n}]

(* unschedule(): the name is forgotten here at once. *)
Unschedule(p, s, n) ==
    /\ calls[p][s] = Idle /\ used < MaxCalls
    /\ used' = used + 1
    /\ handlers' = [handlers EXCEPT ![p][n] = None]
    /\ calls' = [calls EXCEPT ![p] = [x \in Slots |->
           IF x = s THEN [kind |-> "unschedule", name |-> n]
           ELSE Forgotten(p, calls[p][x], n)]]
    /\ UNCHANGED <<rows, task, now, ran, written, crashes>>

(* unschedule(): the DELETE. *)
UnscheduleDeletes(p, s) ==
    /\ calls[p][s].kind = "unschedule"
    /\ rows' = [rows EXCEPT ![calls[p][s].name] = None]
    /\ SetCall(p, s, Idle)
    /\ UNCHANGED <<handlers, task, now, ran, written, used, crashes>>

(* stop() cancels the task; a tick under way goes on. *)
Stop(p) ==
    /\ task[p] /\ used < MaxCalls
    /\ used' = used + 1
    /\ task' = [task EXCEPT ![p] = FALSE]
    /\ UNCHANGED <<rows, handlers, calls, now, ran, written, crashes>>

-----------------------------------------------------------------------------
(* The heartbeat calls tick(), which does nothing without handlers. *)
TickBegins(p, s) ==
    /\ task[p] /\ calls[p][s] = Idle /\ Registered(p) # {}
    /\ SetCall(p, s, [kind |-> "tick", t |-> now, seen |-> {}, claim |-> None])
    /\ UNCHANGED <<rows, handlers, task, now, ran, written, used, crashes>>

(* A tick that has visited n, which ends after the last name. *)
Visited(p, c, n) ==
    IF Registered(p) \subseteq c.seen \cup {n} THEN Idle
    ELSE [c EXCEPT !.seen = c.seen \cup {n}, !.claim = None]

(* The SELECT of one name, and, when it is due, the run after it. *)
TickReads(p, s, n) ==
    /\ calls[p][s].kind = "tick" /\ calls[p][s].claim = None
    /\ n \in Registered(p) \ calls[p][s].seen
    /\ LET c == calls[p][s]
       IN IF IsDue(n, c.t)
          THEN \E next \in Plans(handlers[p][n], c.t) :
                 SetCall(p, s, [c EXCEPT !.claim = [name |-> n, next |-> next]])
          ELSE SetCall(p, s, Visited(p, c, n))
    /\ UNCHANGED <<rows, handlers, task, now, ran, written, used, crashes>>

Claims_Unguarded(n, t) == rows[n] # None   \* mutant: WHERE name = ? alone

Claims_Strictly(n, t) ==                   \* mutant: AND next_run < ?
    rows[n] # None /\ rows[n].next.at < t

(* WHERE name = ? AND next_run <= ? *)
Claims(n, t) == IsDue(n, t)

(* The UPDATE; the process that changed the row calls its handler. *)
TickClaims(p, s) ==
    /\ calls[p][s].kind = "tick" /\ calls[p][s].claim # None
    /\ LET c == calls[p][s]
           n == c.claim.name
       IN /\ SetCall(p, s, Visited(p, c, n))
          /\ IF Claims(n, c.t)
             THEN /\ rows' = [rows EXCEPT ![n].next = c.claim.next]
                  /\ ran' = [ran EXCEPT ![n] = Append(@, rows[n].next.base)]
             ELSE UNCHANGED <<rows, ran>>
    /\ UNCHANGED <<handlers, task, now, written, used, crashes>>

(* The process dies: the table remains. *)
Crash(p) ==
    /\ crashes < MaxCrashes
    /\ crashes' = crashes + 1
    /\ handlers' = [handlers EXCEPT ![p] = [n \in Names |-> None]]
    /\ task' = [task EXCEPT ![p] = FALSE]
    /\ calls' = [calls EXCEPT ![p] = [s \in Slots |-> Idle]]
    /\ UNCHANGED <<rows, now, ran, written, used>>

Clock ==
    /\ now < MaxTime
    /\ now' = now + 1
    /\ UNCHANGED <<rows, handlers, task, calls, ran, written, used, crashes>>

-----------------------------------------------------------------------------
CallStep(p, s) ==
    \/ ScheduleWrites(p, s) \/ UnscheduleDeletes(p, s) \/ TickBegins(p, s)
    \/ \E n \in Names : TickReads(p, s, n)
    \/ TickClaims(p, s)

Next ==
    \/ \E p \in Processes, s \in Slots :
         \/ CallStep(p, s)
         \/ \E n \in Names : \/ \E e \in Specs : ScheduleReads(p, s, n, e)
                             \/ Unschedule(p, s, n)
    \/ \E p \in Processes : Stop(p) \/ Crash(p)
    \/ Clock

Spec == Init /\ [][Next]_vars

(* Statements are answered and the heartbeat fires again and again. *)
FairSpec == Spec /\ \A p \in Processes, s \in Slots : WF_vars(CallStep(p, s))

-----------------------------------------------------------------------------
PlanTypes == [by : Specs, from : 0..MaxTime, base : Nat, at : Nat]

RowTypes == {None} \cup [cron : {e.cron : e \in Specs}, next : PlanTypes]

ScheduleCalls == [kind : {"schedule"}, name : Names, spec : Specs, next : PlanTypes,
                  existing : RowTypes]
TickCalls     == [kind : {"tick"}, t : 0..MaxTime, seen : SUBSET Names,
                  claim : {None} \cup [name : Names, next : PlanTypes]]
CallTypes     == {Idle} \cup ScheduleCalls \cup TickCalls
                 \cup [kind : {"unschedule"}, name : Names]

(* The table, the calls and the histories keep their types. *)
TypeOK ==
    /\ rows \in [Names -> RowTypes]
    /\ handlers \in [Processes -> [Names -> Specs \cup {None}]]
    /\ task \in [Processes -> BOOLEAN]
    /\ calls \in [Processes -> [Slots -> CallTypes]]
    /\ now \in 0..MaxTime /\ used \in 0..MaxCalls /\ crashes \in 0..MaxCrashes
    /\ ran \in [Names -> Seq(Nat)] /\ written \in [Names -> Nat]

(* The atomic claim, "only the process that flips next_run gets to fire":   *)
(* between two writes of the row by schedule(), whichever processes tick    *)
(* and however their ticks overlap, each occurrence is fired once, in order *)
(* of time.                                                                 *)
ClaimedOnce ==
    \A n \in Names : \A i, j \in DOMAIN ran[n] :
        written[n] < i /\ i < j => ran[n][i] < ran[n][j]

(* A schedule() that is about to write over a row it has not seen. *)
Outdated(p, s, n) == /\ calls[p][s].kind = "schedule" /\ calls[p][s].name = n
                     /\ calls[p][s].existing # rows[n]

(* Schedules survive restarts: an occurrence that has come due remains the  *)
(* next one, perhaps with another jitter, until it is fired, although       *)
(* processes die, register again and tick.  Only a schedule() that has      *)
(* lost a race against a write of the row can drop it.                      *)
DueUntilFired ==
    [][\A n \in Names :
         (/\ IsDue(n, now) /\ rows'[n] # None /\ rows'[n].cron = rows[n].cron
          /\ \A p \in Processes, s \in Slots : ~Outdated(p, s, n))
           => rows'[n].next.base <= now \/ ran'[n] # ran[n]]_vars

(* A due schedule fires, as long as some process that registered it ticks. *)
DueFires ==
    \A n \in Names :
        (IsDue(n, now) /\ \E p \in Processes : n \in Registered(p) /\ task[p])
          ~> (~IsDue(n, now) \/ \A p \in Processes : n \notin Registered(p) \/ ~task[p])
=============================================================================
