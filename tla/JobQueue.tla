------------------------------ MODULE JobQueue ------------------------------
(***************************************************************************)
(* The durable job queue of @monlite/queue: the _jobs table and the worker *)
(* processes that share it, over SQLite (Queue) or Postgres (PgQueue, which *)
(* issues the same statements and differs in how a claim picks its row).   *)
(* Every SQL statement is one step, because each one is its own transaction *)
(* and other processes run between two statements.  A handler run is in    *)
(* memory only: a crash loses it and leaves its row `active'.              *)
(*                                                                         *)
(* Time is kept relative to now, so that it never has to be bounded: a row *)
(* carries wait = run_at - now (0 once it is due) and                      *)
(* age = now - updated_at (saturating at AgeCap).  updated_at is only ever *)
(* read for active rows, so age stays 0 in all the others.                 *)
(***************************************************************************)
EXTENDS Naturals, Sequences, FiniteSets

CONSTANTS
    Producers,         \* processes that call add()
    Workers,           \* worker processes, one process() registration each
    Names,             \* queue names
    QueueOf,           \* the queue name each worker processes
    JobKeys,           \* values of AddOptions.jobId
    NoKey,             \* an add() without a jobId
    NoRequest,         \* a producer that is not inside add()
    Priorities,        \* values of AddOptions.priority
    Delays,            \* initial waits, from AddOptions.delay / runAt
    AttemptLimits,     \* values of maxAttempts
    Concurrency,       \* ProcessOptions.concurrency
    VisibilityTimeout, \* ProcessOptions.visibilityTimeout of each queue, 0 = off
    HeartbeatFloor,    \* the 1000 ms floor of the heartbeat and reaper intervals
    Backoff,           \* QueueOptions.backoff
    RemoveOnComplete,  \* QueueOptions.removeOnComplete
    SkipLocked,        \* TRUE for PgQueue, FALSE for Queue
    ManualAges,        \* arguments of explicit recover(olderThanMs) calls
    MaxJobs,           \* bound: rows ever inserted
    AttemptCap,        \* bound: claims of one row
    AgeCap,            \* age at which the clock of a lease saturates
    MaxCrashes,        \* bound: crashes of worker processes
    MaxFreezes,        \* bound: stalls of a worker's event loop
    MaxStops           \* bound: calls of Worker.stop()

ASSUME SetsAssumption ==
    /\ NoKey \notin JobKeys
    /\ NoRequest \notin [queue : Names, jobId : JobKeys]
    /\ Priorities \subseteq Nat
    /\ Delays \subseteq Nat
    /\ AttemptLimits \subseteq Nat
    /\ ManualAges \subseteq Nat
ASSUME BoundsAssumption ==
    /\ MaxJobs \in Nat /\ AttemptCap \in Nat /\ AgeCap \in Nat
    /\ MaxCrashes \in Nat /\ MaxFreezes \in Nat /\ MaxStops \in Nat
ASSUME OptionsAssumption ==
    /\ QueueOf \in [Workers -> Names]
    /\ Concurrency \in Nat \ {0}
    /\ VisibilityTimeout \in [Names -> Nat]
    /\ HeartbeatFloor \in Nat \ {0}
    /\ Backoff \in [1..AttemptCap -> Nat]
    /\ RemoveOnComplete \in BOOLEAN /\ SkipLocked \in BOOLEAN
(* The saturated age still counts as expired for every timeout in use. *)
ASSUME AgeCapAssumption ==
    /\ \A n \in Names : VisibilityTimeout[n] < AgeCap
    /\ \A t \in ManualAges : t < AgeCap

VARIABLES
    jobs,        \* the _jobs table: the rows ever inserted, by id
    lastId,      \* its AUTOINCREMENT counter: ids are never reused
    adding,      \* the producers between the SELECT and the INSERT of add()
    mode,        \* of each worker: "down", "running" or "stopped"
    frozen,      \* workers whose event loop is blocked, or suspended
    runs,        \* handler runs in flight, with the attempt they claimed
    crashes, freezes, stops,   \* used up from their bounds
    settlements  \* history, by job: the complete/fail writes that landed

table    == <<jobs, lastId>>
budgets  == <<crashes, freezes, stops>>
vars     == <<jobs, lastId, adding, mode, frozen, runs, crashes, freezes,
              stops, settlements>>

-----------------------------------------------------------------------------
Ids      == 1..lastId
Attempts == 0..AttemptCap
Requests == [queue : Names, jobId : JobKeys]
Runs     == [worker : Workers, id : 1..MaxJobs, attempt : 1..AttemptCap]
Outcomes == {"completed", "failed"}
Settlement == [outcome : Outcomes, attempt : 1..AttemptCap]

(* "removed" is a row that has been deleted. *)
Statuses == {"pending", "active", "done", "failed", "removed"}
Rows == [status : Statuses, queue : Names, jobId : JobKeys \cup {NoKey},
         priority : Priorities, attempts : Attempts,
         maxAttempts : AttemptLimits, wait : Nat, age : Nat]

Unfinished == {"pending", "active"}
Finished   == {"done", "failed", "removed"}

Up(w)     == mode[w] # "down" /\ w \notin frozen
RunsOf(w) == {r \in runs : r.worker = w}

(* setInterval(..., Math.max(1000, Math.floor(visibilityTimeout / 2))) *)
LeaseInterval(n) ==
    IF VisibilityTimeout[n] \div 2 > HeartbeatFloor
    THEN VisibilityTimeout[n] \div 2 ELSE HeartbeatFloor

(* Timeouts that the heartbeat interval can keep up with, and explicit     *)
(* recoveries that leave room for a heartbeat.                              *)
LongTimeouts ==
    /\ \A n \in Names : \/ VisibilityTimeout[n] = 0
                        \/ VisibilityTimeout[n] >= HeartbeatFloor
    /\ \A t \in ManualAges, n \in Names :
          VisibilityTimeout[n] > 0 /\ t >= LeaseInterval(n)

(* A run still owns its row: nobody reclaimed it since it was claimed. *)
Holds(r) == /\ jobs[r.id].status = "active"
            /\ jobs[r.id].attempts = r.attempt

(* The heartbeat timer of a run restarts at the claim and at each beat, and *)
(* so does the age of its row.                                              *)
HeartbeatDue(r) ==
    /\ VisibilityTimeout[QueueOf[r.worker]] > 0
    /\ Up(r.worker)
    /\ Holds(r)
    /\ jobs[r.id].age >= LeaseInterval(QueueOf[r.worker])

-----------------------------------------------------------------------------
Init ==
    /\ lastId = 0
    /\ jobs = [i \in Ids |-> {}]
    /\ adding = [p \in Producers |-> NoRequest]
    /\ mode = [w \in Workers |-> "down"]
    /\ frozen = {}
    /\ runs = {}
    /\ crashes = 0 /\ freezes = 0 /\ stops = 0
    /\ settlements = [i \in Ids |-> << >>]

-----------------------------------------------------------------------------
(* add(): the SELECT that looks for a live job with the same jobId; when it *)
(* finds one add() returns it and nothing changes.                          *)
Duplicate_PendingOnly(n, k) ==    \* mutant: forgets the active jobs
    \E i \in Ids : jobs[i].jobId = k /\ jobs[i].queue = n
                   /\ jobs[i].status = "pending"

Duplicate(n, k) == \E i \in Ids : /\ jobs[i].jobId = k
                                  /\ jobs[i].queue = n
                                  /\ jobs[i].status \in Unfinished

AddLookup(p, n, k) ==
    /\ adding[p] = NoRequest
    /\ lastId < MaxJobs
    /\ ~Duplicate(n, k)
    /\ adding' = [adding EXCEPT ![p] = [queue |-> n, jobId |-> k]]
    /\ UNCHANGED <<table, mode, frozen, runs, budgets, settlements>>

(* add(): the INSERT. *)
InsertJob(n, k, priority, delay, limit) ==
    /\ lastId < MaxJobs
    /\ lastId' = lastId + 1
    /\ jobs' = [i \in Ids' |->
                  IF i \in Ids THEN jobs[i]
                  ELSE [status |-> "pending", queue |-> n, jobId |-> k,
                        priority |-> priority, attempts |-> 0,
                        maxAttempts |-> limit, wait |-> delay, age |-> 0]]
    /\ settlements' = [i \in Ids' |->
                         IF i \in Ids THEN settlements[i] ELSE << >>]
    /\ UNCHANGED <<mode, frozen, runs, budgets>>

AddKeyed(p) ==
    /\ adding[p] # NoRequest
    /\ \E priority \in Priorities, delay \in Delays, limit \in AttemptLimits :
          InsertJob(adding[p].queue, adding[p].jobId, priority, delay, limit)
    /\ adding' = [adding EXCEPT ![p] = NoRequest]

AddPlain(n) ==
    /\ \E priority \in Priorities, delay \in Delays, limit \in AttemptLimits :
          InsertJob(n, NoKey, priority, delay, limit)
    /\ UNCHANGED adding

-----------------------------------------------------------------------------
(* claimInternal(): ORDER BY priority DESC, id ASC LIMIT 1 over due jobs. *)
Due(n) == {i \in Ids : /\ jobs[i].status = "pending"
                       /\ jobs[i].queue = n
                       /\ jobs[i].wait = 0}

Ahead(i, j) == \/ jobs[i].priority > jobs[j].priority
               \/ jobs[i].priority = jobs[j].priority /\ i <= j

(* PgQueue adds FOR UPDATE SKIP LOCKED: rows that other transactions hold   *)
(* at that instant are passed over, so any due row may come first.          *)
Claimable(n) == {i \in Due(n) : SkipLocked \/ \A j \in Due(n) : Ahead(i, j)}

Claim(w) ==
    /\ mode[w] = "running" /\ Up(w)
    /\ Cardinality(RunsOf(w)) < Concurrency
    /\ \E i \in Claimable(QueueOf[w]) :
          /\ jobs[i].attempts < AttemptCap
          /\ jobs' = [jobs EXCEPT ![i] = [@ EXCEPT !.status = "active",
                                                   !.attempts = jobs[i].attempts + 1,
                                                   !.age = 0]]
          /\ runs' = runs \cup {[worker |-> w, id |-> i,
                                 attempt |-> jobs[i].attempts + 1]}
    /\ UNCHANGED <<lastId, adding, mode, frozen, budgets, settlements>>

(* The fence of completeInternal() and failInternal(): WHERE id=? AND       *)
(* attempts=?, on a row that still exists.  The status is not consulted.    *)
Fence_None(r) == jobs[r.id].status # "removed"   \* mutant: WHERE id=? alone

Fence(r) == /\ jobs[r.id].status # "removed"
            /\ jobs[r.id].attempts = r.attempt

Record(r, outcome) ==
    settlements' = [settlements EXCEPT ![r.id] =
                      Append(@, [outcome |-> outcome, attempt |-> r.attempt])]

CompleteInternal_Misspelt(r) ==   \* mutant: the event's name as the status
    IF Fence(r)
    THEN /\ jobs' = [jobs EXCEPT ![r.id] = [@ EXCEPT !.status = "completed"]]
         /\ Record(r, "completed")
    ELSE UNCHANGED <<jobs, settlements>>

(* completeInternal(): the handler resolved. *)
CompleteInternal(r) ==
    IF Fence(r)
    THEN /\ jobs' = [jobs EXCEPT ![r.id] =
              [@ EXCEPT !.status = IF RemoveOnComplete THEN "removed" ELSE "done",
                        !.age = 0]]
         /\ Record(r, "completed")
    ELSE UNCHANGED <<jobs, settlements>>

RetriesLeft_OffByOne(r) == r.attempt <= jobs[r.id].maxAttempts   \* mutant

RetriesLeft(r) == r.attempt < jobs[r.id].maxAttempts

(* failInternal(): the handler threw; retry after the backoff, or           *)
(* dead-letter after the last attempt.                                      *)
FailInternal(r) ==
    IF Fence(r)
    THEN /\ jobs' = [jobs EXCEPT ![r.id] =
              IF RetriesLeft(r)
              THEN [@ EXCEPT !.status = "pending", !.age = 0,
                             !.wait = Backoff[r.attempt]]
              ELSE [@ EXCEPT !.status = "failed", !.age = 0]]
         /\ Record(r, "failed")
    ELSE UNCHANGED <<jobs, settlements>>

(* The end of a run: its write, fenced, then inFlight--. *)
Settle(r) ==
    /\ Up(r.worker)
    /\ CompleteInternal(r) \/ FailInternal(r)
    /\ runs' = runs \ {r}
    /\ UNCHANGED <<lastId, adding, mode, frozen, budgets>>

(* heartbeatInternal(): WHERE id=? AND status='active' AND attempts=?. *)
HeartbeatInternal(r) ==
    /\ HeartbeatDue(r)
    /\ jobs' = [jobs EXCEPT ![r.id] = [@ EXCEPT !.age = 0]]
    /\ UNCHANGED <<lastId, adding, mode, frozen, runs, budgets, settlements>>

(* recover(olderThanMs, name): active rows not touched for longer than     *)
(* olderThan go back to pending.                                            *)
Expired_AllQueues(olderThan, names) ==   \* mutant: the name filter is dropped
    {i \in Ids : jobs[i].status = "active" /\ jobs[i].age > olderThan}

Expired(olderThan, names) == {i \in Ids : /\ jobs[i].status = "active"
                                          /\ jobs[i].queue \in names
                                          /\ jobs[i].age > olderThan}

Reclaimed_Refund(row) ==     \* mutant: a lost attempt is not counted
    [row EXCEPT !.status = "pending", !.age = 0, !.attempts = row.attempts - 1]

Reclaimed_LockOnly(row) == [row EXCEPT !.age = 0]   \* mutant: stays active

Reclaimed(row) == [row EXCEPT !.status = "pending", !.age = 0]

Recover(olderThan, names) ==
    /\ Expired(olderThan, names) # {}
    /\ jobs' = [i \in Ids |-> IF i \in Expired(olderThan, names)
                              THEN Reclaimed(jobs[i]) ELSE jobs[i]]
    /\ UNCHANGED <<lastId, adding, mode, frozen, runs, budgets, settlements>>

(* The reaper timer of a worker, scoped to the worker's own queue. *)
Reap(w) ==
    /\ mode[w] = "running" /\ Up(w)
    /\ VisibilityTimeout[QueueOf[w]] > 0
    /\ Recover(VisibilityTimeout[QueueOf[w]], {QueueOf[w]})

(* A call of recover(olderThanMs) by the application, without a name. *)
RecoverAll == \E age \in ManualAges : Recover(age, Names)

-----------------------------------------------------------------------------
(* process(): a worker process registers its handler, the first time or    *)
(* after a crash or a completed stop().                                     *)
Process(w) ==
    /\ mode[w] # "running" /\ w \notin frozen
    /\ RunsOf(w) = {}
    /\ mode' = [mode EXCEPT ![w] = "running"]
    /\ UNCHANGED <<table, adding, frozen, runs, budgets, settlements>>

(* stop(): no more claims, no more reaping; runs in flight go on. *)
Stop(w) ==
    /\ mode[w] = "running" /\ Up(w)
    /\ stops < MaxStops
    /\ stops' = stops + 1
    /\ mode' = [mode EXCEPT ![w] = "stopped"]
    /\ UNCHANGED <<table, adding, frozen, runs, crashes, freezes, settlements>>

(* The process dies: its runs vanish, their rows stay active. *)
Crash(w) ==
    /\ mode[w] # "down"
    /\ crashes < MaxCrashes
    /\ crashes' = crashes + 1
    /\ mode' = [mode EXCEPT ![w] = "down"]
    /\ frozen' = frozen \ {w}
    /\ runs' = runs \ RunsOf(w)
    /\ UNCHANGED <<table, adding, freezes, stops, settlements>>

(* The final write throws (a busy or full database): the promise rejects,  *)
(* finally() still frees the slot, and the row stays active.                *)
SettleThrows(r) ==
    /\ Up(r.worker)
    /\ crashes < MaxCrashes
    /\ crashes' = crashes + 1
    /\ runs' = runs \ {r}
    /\ UNCHANGED <<table, adding, mode, frozen, freezes, stops, settlements>>

(* A handler that blocks the event loop, or a suspended process. *)
Freeze(w) ==
    /\ mode[w] # "down" /\ w \notin frozen
    /\ freezes < MaxFreezes
    /\ freezes' = freezes + 1
    /\ frozen' = frozen \cup {w}
    /\ UNCHANGED <<table, adding, mode, runs, crashes, stops, settlements>>

Thaw(w) ==
    /\ w \in frozen
    /\ frozen' = frozen \ {w}
    /\ UNCHANGED <<table, adding, mode, runs, budgets, settlements>>

(* One unit of time.  A worker whose event loop turns fires its heartbeat  *)
(* before the next unit begins; a frozen one lets it pass.                  *)
Tick ==
    /\ \A r \in runs : ~HeartbeatDue(r)
    /\ jobs' = [i \in Ids |->
          [jobs[i] EXCEPT
             !.wait = IF @ > 0 THEN @ - 1 ELSE 0,
             !.age  = IF jobs[i].status = "active" /\ @ < AgeCap
                      THEN @ + 1 ELSE @]]
    /\ UNCHANGED <<lastId, adding, mode, frozen, runs, budgets, settlements>>

-----------------------------------------------------------------------------
Next ==
    \/ \E p \in Producers, n \in Names, k \in JobKeys : AddLookup(p, n, k)
    \/ \E p \in Producers : AddKeyed(p)
    \/ \E n \in Names : AddPlain(n)
    \/ \E w \in Workers : \/ Claim(w) \/ Reap(w) \/ Process(w) \/ Stop(w)
                          \/ Crash(w) \/ Freeze(w) \/ Thaw(w)
    \/ \E r \in runs : \/ Settle(r) \/ SettleThrows(r)
                       \/ HeartbeatInternal(r)
    \/ RecoverAll
    \/ Tick

Spec == Init /\ [][Next]_vars

(* Timers fire and claims are polled for as long as a process is up; a     *)
(* handler returns; a supervisor thaws and restarts worker processes.       *)
Fairness ==
    /\ WF_vars(Tick)
    /\ \A w \in Workers : /\ WF_vars(Claim(w)) /\ WF_vars(Reap(w))
                          /\ WF_vars(Process(w)) /\ WF_vars(Thaw(w))
                          /\ WF_vars(\E r \in RunsOf(w) : HeartbeatInternal(r))
    /\ \A r \in Runs : WF_vars(r \in runs /\ Settle(r))

FairSpec == Spec /\ Fairness

-----------------------------------------------------------------------------
(* Rows, runs and history have the shape the schema gives them. *)
TypeOK ==
    /\ lastId \in 0..MaxJobs
    /\ jobs \in [Ids -> Rows]
    /\ adding \in [Producers -> Requests \cup {NoRequest}]
    /\ mode \in [Workers -> {"down", "running", "stopped"}]
    /\ frozen \subseteq Workers
    /\ runs \subseteq Runs
    /\ \A r \in runs : r.id \in Ids
    /\ crashes \in 0..MaxCrashes
    /\ freezes \in 0..MaxFreezes
    /\ stops \in 0..MaxStops
    /\ settlements \in [Ids -> Seq(Settlement)]

(* The attempt number is a fencing token: no two runs of a job hold the    *)
(* same one, and the newest token belongs to no run once its outcome has    *)
(* been accepted.                                                           *)
UniqueToken ==
    \A r, s \in runs : r.id = s.id /\ r.attempt = s.attempt => r = s

TokenOpen(r) ==
    /\ r.attempt <= jobs[r.id].attempts
    /\ r.attempt = jobs[r.id].attempts =>
         /\ jobs[r.id].status \in Unfinished
         /\ \A n \in DOMAIN settlements[r.id] :
               settlements[r.id][n].attempt # r.attempt

FencingTokens == UniqueToken /\ \A r \in runs : TokenOpen(r)

(* What the listeners of "completed" and "failed" are told about a job      *)
(* across all processes: each attempt is reported at most once, in attempt  *)
(* order, and nothing is reported after a completion.                       *)
InOrder(h) ==
    \A m, n \in DOMAIN h :
        m < n => /\ h[m].attempt < h[n].attempt
                 /\ h[m].outcome = "failed"
SettlementsInOrder == \A i \in Ids : InOrder(settlements[i])

(* The row agrees with what was reported: it is done (or deleted) exactly  *)
(* when a completion was the last report, and failed exactly when the last  *)
(* report is a failure with no attempt left.                                *)
LastReport(i, outcome) ==
    /\ settlements[i] # << >>
    /\ settlements[i][Len(settlements[i])].outcome = outcome
    /\ outcome = "failed" => settlements[i][Len(settlements[i])].attempt
                               >= jobs[i].maxAttempts
RowMatchesReports ==
    \A i \in Ids :
        /\ (jobs[i].status \in {"done", "removed"}) <=> LastReport(i, "completed")
        /\ (jobs[i].status = "failed") <=> LastReport(i, "failed")

(* The strengthening that makes the four properties above inductive: the    *)
(* reports about a job never run ahead of its attempt counter, and those     *)
(* about an unfinished job are all failures with attempts left.             *)
ReportsBehindRow ==
    \A i \in Ids : \A n \in DOMAIN settlements[i] :
        /\ settlements[i][n].attempt <= jobs[i].attempts
        /\ jobs[i].status \in Unfinished =>
             /\ settlements[i][n].outcome = "failed"
             /\ settlements[i][n].attempt < jobs[i].maxAttempts

(* The visibility timeout: as long as no event loop has stalled, a handler  *)
(* that is still running is never reclaimed under it, however long it       *)
(* takes, whatever the other queues' timeouts are.                          *)
LiveRunKeepsLease == freezes = 0 => \A r \in runs : Holds(r)

(* AddOptions.jobId: at most one pending or active job per queue and jobId. *)
UniqueLiveKey ==
    \A i, j \in Ids :
        /\ jobs[i].jobId # NoKey
        /\ jobs[i].jobId = jobs[j].jobId /\ jobs[i].queue = jobs[j].queue
        /\ jobs[i].status \in Unfinished /\ jobs[j].status \in Unfinished
        => i = j

(* AddOptions.maxAttempts: only the runs that a crash, a failed write or a *)
(* stall has lost take a job beyond its limit.  recover() and the claim do  *)
(* not look at the limit, so each such loss can add one attempt.  The       *)
(* timeouts are ones the heartbeats keep up with (LongTimeouts): with       *)
(* shorter ones a live run can be lost as well.                             *)
OnlyLossesExceedLimit ==
    \A i \in Ids : jobs[i].attempts <= jobs[i].maxAttempts + crashes + freezes

(* Nothing a stale worker does touches a job that has reached its end: a    *)
(* finished row never changes again, and no outcome is reported for it.      *)
FinishedRowsAreFinal ==
    [][\A i \in Ids : jobs[i].status \in Finished =>
          jobs'[i] = jobs[i] /\ settlements'[i] = settlements[i]]_vars

(* The table implements the abstract queue: pending and active rows are     *)
(* open jobs, and a deleted row is a completed one.                         *)
AbstractState(i) ==
    IF i \notin Ids THEN "absent"
    ELSE IF jobs[i].status \in Unfinished THEN "open"
    ELSE IF jobs[i].status = "failed" THEN "failed" ELSE "completed"

Lifecycle == INSTANCE JobLifecycle WITH
    Jobs     <- 1..MaxJobs,
    state    <- [i \in 1..MaxJobs |-> AbstractState(i)],
    newest   <- [i \in 1..MaxJobs |-> IF i \in Ids THEN jobs[i].attempts ELSE 0],
    accepted <- [i \in 1..MaxJobs |-> IF i \in Ids THEN settlements[i] ELSE << >>]

ImplementsLifecycle == Lifecycle!ASpec

(* Every job that was added is eventually finished, whatever crashes and    *)
(* stalls happened on the way.                                              *)
EveryJobFinishes ==
    \A i \in 1..MaxJobs :
        (i <= lastId) ~> (i <= lastId /\ jobs[i].status \in Finished)
=============================================================================
