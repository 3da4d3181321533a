----------------------------- MODULE MCWorkers -----------------------------
(* What must eventually happen in the queue.  A behaviour is one of three    *)
(* parts: the table with workers of two queues (JobQueue), the loop of one  *)
(* SQLite worker (QueueWorker), or of one Postgres worker (PgQueueWorker).  *)
EXTENDS JobQueue, TLC

CONSTANTS w1, w2, w3, fast, slow, c1, c2, NoTask, NoPromise,
          Slots, PollInterval, MaxPollInterval, RateCount, RateWindow, Stoppers,
          SqliteJobs, PostgresJobs    \* of the two loops, see WorkerCore

TwoQueues    == [w \in Workers |-> IF w = w1 THEN fast ELSE slow]
TimeoutBy    == [n \in Names |-> IF n = fast THEN 1 ELSE 4]
ShortBackoff == [a \in 1..AttemptCap |-> IF a = 1 THEN 0 ELSE 1]

VARIABLES
    part,
    due, arrived, running, inFlight, handlers, finishing, idleInterval, task,
    starts, drainPromise, stopCalls, awaits, recent,   \* see WorkerCore
    created,                                           \* see QueueWorker
    kicking, claim, claimedAny, inserted               \* see PgQueueWorker

L == INSTANCE QueueWorker   WITH Concurrency <- Slots, MaxJobs <- SqliteJobs
P == INSTANCE PgQueueWorker WITH Concurrency <- Slots, MaxJobs <- PostgresJobs

ASSUME OptionsOfWorkers == L!WorkerAssumption /\ P!WorkerAssumption

pgOnly   == <<kicking, claim, claimedAny, inserted>>
coreVars == <<due, arrived, running, inFlight, handlers, finishing, idleInterval, task,
              starts, drainPromise, stopCalls, awaits, recent, created>>
loopVars == <<coreVars, pgOnly>>
mcVars   == <<part, vars, loopVars>>

-----------------------------------------------------------------------------
NoPgKick == kicking = FALSE /\ claim = "none" /\ claimedAny = FALSE /\ inserted = 0

MCInit ==
    /\ Init
    /\ \/ part = "table"    /\ L!Init /\ due = 0 /\ NoPgKick
       \/ part = "sqlite"   /\ L!Init /\ NoPgKick
       \/ part = "postgres" /\ P!Init /\ created = TRUE

MCNext ==
    /\ UNCHANGED part
    /\ \/ part = "table"    /\ Next   /\ UNCHANGED loopVars
       \/ part = "sqlite"   /\ L!Next /\ UNCHANGED <<vars, pgOnly>>
       \/ part = "postgres" /\ P!Next /\ UNCHANGED <<vars, created>>

(* The fairness of JobQueue, QueueWorker and PgQueueWorker.  One WF stands   *)
(* for the like steps of both loops, and for steps of which at most one is  *)
(* enabled and stays so: a worker of the table has one slot, thus one run.  *)
Sqlite(A)   == part = "sqlite" /\ A /\ UNCHANGED pgOnly
Postgres(A) == part = "postgres" /\ A /\ UNCHANGED created

Time    == Sqlite(created /\ UNCHANGED created /\ L!Tick)
           \/ Postgres(P!Tick /\ UNCHANGED pgOnly)
Polls   == Sqlite(L!Construct \/ L!PollFires) \/ Postgres(P!PollFires)
Settles == Sqlite(L!Settle) \/ Postgres(P!Settle)
Finals  == Sqlite(L!Finally) \/ Postgres(P!Finally)
Answers == Postgres(P!ServerClaims \/ P!ClaimReturnsJob \/ P!ClaimReturnsNothing)

MCFairness ==
    /\ WF_loopVars(Time) /\ WF_loopVars(Polls) /\ WF_loopVars(Settles)
    /\ WF_loopVars(Finals) /\ WF_loopVars(Answers) /\ WF_loopVars(Postgres(P!AddKicks))
    /\ WF_vars(part = "table" /\ Tick)
    /\ \A w \in Workers :
          /\ WF_vars(part = "table" /\ Claim(w)) /\ WF_vars(part = "table" /\ Reap(w))
          /\ WF_vars(part = "table" /\ (Process(w) \/ Thaw(w)))
          /\ WF_vars(part = "table" /\ \E r \in RunsOf(w) : HeartbeatInternal(r))
          /\ WF_vars(part = "table" /\ \E r \in RunsOf(w) : Settle(r))

MCSpec == MCInit /\ [][MCNext]_mcVars /\ MCFairness

-----------------------------------------------------------------------------
(* Once stop() of a SQLite worker has resolved, none of its handlers runs,  *)
(* see WorkerCore; a Postgres worker breaks this, see MCPgQueueWorker.      *)
StopDrains == part = "sqlite" => L!StopDrains

(* Neither loop starts more handlers than its rate limit and its slots      *)
(* allow, see RateLimited of WorkerCore and SlotsSuffice of PgQueueWorker.  *)
LimitsHold ==
    /\ part = "sqlite" => L!RateLimited
    /\ part = "postgres" => P!RateLimited /\ P!SlotsSuffice

(* Every stop() of either worker resolves, see WorkerCore.                  *)
EveryStopResolves == L!EveryStopResolves

(* A claimable job does not wait forever at a worker that runs, see         *)
(* WorkerCore.                                                              *)
JobsGetClaimed == part # "table" => L!JobsGetClaimed
=============================================================================
