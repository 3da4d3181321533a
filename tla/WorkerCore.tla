----------------------------- MODULE WorkerCore -----------------------------
(***************************************************************************)
(* What the two worker loops of @monlite/queue (WorkerImpl over SQLite,    *)
(* PgWorkerImpl over Postgres) have in common: their fields, the sliding-  *)
(* window rate limiter, the adaptive idle poll on the shared heartbeat,    *)
(* and stop() with its drain promise.  One worker object; the table is     *)
(* reduced to the number of claimable jobs.                                *)
(*                                                                         *)
(* Instants are kept relative to now: a start in the limiter's window by   *)
(* its age, the heartbeat task by the time left until it fires.            *)
(***************************************************************************)
EXTENDS Naturals, Sequences, FiniteSets

CONSTANTS
    Concurrency,      \* ProcessOptions.concurrency
    PollInterval,     \* ProcessOptions.pollInterval
    MaxPollInterval,  \* ProcessOptions.maxPollInterval
    RateCount,        \* ProcessOptions.rateLimit.count, 0 = no limit
    RateWindow,       \* ProcessOptions.rateLimit.windowMs
    Stoppers,         \* callers of stop() / close()
    NoTask,           \* no heartbeat task registered
    NoPromise,        \* no drain promise created
    MaxJobs           \* bound: jobs that ever become claimable

(* What the runs assume of these values, see MCWorkers. *)
WorkerAssumption ==
    /\ Concurrency \in Nat \ {0} /\ PollInterval \in Nat \ {0}
    /\ MaxPollInterval \in Nat /\ MaxPollInterval >= PollInterval
    /\ RateCount \in Nat /\ RateWindow \in Nat \ {0}
    /\ MaxJobs \in Nat

VARIABLES
    due,           \* claimable jobs of this queue
    arrived,       \* jobs that have become claimable so far
    running,       \* this.running
    inFlight,      \* this.inFlight
    handlers,      \* handler calls that have not settled
    finishing,     \* settled calls whose finally() has not run
    idleInterval,  \* this.idleInterval
    task,          \* this.task: its interval and the time left
    starts,        \* this.starts: ages of the recorded starts
    drainPromise,  \* this.drainPromise: NoPromise, or the caller it was made for
    stopCalls,     \* of each caller: "none", "waiting" or "resolved"
    awaits,        \* the promise each caller got from stop()
    recent         \* history: ages of all handler starts inside one window

env  == <<due, arrived>>
jobs == <<inFlight, handlers, finishing>>
poll == <<idleInterval, task>>
stop == <<running, drainPromise, stopCalls, awaits>>
rate == <<starts, recent>>

-----------------------------------------------------------------------------
Least(S) == CHOOSE m \in S : \A x \in S : m <= x

(* The starts younger than a window; the oldest comes first, so that what a *)
(* filter keeps of them is the tail.                                        *)
Younger(s, window) ==
    LET kept == {i \in DOMAIN s : s[i] < window}
    IN IF kept = {} THEN << >> ELSE SubSeq(s, Least(kept), Len(s))

InWindow_Early(s) == Younger(s, RateWindow - 1)   \* mutant: forgotten too soon

InWindow(s) == Younger(s, RateWindow)

RateFull(s) == RateCount > 0 /\ Len(s) >= RateCount

(* Time until the oldest start of a full window leaves it. *)
RateWait(s) == RateWindow - s[1]

Zeros(n) == [i \in 1..n |-> 0]

Timer(interval) == [interval |-> interval, left |-> interval]

EndKick_Uncapped(claimedAny, wait, busy, armed) ==   \* mutant: no maximum
    /\ idleInterval' = IF claimedAny THEN PollInterval ELSE idleInterval * 2
    /\ task' = IF running /\ (wait > 0 \/ busy < Concurrency)
               THEN Timer(IF wait > 0 THEN wait ELSE idleInterval')
               ELSE armed

EndKick_NoRateWake(claimedAny, wait, busy, armed) ==
                        \* mutant: nothing is scheduled while rate limited
    /\ idleInterval' = IF claimedAny THEN PollInterval
                       ELSE Least({idleInterval * 2, MaxPollInterval})
    /\ task' = IF running /\ wait = 0 /\ busy < Concurrency
               THEN Timer(idleInterval') ELSE armed

(* The end of kick(): back off or reset, then schedule the next poll.      *)
(* armed is the task as kick() found it.                                    *)
EndKick(claimedAny, wait, busy, armed) ==
    /\ idleInterval' = IF claimedAny THEN PollInterval
                       ELSE Least({idleInterval * 2, MaxPollInterval})
    /\ task' = IF running /\ (wait > 0 \/ busy < Concurrency)
               THEN Timer(IF wait > 0 THEN wait ELSE idleInterval')
               ELSE armed

-----------------------------------------------------------------------------
CoreInit ==
    /\ due \in 0..MaxJobs /\ arrived = due
    /\ running = TRUE
    /\ inFlight = 0 /\ handlers = 0 /\ finishing = 0
    /\ idleInterval = PollInterval
    /\ task = NoTask
    /\ starts = << >> /\ recent = << >>
    /\ drainPromise = NoPromise
    /\ stopCalls = [c \in Stoppers |-> "none"]
    /\ awaits = [c \in Stoppers |-> NoPromise]

Stop_OwnPromise(c) ==    \* mutant: each caller replaces the drain promise
    /\ stopCalls[c] = "none"
    /\ running' = FALSE
    /\ task' = NoTask
    /\ IF inFlight = 0
       THEN /\ stopCalls' = [stopCalls EXCEPT ![c] = "resolved"]
            /\ UNCHANGED <<drainPromise, awaits>>
       ELSE /\ drainPromise' = c
            /\ awaits' = [awaits EXCEPT ![c] = c]
            /\ stopCalls' = [stopCalls EXCEPT ![c] = "waiting"]
    /\ UNCHANGED <<env, jobs, idleInterval, rate>>

(* stop(): no more claims; resolved at once when nothing is in flight,      *)
(* otherwise on the drain promise that all callers share.                   *)
Stop(c) ==
    /\ stopCalls[c] = "none"
    /\ running' = FALSE
    /\ task' = NoTask
    /\ IF inFlight = 0
       THEN /\ stopCalls' = [stopCalls EXCEPT ![c] = "resolved"]
            /\ UNCHANGED <<drainPromise, awaits>>
       ELSE /\ drainPromise' = IF drainPromise = NoPromise THEN c ELSE drainPromise
            /\ awaits' = [awaits EXCEPT ![c] = drainPromise']
            /\ stopCalls' = [stopCalls EXCEPT ![c] = "waiting"]
    /\ UNCHANGED <<env, jobs, idleInterval, rate>>

CheckDrained_AnyJob ==   \* mutant: the first job that ends drains the worker
    IF ~running /\ drainPromise # NoPromise
    THEN /\ stopCalls' = [c \in Stoppers |->
                            IF awaits[c] = drainPromise THEN "resolved"
                            ELSE stopCalls[c]]
         /\ drainPromise' = NoPromise
         /\ UNCHANGED awaits
    ELSE UNCHANGED <<stopCalls, drainPromise, awaits>>

(* checkDrained(), after inFlight--. *)
CheckDrained ==
    IF ~running /\ inFlight = 1 /\ drainPromise # NoPromise
    THEN /\ stopCalls' = [c \in Stoppers |->
                            IF awaits[c] = drainPromise THEN "resolved"
                            ELSE stopCalls[c]]
         /\ drainPromise' = NoPromise
         /\ UNCHANGED awaits
    ELSE UNCHANGED <<stopCalls, drainPromise, awaits>>

(* Another process adds a job, a delay runs out, or a job is recovered; and *)
(* another process claims one.                                              *)
Appear == /\ arrived < MaxJobs
          /\ arrived' = arrived + 1 /\ due' = due + 1
          /\ UNCHANGED <<jobs, poll, stop, rate>>

TakenElsewhere == /\ due > 0
                  /\ due' = due - 1
                  /\ UNCHANGED <<arrived, jobs, poll, stop, rate>>

PollDue == task # NoTask /\ task.left = 0

(* Heartbeat.fire() restarts a task before it calls it. *)
Rearmed == Timer(task.interval)

Tick == /\ ~PollDue
        /\ task' = IF task = NoTask THEN NoTask ELSE [task EXCEPT !.left = @ - 1]
        /\ starts' = [i \in DOMAIN starts |-> Least({starts[i] + 1, RateWindow})]
        /\ recent' = Younger([i \in DOMAIN recent |-> recent[i] + 1], RateWindow)
        /\ UNCHANGED <<env, jobs, idleInterval, stop>>

-----------------------------------------------------------------------------
CoreTypeOK ==
    /\ due \in 0..MaxJobs /\ arrived \in 0..MaxJobs
    /\ running \in BOOLEAN
    /\ inFlight \in 0..Concurrency
    /\ handlers \in Nat /\ finishing \in Nat
    /\ idleInterval \in PollInterval..MaxPollInterval
    /\ task # NoTask => /\ task.interval \in Nat \ {0}
                        /\ task.left \in 0..task.interval
    /\ starts \in Seq(0..RateWindow)
    /\ recent \in Seq(0..RateWindow)

(* Worker.stop(), "Stop claiming new jobs and wait for in-flight ones to    *)
(* finish": once a stop() has resolved, no handler of the worker is         *)
(* running, then or later.                                                  *)
StopDrains == (\E c \in Stoppers : stopCalls[c] = "resolved") => handlers = 0

(* The rate limit, "at most count jobs per windowMs (sliding window)":      *)
(* over every window of that length, whatever the limiter has forgotten.    *)
RateLimited == RateCount > 0 => Len(recent) <= RateCount

(* Every concurrent stop() and close() call resolves, whichever of them     *)
(* created the promise.                                                     *)
EveryStopResolves ==
    \A c \in Stoppers : (stopCalls[c] # "none") ~> (stopCalls[c] = "resolved")

(* A claimable job does not wait forever at a worker that has not stopped. *)
JobsGetClaimed == (due > 0) ~> (due = 0 \/ ~running)
=============================================================================
