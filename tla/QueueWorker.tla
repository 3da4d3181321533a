---------------------------- MODULE QueueWorker ----------------------------
(***************************************************************************)
(* WorkerImpl, the worker loop of the SQLite queue.  kick() is synchronous *)
(* from the first claim to the scheduling of the next poll, so it is one   *)
(* step, part of the handler that calls it: the constructor, the heartbeat *)
(* poll, an add() in the same process, or the finally() of a job.          *)
(***************************************************************************)
EXTENDS WorkerCore

VARIABLE created   \* the constructor has run

vars == <<env, jobs, poll, stop, rate, created>>

(* kick() with avail claimable jobs, busy in flight, and armed the task it  *)
(* finds: it claims until the slots, the window or the jobs run out.        *)
Kick(avail, busy, armed) ==
    LET kept  == InWindow(starts)
        spare == Concurrency - busy
        room  == IF RateCount = 0 THEN spare
                 ELSE IF RateFull(kept) THEN 0 ELSE RateCount - Len(kept)
        n     == Least({spare, room, avail})
        begun == IF RateCount = 0 THEN kept ELSE kept \o Zeros(n)
        wait  == IF n < spare /\ RateFull(begun) THEN RateWait(begun) ELSE 0
    IN IF running
       THEN /\ due' = avail - n
            /\ inFlight' = busy + n
            /\ handlers' = handlers + n
            /\ starts' = IF spare = 0 THEN starts ELSE begun
            /\ recent' = recent \o Zeros(n)
            /\ EndKick(n > 0, wait, busy + n, armed)
       ELSE /\ due' = avail
            /\ inFlight' = busy
            /\ task' = armed
            /\ UNCHANGED <<handlers, idleInterval, rate>>

Init == CoreInit /\ created = FALSE

Construct ==
    /\ ~created /\ created' = TRUE
    /\ Kick(due, inFlight, task)
    /\ UNCHANGED <<arrived, finishing, stop>>

(* add() in this process kicks the queue's workers. *)
AddHere ==
    /\ created
    /\ arrived < MaxJobs /\ arrived' = arrived + 1
    /\ Kick(due + 1, inFlight, task)
    /\ UNCHANGED <<finishing, stop, created>>

PollFires ==
    /\ created /\ PollDue
    /\ Kick(due, inFlight, Rearmed)
    /\ UNCHANGED <<arrived, finishing, stop, created>>

(* The handler settles and its outcome is written. *)
Settle ==
    /\ handlers > 0
    /\ handlers' = handlers - 1 /\ finishing' = finishing + 1
    /\ UNCHANGED <<env, inFlight, poll, stop, rate, created>>

Finally ==
    /\ finishing > 0 /\ finishing' = finishing - 1
    /\ Kick(due, inFlight - 1, task)
    /\ CheckDrained
    /\ UNCHANGED <<arrived, running, created>>

Environment == /\ created /\ UNCHANGED created
               /\ \/ Appear \/ TakenElsewhere \/ Tick
                  \/ \E c \in Stoppers : Stop(c)

Next == Construct \/ AddHere \/ PollFires \/ Settle \/ Finally \/ Environment

Spec == Init /\ [][Next]_vars

(* Timers fire, promise callbacks run, and handlers return. *)
FairSpec == /\ Spec
            /\ WF_vars(Construct) /\ WF_vars(PollFires)
            /\ WF_vars(Settle) /\ WF_vars(Finally)
            /\ WF_vars(created /\ UNCHANGED created /\ Tick)

-----------------------------------------------------------------------------
(* The fields keep their types. *)
TypeOK == CoreTypeOK /\ created \in BOOLEAN

=============================================================================
