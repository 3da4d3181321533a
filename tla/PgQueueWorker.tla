--------------------------- MODULE PgQueueWorker ---------------------------
(***************************************************************************)
(* PgWorkerImpl, the worker loop of the Postgres queue.  Each claim is     *)
(* awaited, so kick() is spread over several steps, and poll timers, add() *)
(* calls, the ends of jobs and stop() run between them.  The flag kicking  *)
(* turns a kick() away while another one is under way.                     *)
(***************************************************************************)
EXTENDS WorkerCore

VARIABLES
    kicking,     \* this.kicking
    claim,       \* the awaited claim: "none", "sent", or its reply
    claimedAny,  \* the local variable of the kick() under way
    inserted     \* add() calls of this process between INSERT and kick()

kick == <<kicking, claim, claimedAny>>
vars == <<env, jobs, poll, stop, rate, kick, inserted>>

Loop_OffByOne(busy, kept, any, armed) ==   \* mutant: one claim too many
    IF running /\ busy <= Concurrency /\ ~RateFull(kept)
    THEN /\ kicking' = TRUE /\ claim' = "sent" /\ claimedAny' = any
         /\ task' = armed
         /\ UNCHANGED idleInterval
    ELSE /\ kicking' = FALSE /\ claim' = "none" /\ claimedAny' = FALSE
         /\ EndKick(any,
                    IF running /\ busy < Concurrency THEN RateWait(kept) ELSE 0,
                    busy, armed)

(* The head of the while loop: send the next claim, or leave the loop. *)
Loop(busy, kept, any, armed) ==
    IF running /\ busy < Concurrency /\ ~RateFull(kept)
    THEN /\ kicking' = TRUE /\ claim' = "sent" /\ claimedAny' = any
         /\ task' = armed
         /\ UNCHANGED idleInterval
    ELSE /\ kicking' = FALSE /\ claim' = "none" /\ claimedAny' = FALSE
         /\ EndKick(any,
                    IF running /\ busy < Concurrency THEN RateWait(kept) ELSE 0,
                    busy, armed)

(* kick(), called with busy jobs in flight. *)
Kick(busy, armed) ==
    IF running /\ ~kicking
    THEN /\ starts' = IF busy < Concurrency THEN InWindow(starts) ELSE starts
         /\ Loop(busy, InWindow(starts), FALSE, armed)
         /\ UNCHANGED recent
    ELSE /\ task' = armed
         /\ UNCHANGED <<kick, idleInterval, rate>>

(* The constructor has called kick(), which has sent its first claim. *)
Init == /\ CoreInit
        /\ kicking = TRUE /\ claim = "sent" /\ claimedAny = FALSE
        /\ inserted = 0

(* The server runs the claim: FOR UPDATE SKIP LOCKED LIMIT 1. *)
ServerClaims ==
    /\ claim = "sent"
    /\ IF due > 0 THEN due' = due - 1 /\ claim' = "got"
                  ELSE claim' = "empty" /\ UNCHANGED due
    /\ UNCHANGED <<arrived, jobs, poll, stop, rate, kicking, claimedAny, inserted>>

(* The await returns a job: it runs, whatever has happened meanwhile. *)
ClaimReturnsJob ==
    /\ claim = "got"
    /\ inFlight' = inFlight + 1 /\ handlers' = handlers + 1
    /\ recent' = Append(recent, 0)
    /\ LET begun == IF RateCount = 0 THEN starts ELSE Append(starts, 0)
           again == running /\ inFlight + 1 < Concurrency
       IN /\ starts' = IF again THEN InWindow(begun) ELSE begun
          /\ Loop(inFlight + 1, InWindow(begun), TRUE, task)
    /\ UNCHANGED <<env, finishing, stop, inserted>>

ClaimReturnsNothing ==
    /\ claim = "empty"
    /\ kicking' = FALSE /\ claim' = "none" /\ claimedAny' = FALSE
    /\ EndKick(claimedAny, 0, inFlight, task)
    /\ UNCHANGED <<env, jobs, stop, rate, inserted>>

AddInserts ==
    /\ arrived < MaxJobs
    /\ arrived' = arrived + 1 /\ due' = due + 1
    /\ inserted' = inserted + 1
    /\ UNCHANGED <<jobs, poll, stop, rate, kick>>

AddKicks ==
    /\ inserted > 0 /\ inserted' = inserted - 1
    /\ Kick(inFlight, task)
    /\ UNCHANGED <<env, jobs, stop>>

PollFires ==
    /\ PollDue
    /\ Kick(inFlight, Rearmed)
    /\ UNCHANGED <<env, jobs, stop, inserted>>

(* The handler settles and its awaited outcome has been written. *)
Settle ==
    /\ handlers > 0
    /\ handlers' = handlers - 1 /\ finishing' = finishing + 1
    /\ UNCHANGED <<env, inFlight, poll, stop, rate, kick, inserted>>

Finally ==
    /\ finishing > 0 /\ finishing' = finishing - 1
    /\ inFlight' = inFlight - 1
    /\ Kick(inFlight - 1, task)
    /\ CheckDrained
    /\ UNCHANGED <<env, handlers, running, inserted>>

Environment == /\ UNCHANGED <<kick, inserted>>
               /\ \/ Appear \/ TakenElsewhere \/ Tick
                  \/ \E c \in Stoppers : Stop(c)

Next == ServerClaims \/ ClaimReturnsJob \/ ClaimReturnsNothing \/ AddInserts
        \/ AddKicks \/ PollFires \/ Settle \/ Finally \/ Environment

Spec == Init /\ [][Next]_vars

(* Queries are answered, timers fire, callbacks run, and handlers return. *)
FairSpec == /\ Spec
            /\ WF_vars(ServerClaims) /\ WF_vars(ClaimReturnsJob)
            /\ WF_vars(ClaimReturnsNothing) /\ WF_vars(AddKicks)
            /\ WF_vars(PollFires) /\ WF_vars(Settle) /\ WF_vars(Finally)
            /\ WF_vars(Tick /\ UNCHANGED <<kick, inserted>>)

-----------------------------------------------------------------------------
(* The fields keep their types. *)
TypeOK == /\ CoreTypeOK
          /\ kicking \in BOOLEAN /\ claimedAny \in BOOLEAN
          /\ claim \in {"none", "sent", "got", "empty"}
          /\ inserted \in Nat

(* The slots are never oversubscribed, although they are checked before     *)
(* the claim is awaited and taken after it.                                 *)
SlotsSuffice == inFlight <= Concurrency /\ inFlight = handlers + finishing
=============================================================================
