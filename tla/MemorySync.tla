---------------------------- MODULE MemorySync ----------------------------
(***************************************************************************)
(* Nodes that replicate through a MemoryAdapter                            *)
(* (packages/sync/src/adapters/memory.ts), and the live watch of           *)
(* SyncEngine: beside its rounds, an engine with the option live applies   *)
(* each change in the call of push() that brings it to the remote.         *)
(*                                                                         *)
(* The remote lives in the memory of the process its engines run in.  None *)
(* of its methods awaits anything: what pushOnce() does, from pending() to *)
(* the end of push(), is one step.                                         *)
(***************************************************************************)
EXTENDS SyncEngine

CONSTANTS Live,       \* the nodes with the option live
          MaxUpsets   \* how often a node is stopped or fails, a bound of the model

VARIABLES log,        \* what push() has taken in, in this order
          started,    \* the field of this name
          starting,   \* how many calls of start() await their first round
          polling,    \* a timer for the next round is set
          hears,      \* how many callbacks of the node watch the remote
          unwatch,    \* the field of this name holds the last of them
          upsets

live == <<started, starting, polling, hears, unwatch, upsets>>
vars == <<store, engine, limits, log, live>>

Init ==
    /\ EngineInit(0)
    /\ log = << >> /\ upsets = [n \in Nodes |-> 0]
    /\ started = [n \in Nodes |-> FALSE] /\ starting = [n \in Nodes |-> 0]
    /\ polling = [n \in Nodes |-> FALSE] /\ hears = [n \in Nodes |-> 0]
    /\ unwatch = [n \in Nodes |-> FALSE]

(* The map latest: the log holds versions of a document in rising order. *)
Of(l, d) == {i \in DOMAIN l : l[i].doc = d}
LatestVersion(l, d) == IF Of(l, d) = {} THEN NoVersion ELSE l[Max(Of(l, d))].version
LatestState(l, d)   == IF Of(l, d) = {} THEN Absent ELSE l[Max(Of(l, d))].state

-----------------------------------------------------------------------------
(* MemoryAdapter.pull(): the log after a position, of these collections. *)
Pull(n) ==
    LET found == {i \in DOMAIN log : /\ i > cursor[n]
                                     /\ Colls(n) = {} \/ CollOf[log[i].doc] \in Colls(n)}
        batch == Batch(found, BatchSize)
    IN /\ PullAnswered(n, [changes |-> [k \in DOMAIN batch |-> log[batch[k]]],
                           cursor  |-> IF Len(batch) = BatchSize THEN batch[BatchSize]
                                       ELSE Max({cursor[n], Len(log)})])
       /\ UNCHANGED <<log, live>>

(* The callbacks of watch(), which the pusher hears as well. *)
Hear(n, s, c) == ApplyAll(s, n, [k \in 1..hears[n] |-> c], Clock(n), Resolver)

(* ingest(): nothing that is not newer is taken in, or heard. *)
Ingest(remote, c) ==
    IF ~Newer(c.version, LatestVersion(remote.log, c.doc)) THEN remote
    ELSE [log    |-> Append(remote.log, [c EXCEPT !.seq = 0]),   \* toRemote()
          stores |-> [n \in Nodes |-> Hear(n, remote.stores[n], c)]]

(* pushOnce(), up to its answer. *)
PushRound(n) ==
    /\ phase[n] = "push"
    /\ LET pending == Pending(store[n], Explicit, BatchSize)
           after[k \in 0..Len(pending)] ==
             IF k = 0 THEN [log |-> log, stores |-> store]
             ELSE Ingest(after[k - 1], pending[k])
           remote  == after[Len(pending)]
       IN /\ log' = remote.log /\ store' = remote.stores
          /\ acked' = [acked EXCEPT ![n] = pending]
          /\ phase' = [phase EXCEPT ![n] = IF pending = << >> THEN "idle" ELSE "ack"]
    /\ UNCHANGED <<cursor, everPushed, inbox, outbox, limits, live>>

-----------------------------------------------------------------------------
(* start(), up to its first round, which it may share. *)
Starts(n) ==
    /\ ~started[n]
    /\ store' = IF everPushed[n] THEN store
                ELSE [store EXCEPT ![n] = Seed(@, n, Colls(n))]
    /\ phase' = [phase EXCEPT ![n] = IF @ \in {"off", "idle"} THEN "pull" ELSE @]
    /\ started' = [started EXCEPT ![n] = TRUE]
    /\ starting' = [starting EXCEPT ![n] = @ + 1]
    /\ UNCHANGED <<cursor, everPushed, inbox, outbox, acked, limits, log,
                   polling, hears, unwatch, upsets>>

(* start(), after it: the timer and the watch, whether stopped or not. *)
GoesLive(n) ==
    /\ phase[n] = "idle" /\ starting[n] > 0
    /\ polling' = [polling EXCEPT ![n] = TRUE]
    /\ IF n \in Live
       THEN /\ hears' = [hears EXCEPT ![n] = @ + starting[n]]
            /\ unwatch' = [unwatch EXCEPT ![n] = TRUE]
       ELSE UNCHANGED <<hears, unwatch>>
    /\ starting' = [starting EXCEPT ![n] = 0]
    /\ UNCHANGED <<store, engine, limits, log, started, upsets>>

(* A round of the timer, or one the application asks for.  The callbacks of *)
(* a round that has ended run before any other event, start() among them.   *)
Round(n) == starting[n] = 0 /\ BeginRound(n) /\ UNCHANGED <<log, live>>

(* A round fails, and start() with it, which then sets up nothing. *)
RoundFails(n) ==
    /\ ApplyFails(n) /\ upsets[n] < MaxUpsets[n]
    /\ starting' = [starting EXCEPT ![n] = 0]
    /\ upsets' = [upsets EXCEPT ![n] = @ + 1]
    /\ UNCHANGED <<log, started, polling, hears, unwatch>>

(* stop(): a round under way goes on, and so does start(). *)
Stop(n) ==
    /\ upsets[n] < MaxUpsets[n]
    /\ started' = [started EXCEPT ![n] = FALSE]
    /\ polling' = [polling EXCEPT ![n] = FALSE]
    /\ unwatch' = [unwatch EXCEPT ![n] = FALSE]
    /\ hears' = [hears EXCEPT ![n] = IF unwatch[n] THEN @ - 1 ELSE @]
    /\ upsets' = [upsets EXCEPT ![n] = @ + 1]
    /\ UNCHANGED <<store, engine, limits, log, starting>>

Local(n) ==
    \/ \E d \in Docs, op \in {"upsert", "delete"} : Write(n, d, op)
    \/ ApplyPulled(n) \/ MarkAcked(n)

Next ==
    \/ Tick /\ UNCHANGED <<log, live>>
    \/ \E n \in Nodes :
         \/ Local(n) /\ UNCHANGED <<log, live>>
         \/ Pull(n) \/ PushRound(n)
         \/ Starts(n) \/ GoesLive(n) \/ Round(n) \/ RoundFails(n) \/ Stop(n)

Spec == Init /\ [][Next]_vars

(* Rounds go on to their end, and an engine that polls begins another: the  *)
(* weak fairness of Advances(n), with its ENABLED written out as Waits(n),  *)
(* which TLC would take too long to evaluate.                               *)
Advances(n) ==
    \/ (ApplyPulled(n) \/ MarkAcked(n)) /\ UNCHANGED <<log, live>>
    \/ Pull(n) \/ PushRound(n) \/ GoesLive(n)
    \/ started[n] /\ polling[n] /\ Round(n)

Waits(n) == \/ phase[n] \in {"pull", "apply", "push", "ack"}
            \/ phase[n] = "idle" /\ starting[n] > 0
            \/ phase[n] = "idle" /\ started[n] /\ polling[n]

Fairness == \A n \in Nodes : []<>(~Waits(n)) \/ []<><<Advances(n)>>_vars

FairSpec == Spec /\ Fairness
-----------------------------------------------------------------------------
TypeOK ==
    /\ EngineTypeOK
    /\ \A i \in DOMAIN log : log[i].doc \in Docs /\ log[i].version \in Versions
    /\ cursor \in [Nodes -> 0..Len(log)]
    /\ started \in [Nodes -> BOOLEAN] /\ polling \in [Nodes -> BOOLEAN]
    /\ unwatch \in [Nodes -> BOOLEAN]
    /\ starting \in [Nodes -> Nat] /\ hears \in [Nodes -> Nat]
    /\ \A n \in Nodes : (unwatch[n] => hears[n] > 0) /\ upsets[n] \in 0..MaxUpsets[n]

(* A local change is marked as pushed only when the remote has taken it in, *)
(* or a version of the document that is newer (push(), markPushed()).       *)
AckedIsDelivered ==
    \A n \in Nodes : \A q \in Seqs(store[n]) :
      LET e == Entry(store[n], q)
      IN e.source = "local" /\ e.pushed => ~Newer(e.version, LatestVersion(log, e.doc))

Shows(n, d) ==
    /\ store[n].docs[d].live = LatestState(log, d).live
    /\ store[n].docs[d].live => store[n].docs[d].origin = LatestState(log, d).origin

(* Changes that are heard while a round is under way make a node go back to *)
(* an older content when the round applies what it has pulled before; but a *)
(* node that polls comes to hold what the remote holds, and stays so.       *)
EventuallyEqual ==
    <>[](\A n \in Nodes, d \in Docs : started[n] /\ polling[n] => Shows(n, d))
=============================================================================
