---------------------------- MODULE PgKvChannels ----------------------------
(***************************************************************************)
(* publish() and subscribe() of pgKv(), on Postgres.  Every statement is   *)
(* awaited, so that the calls and the polls of one process overlap; and a  *)
(* message is numbered when it is inserted, but seen by others only when   *)
(* the insert commits, so that numbers become visible out of order.        *)
(***************************************************************************)
EXTENDS KvLog

CONSTANTS MaxDrains,   \* bound: drains of one process at a time
          Infinite     \* stands for Infinity: above every number

VARIABLES drains,      \* per process, the drains whose rows are awaited or here
          asked        \* per subscriber, the query of the highest number

vars == <<logVars, drains, asked>>

PgKvAssumption ==
    /\ MaxMessages \in Nat /\ Infinite \in Nat /\ Infinite > MaxMessages
    /\ KeepFor \in Nat

NotAsked == [state |-> "none", high |-> 0]

Init ==
    /\ LogInit
    /\ drains = [p \in Processes |-> {}]
    /\ asked = [s \in Subscribers |-> NotAsked]

(* publish(), its first statement: the sequence numbers the row. *)
Insert(p, ch) ==
    /\ Len(log) < MaxMessages
    /\ log' = Append(log, [channel |-> ch, ts |-> clock, state |-> "open",
                            by |-> p, drained |-> FALSE])
    /\ UNCHANGED <<subs, cursor, timers, clock, stopped, since, delivered, drains, asked>>

(* The insert commits. *)
Commit(n) ==
    /\ log[n].state = "open"
    /\ log' = [log EXCEPT ![n].state = "kept"]
    /\ UNCHANGED <<subs, cursor, timers, clock, stopped, since, delivered, drains, asked>>

(* The second statement of a publish() of this time. *)
Prune ==
    /\ \E n \in DOMAIN log : log[n].ts = clock /\ log[n].state # "open"
    /\ Pruned(log) # log /\ log' = Pruned(log)
    /\ UNCHANGED <<subs, cursor, timers, clock, stopped, since, delivered, drains, asked>>

(* drainPubsub() takes the least cursor, and does nothing while every        *)
(* subscriber waits for its number.                                          *)
DrainAsks(p) ==
    /\ subs[p] # << >> /\ Least(p) # Infinite
    /\ Cardinality(drains[p]) < MaxDrains
    /\ drains' = [drains EXCEPT ![p] =
                     @ \cup {[min |-> Least(p), rows |-> {}, here |-> FALSE]}]

(* The third part of publish() ... *)
PublishDrains(n) ==
    /\ log[n].state # "open" /\ ~log[n].drained /\ DrainAsks(log[n].by)
    /\ log' = [log EXCEPT ![n].drained = TRUE]
    /\ UNCHANGED <<subs, cursor, timers, clock, stopped, since, delivered, asked>>

(* ... and the poll of the heartbeat, which does not wait for the last one.  *)
PollDrains(p) == p \in timers /\ DrainAsks(p) /\ UNCHANGED <<logVars, asked>>

(* The query runs, on what is committed by then. *)
DrainReads(p, d) ==
    /\ d \in drains[p] /\ ~d.here
    /\ drains' = [drains EXCEPT ![p] = (@ \ {d}) \cup
                     IF Unread(d.min) = {} THEN {}
                     ELSE {[min |-> d.min, rows |-> Unread(d.min), here |-> TRUE]}]
    /\ UNCHANGED <<logVars, asked>>

(* ORDER BY the number. *)
InOrder(rows) ==
    CHOOSE order \in [1..Cardinality(rows) -> rows] :
        \A i, j \in DOMAIN order : i < j => order[i] < order[j]

DrainDelivers_Unchecked(p, d) ==   \* mutant: the cursor is not looked at in the loop
    /\ d \in drains[p] /\ d.here
    /\ drains' = [drains EXCEPT ![p] = @ \ {d}]
    /\ LET heard(s) == InOrder({n \in d.rows : log[n].channel = ChannelOf[s]})
       IN /\ delivered' = [s \in Subscribers |-> IF s \in ToSet(subs[p])
                              THEN delivered[s] \o heard(s) ELSE delivered[s]]
          /\ cursor' = [s \in Subscribers |-> IF s \in ToSet(subs[p])
                              THEN Max(d.rows) ELSE cursor[s]]
    /\ UNCHANGED <<log, subs, timers, clock, stopped, since, asked>>

(* The rows are here: every subscriber gets what is past its own cursor,     *)
(* which another drain may have moved meanwhile.                             *)
DrainDelivers(p, d) ==
    /\ d \in drains[p] /\ d.here
    /\ drains' = [drains EXCEPT ![p] = @ \ {d}]
    /\ LET heard(s) == InOrder({n \in d.rows : Hears(s, n)})
       IN /\ delivered' = [s \in Subscribers |-> IF s \in ToSet(subs[p])
                              THEN delivered[s] \o heard(s) ELSE delivered[s]]
          /\ cursor' = [s \in Subscribers |-> IF s \in ToSet(subs[p])
                              THEN Max({cursor[s], Max(d.rows)}) ELSE cursor[s]]
    /\ UNCHANGED <<log, subs, timers, clock, stopped, since, asked>>

(* subscribe(): Infinity keeps it from every delivery until the highest      *)
(* number is known.                                                          *)
Subscribe(p, s) ==
    /\ asked[s] = NotAsked /\ ProcessOf[s] = p
    /\ cursor' = [cursor EXCEPT ![s] = Infinite]
    /\ asked' = [asked EXCEPT ![s] = [state |-> "asked", high |-> 0]]
    /\ since' = [since EXCEPT ![s] = {0} \cup {n \in DOMAIN log : log[n].state # "open"}]
    /\ Joins(p, s)
    /\ UNCHANGED <<log, clock, delivered, drains>>

(* psMaxSeq(): its query runs, *)
SnapshotReads(s) ==
    /\ asked[s].state = "asked"
    /\ asked' = [asked EXCEPT ![s] = [state |-> "read", high |-> Highest]]
    /\ since' = [since EXCEPT ![s] = {0} \cup {n \in DOMAIN log : log[n].state # "open"}]
    /\ UNCHANGED <<log, subs, cursor, timers, clock, stopped, delivered, drains>>

(* and its answer is here. *)
SnapshotArrives(s) ==
    /\ asked[s].state = "read"
    /\ asked' = [asked EXCEPT ![s].state = "done"]
    /\ cursor' = [cursor EXCEPT ![s] = asked[s].high]
    /\ UNCHANGED <<log, subs, timers, clock, stopped, since, delivered, drains>>

Unsubscribe(p, s) ==
    /\ Leaves(p, s)
    /\ UNCHANGED <<log, cursor, clock, since, delivered, drains, asked>>

Stop(p) ==
    /\ StopTimer(p)
    /\ UNCHANGED <<log, subs, cursor, clock, since, delivered, drains, asked>>

Tick == TickClock /\ UNCHANGED <<log, subs, cursor, timers, stopped, since, delivered,
                                 drains, asked>>

Next ==
    \/ Tick \/ Prune
    \/ \E n \in DOMAIN log : Commit(n) \/ PublishDrains(n)
    \/ \E s \in Subscribers : SnapshotReads(s) \/ SnapshotArrives(s)
    \/ \E p \in Processes :
          \/ \E ch \in Channels : Insert(p, ch)
          \/ PollDrains(p) \/ Stop(p)
          \/ \E d \in drains[p] : DrainReads(p, d) \/ DrainDelivers(p, d)
          \/ \E s \in Subscribers : Subscribe(p, s) \/ Unsubscribe(p, s)

Spec == Init /\ [][Next]_vars

=============================================================================
