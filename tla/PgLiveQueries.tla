---------------------------- MODULE PgLiveQueries ----------------------------
(***************************************************************************)
(* watch() on Postgres: the watchers of one collection in one process      *)
(* (PgReactor and PgLiveQuery of src/reactive.ts, Collection.watchPg(),    *)
(* PgDriver.listen()).  A trigger notifies of every write; the first       *)
(* watcher of a collection LISTENs on a connection of its own.             *)
(*                                                                         *)
(* What a query reads is the version of the table, the number of writes    *)
(* that are committed.  The delta engine is that of LiveQueries.  The set  *)
(* of a collection's queries is an object: a watcher may hold one that the *)
(* reactor no longer has.                                                  *)
(***************************************************************************)
EXTENDS Integers, Sequences, FiniteSets, SequencesExt

CONSTANTS Watchers,
          MaxVersion,   \* bound: writes
          MaxSets,      \* bound: sets of queries created, of which each has a connection
          MaxFlushes,   \* bound: flushes under way at once
          MaxFaults     \* bound: connections lost, or not opened

VARIABLES version,
          current,    \* queries.get(collection): the set the reactor has, or 0
          sets,       \* how many sets there have been
          members,    \* per set, its queries
          conn,       \* per set, the connection its LISTEN was for: "none",
                      \* "opening", "listening", "lost", "closed"
          notes,      \* per set, whether a notification is on its way
          unlisten,   \* the set whose connection the reactor is to close, or 0
          watch,      \* per watcher, its steps, and its live query
          timer,      \* flushTimer: ids are pending
          flushes,    \* those under way, each with the queries it has yet to notify
          ending,     \* stop() of the reactor: "no", "waits", "ended"
          faults,
          exempt      \* history: watchers whose collection's LISTEN was under way as
                      \* another came or went, or whose connection was lost

pgliveVars == <<version, current, sets, members, conn, notes, unlisten, watch, timer,
                flushes, ending, faults, exempt>>

PgLiveAssumption == MaxSets \in Nat

Sets == 1..MaxSets

Idle == [at |-> "off", set |-> 0, stopped |-> FALSE, held |-> 0, tail |-> << >>]

PgLiveInit ==
    /\ version = 0 /\ current = 0 /\ sets = 0
    /\ members = [s \in Sets |-> {}]
    /\ conn = [s \in Sets |-> "none"]
    /\ notes = [s \in Sets |-> FALSE]
    /\ unlisten = 0
    /\ watch = [w \in Watchers |-> Idle]
    /\ timer = FALSE /\ flushes = {}
    /\ ending = "no" /\ faults = 0
    /\ exempt = {}

Shared == <<version, sets, faults>>

(* A recompute that is asked for by a flush, or 0 for the first read; read  *)
(* is what its query has found.                                             *)
Ask(by) == [by |-> by, read |-> -1]

Asks(q, by) == [q EXCEPT !.tail = Append(@, Ask(by))]

----------------------------------------------------------------------------
(* The database: a write, whose notification goes to whoever listens.       *)
Commit ==
    /\ version < MaxVersion /\ version' = version + 1
    /\ notes' = [s \in Sets |-> notes[s] \/ conn[s] = "listening"]
    /\ UNCHANGED <<current, sets, members, conn, unlisten, watch, timer, flushes,
                   ending, faults, exempt>>

(* The listening connection is lost.  Another is opened a second later, and *)
(* what was notified of in between is not made up for.                      *)
ConnectionLost(s) ==
    /\ faults < MaxFaults /\ faults' = faults + 1
    /\ conn[s] = "listening"
    /\ conn' = [conn EXCEPT ![s] = "lost"]
    /\ notes' = [notes EXCEPT ![s] = FALSE]
    /\ exempt' = exempt \cup {w \in Watchers : watch[w].set = s}
    /\ UNCHANGED <<version, current, sets, members, unlisten, watch, timer, flushes,
                   ending>>

Reconnects(s) ==
    /\ conn[s] = "lost"
    /\ conn' = [conn EXCEPT ![s] = "listening"]
    /\ UNCHANGED <<Shared, current, members, notes, unlisten, watch, timer, flushes,
                   ending, exempt>>

----------------------------------------------------------------------------
(* register() *)

(* The first read is asked for, then flushes see the query.                 *)
Joins(w, s) ==
    /\ watch' = [watch EXCEPT ![w] = Asks([@ EXCEPT !.at = "reads", !.set = s], 0)]
    /\ members' = [members EXCEPT ![s] = @ \cup {w}]

(* watch(): the collection has a set of queries, or it gets one, and LISTEN *)
(* is sent for it.                                                          *)
Registers(w) ==
    /\ watch[w].at = "off" /\ ending = "no"
    /\ IF current # 0
       THEN /\ Joins(w, current)
            /\ exempt' = IF conn[current] = "listening" THEN exempt ELSE exempt \cup {w}
            /\ UNCHANGED <<sets, current, conn>>
       ELSE /\ sets < MaxSets /\ sets' = sets + 1 /\ current' = sets + 1
            /\ conn' = [conn EXCEPT ![sets + 1] = "opening"]
            /\ watch' = [watch EXCEPT ![w].at = "listens", ![w].set = sets + 1]
            /\ UNCHANGED <<members, exempt>>
    /\ UNCHANGED <<version, notes, unlisten, timer, flushes, ending, faults>>

(* LISTEN is answered.  If the reactor has dropped the set by then the      *)
(* connection is closed, but the query goes on in that set.                 *)
Listened(w) ==
    LET s == watch[w].set
    IN /\ watch[w].at = "listens"
       /\ IF current = s
          THEN /\ conn' = [conn EXCEPT ![s] = "listening"] /\ unlisten' = s
               /\ UNCHANGED exempt
          ELSE /\ conn' = [conn EXCEPT ![s] = "closed"] /\ UNCHANGED unlisten
               /\ exempt' = exempt \cup {w}
       /\ Joins(w, s)
       /\ UNCHANGED <<Shared, current, notes, timer, flushes, ending>>

(* Or it fails, and the set goes if no other query has joined it.           *)
ListenFails(w) ==
    LET s == watch[w].set
    IN /\ watch[w].at = "listens" /\ faults < MaxFaults /\ faults' = faults + 1
       /\ conn' = [conn EXCEPT ![s] = "closed"]
       /\ current' = IF current = s /\ members[s] = {} THEN 0 ELSE current
       /\ watch' = [watch EXCEPT ![w].at = "failed"]
       /\ exempt' = exempt \cup {v \in Watchers : watch[v].set = s}
       /\ UNCHANGED <<version, sets, members, notes, unlisten, timer, flushes,
                      ending>>

(* register() resolves when the first read has been delivered.              *)
Registered(w) ==
    /\ watch[w].at = "reads" /\ \A i \in DOMAIN watch[w].tail : watch[w].tail[i].by # 0
    /\ watch' = [watch EXCEPT ![w].at = "on"]
    /\ UNCHANGED <<Shared, current, members, conn, notes, unlisten, timer, flushes,
                   ending, exempt>>

(* stop() of the handle *)
Stops(w) ==
    /\ watch[w].at # "off" /\ ~watch[w].stopped
    /\ watch' = [watch EXCEPT ![w].stopped = TRUE]
    /\ UNCHANGED <<Shared, current, members, conn, notes, unlisten, timer, flushes,
                   ending, exempt>>

(* unregister(), when register() has resolved.  The reactor's set may be    *)
(* another one than the one it joined.                                      *)
Unregisters(w) ==
    /\ watch[w].stopped /\ watch[w].at \in {"on", "failed"}
    /\ watch' = [watch EXCEPT ![w].at = "gone"]
    /\ IF current = 0 THEN UNCHANGED <<members, current, unlisten, conn, exempt>>
       ELSE /\ members' = [members EXCEPT ![current] = @ \ {w}]
            /\ current' = IF members'[current] = {} THEN 0 ELSE current
            /\ unlisten' = IF current' = 0 THEN 0 ELSE unlisten
            /\ conn' = IF current' = 0 /\ unlisten # 0
                       THEN [conn EXCEPT ![unlisten] = "closed"] ELSE conn
            /\ exempt' = IF conn[current] = "opening"
                         THEN exempt \cup {v \in Watchers : watch[v].set = current}
                         ELSE exempt
    /\ UNCHANGED <<Shared, notes, timer, flushes, ending>>

----------------------------------------------------------------------------

(* onNotify(): the debounce timer starts.                                   *)
Notified(s) ==
    /\ notes[s] /\ conn[s] = "listening"
    /\ notes' = [notes EXCEPT ![s] = FALSE]
    /\ timer' = TRUE
    /\ UNCHANGED <<Shared, current, members, conn, unlisten, watch, flushes, ending, exempt>>

(* flush(): the queries of the set are notified one after the other.        *)
FlushStarts ==
    /\ timer /\ timer' = FALSE
    /\ \E id \in 1..MaxFlushes \ {fl.id : fl \in flushes} :
          flushes' = flushes \cup
              {[id |-> id, todo |-> IF current = 0 THEN {} ELSE members[current]]}
    /\ UNCHANGED <<Shared, current, members, conn, notes, unlisten, watch, ending, exempt>>

(* The query that it has notified is recomputed; the next one, or the end.  *)
Awaited(fl) == \E w \in Watchers : \E i \in DOMAIN watch[w].tail : watch[w].tail[i].by = fl.id

FlushGoesOn(fl) ==
    /\ ~Awaited(fl)
    /\ \/ fl.todo = {} /\ flushes' = flushes \ {fl} /\ UNCHANGED watch
       \/ \E w \in fl.todo :
            /\ flushes' = (flushes \ {fl}) \cup {[id |-> fl.id, todo |-> fl.todo \ {w}]}
            /\ watch' = IF watch[w].stopped THEN watch
                        ELSE [watch EXCEPT ![w] = Asks(@, fl.id)]
    /\ UNCHANGED <<Shared, current, members, conn, notes, unlisten, timer, ending,
                   exempt>>

----------------------------------------------------------------------------
(* doRecompute(): the queue of a query, one recompute at a time.            *)

Reads_Any(w) ==   \* mutant: recomputes are not queued
    /\ \E i \in DOMAIN watch[w].tail :
          /\ watch[w].tail[i].read = -1
          /\ watch' = [watch EXCEPT ![w].tail[i].read = version]
    /\ UNCHANGED <<Shared, current, members, conn, notes, unlisten, timer, flushes,
                   ending, exempt>>

(* Its query is answered by the server. *)
Reads(w) ==
    /\ watch[w].tail # << >> /\ Head(watch[w].tail).read = -1
    /\ watch' = IF watch[w].stopped THEN [watch EXCEPT ![w].tail = Tail(@)]
                ELSE [watch EXCEPT ![w].tail[1].read = version]
    /\ UNCHANGED <<Shared, current, members, conn, notes, unlisten, timer, flushes,
                   ending, exempt>>

(* And the results are taken over, and an event fires. *)
Delivers(w) ==
    /\ \E i \in DOMAIN watch[w].tail :
          /\ watch[w].tail[i].read # -1
          /\ watch' = [watch EXCEPT ![w] = [@ EXCEPT !.tail = RemoveAt(watch[w].tail, i),
                 !.held = IF watch[w].stopped THEN watch[w].held ELSE watch[w].tail[i].read]]
    /\ UNCHANGED <<Shared, current, members, conn, notes, unlisten, timer, flushes, ending, exempt>>

----------------------------------------------------------------------------
(* stop() of the reactor, on $disconnect(): the queries in sets are stopped, *)
(* the flush under way is awaited, and the connections are closed.           *)
EndBegins ==
    /\ ending = "no" /\ ending' = "waits"
    /\ timer' = FALSE
    /\ watch' = [w \in Watchers |-> IF current # 0 /\ w \in members[current]
                                    THEN [watch[w] EXCEPT !.stopped = TRUE] ELSE watch[w]]
    /\ exempt' = exempt \cup {w \in Watchers : watch[w].at = "listens"}
    /\ UNCHANGED <<Shared, current, members, conn, notes, unlisten, flushes>>

Ends ==
    /\ ending = "waits" /\ flushes = {}
    /\ ending' = "ended" /\ current' = 0 /\ unlisten' = 0
    /\ conn' = [s \in Sets |-> IF s = unlisten THEN "closed" ELSE conn[s]]
    /\ UNCHANGED <<Shared, members, notes, watch, timer, flushes, exempt>>

Next ==
    \/ Commit \/ FlushStarts \/ EndBegins \/ Ends
    \/ \E s \in Sets : ConnectionLost(s) \/ Reconnects(s) \/ Notified(s)
    \/ \E fl \in flushes : FlushGoesOn(fl)
    \/ \E w \in Watchers : \/ Registers(w) \/ Listened(w) \/ ListenFails(w) \/ Registered(w)
                           \/ Stops(w) \/ Unregisters(w) \/ Reads(w) \/ Delivers(w)

Spec == PgLiveInit /\ [][Next]_pgliveVars

----------------------------------------------------------------------------
Settled(w) ==
    /\ watch[w].at = "on" /\ watch[w].tail = << >>
    /\ ~timer /\ flushes = {} /\ \A s \in Sets : ~notes[s]

(* A watcher whose LISTEN no other watcher interfered with, and whose       *)
(* connection was not lost, misses no write: with no notification under way *)
(* it holds what the table holds.                                           *)
WatchersAreCurrent ==
    \A w \in Watchers \ exempt :
        Settled(w) /\ ~watch[w].stopped => watch[w].held = version

(* A watcher's results never go back to an earlier state of the table.      *)
Forward == \A w \in Watchers : watch'[w].held >= watch[w].held

NeverBack == [][Forward]_pgliveVars
=============================================================================
