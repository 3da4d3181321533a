----------------------------- MODULE LiveQueries -----------------------------
(***************************************************************************)
(* watch() on SQLite: the live queries of one process (LiveQuery and       *)
(* Reactor of src/reactive.ts), told of changes by the writes of the       *)
(* process after they commit and, with the change feed, by a poll of the   *)
(* feed that also finds the writes of other processes (src/db.ts).         *)
(* A value has a field `a`, which the filter and the order look at, and a  *)
(* field `b`.                                                              *)
(***************************************************************************)
EXTENDS Transactions

CONSTANTS Watchers,
          Args,       \* per watcher: take, skip, ordered, fields
          Gone        \* a deleted document

ASSUME WatchAssumption ==
    /\ \A v \in Values \ {Gone} : v.a \in Int
    /\ \A w \in Watchers : Args[w].take \in Nat /\ Args[w].skip \in Nat

VARIABLES feedOn,     \* whether the database has a change feed
          query,      \* per watcher: its state, and the results it holds
          client,     \* history: per watcher, the documents its events add up to
          cursor,     \* reactorCursor
          polling,    \* whether the feed is polled
          pending,    \* the documents of the next flush
          dirty,      \* history: a poll or a watch() ran while a transaction had
                      \* uncommitted writes
          slipped     \* history: another process wrote while a watch() was under way

liveVars == <<feedOn, query, client, cursor, polling, pending, dirty, slipped>>
vars == <<txVars, liveVars>>

----------------------------------------------------------------------------
(* findManyCore(): the matching documents of what the connection reads.     *)

LastWrite(data, d) == Max({0} \cup {i \in DOMAIN data : data[i].doc = d})

Entry(data, d) == LET i == LastWrite(data, d)
                  IN [id |-> d, n |-> data[i].n, v |-> data[i].v]

Matches(data, d) ==
    LET i == LastWrite(data, d)
    IN IF i = 0 \/ data[i].v = Gone THEN FALSE ELSE data[i].v.a > 0

(* The row of a document is as old as its creation, or its last one. *)
Created(data, d) ==
    LET last == Max({0} \cup {i \in DOMAIN data : data[i].doc = d /\ data[i].v = Gone})
    IN Min({i \in DOMAIN data : i > last /\ data[i].doc = d})

Found(data) == {Entry(data, d) : d \in {e \in Docs : Matches(data, e)}}

Before(w, data, x, y) ==
    IF Args[w].ordered /\ x.v.a # y.v.a THEN x.v.a < y.v.a
    ELSE Created(data, x.id) < Created(data, y.id)

(* The page of a query: those of what is found with as many before them.     *)
Find(w, data) ==
    LET found == Found(data)
        rank(e) == Cardinality({x \in found : Before(w, data, x, e)})
        last == Min({Cardinality(found), Args[w].skip + Args[w].take})
    IN [i \in 1..(last - Args[w].skip) |-> CHOOSE e \in found : rank(e) = Args[w].skip + i - 1]

----------------------------------------------------------------------------
(* computeLiveEvent() *)

Ids(results) == {results[i].id : i \in DOMAIN results}

Added(prev, next) == {e \in ToSet(next) : e.id \notin Ids(prev)}

Removed(prev, next) == {e \in ToSet(prev) : e.id \notin Ids(next)}

Changed(prev, next, ids) == {e \in ToSet(next) : e.id \in Ids(prev) \cap ids}

(* The survivors whose rank among the survivors is another. *)
Moved(prev, next) ==
    LET old == SelectSeq(prev, LAMBDA e : e.id \in Ids(next))
        new == SelectSeq(next, LAMBDA e : e.id \in Ids(prev))
    IN {new[i].id : i \in {j \in DOMAIN new : new[j].id # old[j].id}}

Of(results, id) == results[CHOOSE i \in DOMAIN results : results[i].id = id]

(* A field-scoped query keeps a change to itself that touches no such field. *)
Suppressed(w, prev, next, ids) ==
    /\ Args[w].fields # {}
    /\ Added(prev, next) = {} /\ Removed(prev, next) = {}
    /\ ~(Args[w].ordered /\ Moved(prev, next) # {})
    /\ \A e \in Changed(prev, next, ids) : \A fld \in Args[w].fields :
           e.v[fld] = Of(prev, e.id).v[fld]

(* What a client holds that goes by the deltas of the events alone.         *)
Replayed(docs, prev, next, ids) ==
    LET came == Added(prev, next) \cup Changed(prev, next, ids)
        gone == {e.id : e \in Removed(prev, next)}
    IN {e \in docs : e.id \notin gone \cup {c.id : c \in came}} \cup came

----------------------------------------------------------------------------
Watching == {w \in Watchers : query[w].state = "on"}

LiveInit ==
    /\ feedOn \in BOOLEAN
    /\ query = [w \in Watchers |-> [state |-> "off", full |-> << >>]]
    /\ client = [w \in Watchers |-> {}]
    /\ cursor = 0 /\ polling = FALSE /\ pending = {}
    /\ dirty = FALSE /\ slipped = FALSE

Init == TxInit /\ LiveInit

(* watch() is synchronous: nothing else of the process runs within it, and   *)
(* a flush that is scheduled runs before anything that awaits.               *)
Opening == {w \in Watchers : query[w].state = "opening"}

Quiet == Opening = {} /\ pending = {}

Uncommitted == InTx /\ view # stored

(* Reactor.emit() *)
Emits(docs) == pending' = IF Watching = {} THEN pending ELSE pending \cup docs

(* drainReactor(): the feed past the cursor.                                 *)
Drains(data) ==
    IF Watching = {} THEN UNCHANGED <<cursor, pending>>
    ELSE /\ cursor' = Max({cursor, Len(data)})
         /\ Emits({data[i].doc : i \in (cursor + 1)..Len(data)})

(* notifyReactor(), when the write has committed. *)
Notifies(docs, data) ==
    IF feedOn THEN Drains(data) ELSE Emits(docs) /\ UNCHANGED cursor

----------------------------------------------------------------------------
(* watch(), its first half: the query reads its results, and fires "init".   *)
WatchReads(w) ==
    /\ query[w].state = "off" /\ Quiet
    /\ query' = [query EXCEPT ![w] = [state |-> "opening", full |-> Find(w, view)]]
    /\ client' = [client EXCEPT ![w] = ToSet(Find(w, view))]
    /\ dirty' = (dirty \/ Uncommitted)
    /\ UNCHANGED <<txVars, feedOn, cursor, polling, pending, slipped>>

(* Its second half: register(), and ensureReactorPolling(), which sets the   *)
(* cursor to the end of the feed when the first watcher comes.               *)
WatchRegisters(w) ==
    /\ query[w].state = "opening"
    /\ query' = [query EXCEPT ![w].state = "on"]
    /\ polling' = feedOn
    /\ cursor' = IF feedOn /\ ~polling THEN Len(view) ELSE cursor
    /\ UNCHANGED <<txVars, feedOn, client, pending, dirty, slipped>>

(* The handle's stop(): the last watcher ends the poll.                      *)
Unwatch(w) ==
    /\ query[w].state = "on" /\ Opening = {}
    /\ query' = [query EXCEPT ![w].state = "off"]
    /\ polling' = (polling /\ Watching # {w})
    /\ UNCHANGED <<txVars, feedOn, client, cursor, pending, dirty, slipped>>

(* The heartbeat polls the feed, also while a callback of a transaction      *)
(* awaits.                                                                   *)
Poll ==
    /\ polling /\ Quiet /\ cursor < Len(view)
    /\ Drains(view)
    /\ dirty' = (dirty \/ Uncommitted)
    /\ UNCHANGED <<txVars, feedOn, query, client, polling, slipped>>

Relevant_ByMembers(w, ids) == Ids(query[w].full) \cap ids # {}  \* mutant: no entry is seen

(* isRelevant(): a member, or a row that matches now.                        *)
Relevant(w, ids) ==
    \/ Ids(query[w].full) \cap ids # {}
    \/ \E d \in ids : Matches(view, d)

(* flush(): every live query of the collection is told of the documents.     *)
Flush ==
    LET told == {w \in Watching : Relevant(w, pending)}
        next(w) == Find(w, view)
    IN /\ pending # {} /\ Opening = {}
       /\ query' = [w \in Watchers |-> IF w \in told THEN [query[w] EXCEPT !.full = next(w)]
                                       ELSE query[w]]
       /\ client' = [w \in Watchers |->
              IF w \in told /\ ~Suppressed(w, query[w].full, next(w), pending)
              THEN Replayed(client[w], query[w].full, next(w), pending) ELSE client[w]]
       /\ pending' = {}
       /\ UNCHANGED <<txVars, feedOn, cursor, polling, dirty, slipped>>

----------------------------------------------------------------------------
(* The writes and transactions, and what they notify of.  A plain write may  *)
(* follow another in the same turn, before the flush.                        *)

Silent == UNCHANGED liveVars
OnlyNotified == UNCHANGED <<feedOn, query, client, polling, dirty, slipped>>

PlainWrites == \E d \in Docs, v \in Values :
    /\ PlainWrite(d, v) /\ Opening = {}
    /\ Notifies({d}, view') /\ OnlyNotified

WritesInside_AtOnce == \E f \in Flows, d \in Docs, v \in Values :   \* mutant: not afterCommit
    /\ Write(f, d, v) /\ Quiet
    /\ Notifies({d}, view') /\ OnlyNotified

WritesInside == \E f \in Flows, d \in Docs, v \in Values :
    Write(f, d, v) /\ Quiet /\ Silent

Committed == \E f \in Flows :
    /\ Commits(f) /\ Quiet
    /\ IF hooks = {} THEN UNCHANGED <<cursor, pending>> ELSE Notifies(hooks, stored')
    /\ OnlyNotified

Turns == \E f \in Flows :
    /\ \/ Call(f) \/ Start(f) \/ StartFails(f) \/ CallWithin(f)
       \/ CommitFails(f) \/ Releases(f) \/ Throws(f)
    /\ Quiet /\ Silent

OthersWrite == \E d \in Docs, v \in Values :
    /\ feedOn /\ OtherProcess(d, v)
    /\ slipped' = (slipped \/ Opening # {})
    /\ UNCHANGED <<feedOn, query, client, cursor, polling, pending, dirty>>

Next ==
    \/ PlainWrites \/ WritesInside \/ Committed \/ Turns \/ OthersWrite
    \/ Poll \/ Flush
    \/ \E w \in Watchers : WatchReads(w) \/ WatchRegisters(w) \/ Unwatch(w)

Spec == Init /\ [][Next]_vars /\ TxFairness

----------------------------------------------------------------------------
(* Watchers see committed documents only, as they are told after the        *)
(* commit - unless a poll or a watch() reads while a transaction of the     *)
(* process is open and has written.                                         *)
SeesCommitted ==
    dirty \/ \A w \in Watching : \A i \in DOMAIN query[w].full :
                 query[w].full[i].n \in Numbers(stored)

(* Once the changes known of are flushed and the feed is read to its end,   *)
(* every watcher holds what its query finds, and the added, removed and     *)
(* changed documents of its events add up to the same.  Excepted are reads  *)
(* of uncommitted writes, a write of another process within watch(), and    *)
(* queries with `skip`.  A client of a field-scoped query has the right     *)
(* documents, if not each as it is.                                         *)
CaughtUpIsCurrent ==
    Quiet /\ ~InTx /\ (feedOn => cursor >= Len(stored)) /\ ~dirty /\ ~slipped =>
        \A w \in Watching : Args[w].skip = 0 =>
            /\ query[w].full = Find(w, stored)
            /\ {e.id : e \in client[w]} = Ids(query[w].full)
            /\ Args[w].fields = {} => client[w] = ToSet(query[w].full)

=============================================================================
