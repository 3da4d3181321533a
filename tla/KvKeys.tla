------------------------------ MODULE KvKeys ------------------------------
(***************************************************************************)
(* Keys of the cache, kv() on SQLite and pgKv() on Postgres                *)
(* (packages/kv/src/index.ts).  Processes share one namespace of the table *)
(* _kv.  Locks are keys taken with setNX() and released with delete(),     *)
(* counters are keys changed by incr(); both may be read, expired, swept   *)
(* and flushed by anyone.                                                  *)
(*                                                                         *)
(* A call is a row of `calls`: what it has read or captured, and what it   *)
(* does next.  A statement is atomic, and so is a transaction that begins  *)
(* IMMEDIATE; other processes run between the statements of a call, and    *)
(* the clock, which the processes share, moves between any two of them.    *)
(***************************************************************************)
EXTENDS Integers

CONSTANTS Processes, Locks, Counters,
          Engines,            \* of "sqlite", "postgres"
          Ttls, MaxTime,      \* bounds: lifetimes and the clock
          MaxCalls,           \* bound: calls begun
          NoRow, Never, Idle  \* model values

Keys == Locks \cup Counters

(* What a row and a call may hold.                                          *)
Expiries == Nat \cup {Never}
Rows == [v : Processes \cup Nat, exp : Expiries]
Calls == [op : {"get", "expire", "setNX", "incr", "set"}, key : Keys, row : Rows \cup {NoRow},
          exp : Expiries, at : Nat, step : {"read", "write", "sent"}]

KvAssumption ==
    /\ Locks \cap Counters = {}
    /\ Ttls \subseteq Nat /\ Never \notin Int
    /\ Engines \subseteq {"sqlite", "postgres"}
    /\ NoRow \notin Rows /\ Idle \notin Calls

VARIABLES engine,   \* the engine of the database
          rows,     \* _kv: NoRow, or the value and expires_at of a key
          calls,    \* per process, the call under way
          now, used,\* the clock; calls begun
          holds,    \* history: per lock, who was told that it has it, and until when
          torn,     \* history: a late statement of an older call hit a lock's row
          counted   \* history: increments acknowledged in the life of a counter's row

vars == <<engine, rows, calls, now, used, holds, torn, counted>>

(* fresh(): a key lives until the clock reaches expires_at. *)
Live(row, t) == row # NoRow /\ ~(row.exp # Never /\ row.exp <= t)

Holding(k) == {h \in holds[k] : ~(h.exp # Never /\ h.exp <= now)}

Init ==
    /\ engine \in Engines
    /\ rows = [k \in Keys |-> NoRow]
    /\ calls = [p \in Processes |-> Idle]
    /\ now = 0 /\ used = 0
    /\ holds = [k \in Locks |-> {}]
    /\ torn = [k \in Locks |-> FALSE]
    /\ counted = [k \in Counters |-> 0]

----------------------------------------------------------------------------
(* What the calls share. *)

Begins(p) == calls[p] = Idle /\ used < MaxCalls /\ used' = used + 1
At(p, op, step) == calls[p] # Idle /\ calls[p].op = op /\ calls[p].step = step

Call(op, k, row, exp, step) ==
    [op |-> op, key |-> k, row |-> row, exp |-> exp, at |-> now, step |-> step]

Expiry(ttl) == IF ttl = Never THEN Never ELSE now + ttl

Row(v, exp) == [v |-> v, exp |-> exp]

(* A process is told that it has the lock. *)
Takes(p, k, exp) ==
    /\ torn' = [torn EXCEPT ![k] = @ /\ Holding(k) # {}]
    /\ holds' = [holds EXCEPT ![k] = Holding(k) \cup {[by |-> p, exp |-> exp]}]

(* The row of a lock goes or changes by a call that did not mean this row. *)
Tears(k, meant) ==
    torn' = IF k \in Locks /\ ~meant THEN [torn EXCEPT ![k] = TRUE] ELSE torn

Counts(k, lives) == counted' = [counted EXCEPT ![k] = IF lives THEN @ + 1 ELSE 1]

Restarts(k) == counted' = IF k \in Counters THEN [counted EXCEPT ![k] = 0] ELSE counted

----------------------------------------------------------------------------
(* kv(), on SQLite. *)

(* get(): the row is read; it is deleted when the clock, read afterwards,  *)
(* has reached its end.                                                    *)
GetReads(p, k) ==
    /\ Begins(p)
    /\ calls' = [calls EXCEPT ![p] = Call("get", k, rows[k], Never, "read")]
    /\ UNCHANGED <<engine, rows, now, holds, torn, counted>>

GetReturns(p) ==
    /\ At(p, "get", "read") /\ (calls[p].row = NoRow \/ Live(calls[p].row, now))
    /\ calls' = [calls EXCEPT ![p] = Idle]
    /\ UNCHANGED <<engine, rows, now, used, holds, torn, counted>>

GetDeletes(p) ==
    LET c == calls[p] IN
    /\ At(p, "get", "read") /\ c.row # NoRow /\ ~Live(c.row, now)
    /\ rows' = [rows EXCEPT ![c.key] = NoRow]
    /\ calls' = [calls EXCEPT ![p] = Idle]
    /\ Tears(c.key, rows[c.key] \in {c.row, NoRow})
    /\ Restarts(c.key)
    /\ UNCHANGED <<engine, now, used, holds>>

(* expire(): the row is read, found fresh, and updated whatever it then is. *)
(* A lock is extended by a process that has it.                            *)
ExpireReads(p, k) ==
    /\ Begins(p)
    /\ k \in Locks => \E h \in Holding(k) : h.by = p
    /\ calls' = [calls EXCEPT ![p] = Call("expire", k, rows[k], Never, "read")]
    /\ UNCHANGED <<engine, rows, now, holds, torn, counted>>

ExpireChecks(p) ==
    /\ At(p, "expire", "read")
    /\ IF Live(calls[p].row, now)
       THEN \E ttl \in Ttls : calls' = [calls EXCEPT ![p] =
                Call("expire", @.key, @.row, now + ttl, "write")]
       ELSE calls' = [calls EXCEPT ![p] = Idle]
    /\ UNCHANGED <<engine, rows, now, used, holds, torn, counted>>

ExpireWrites(p) ==
    LET c == calls[p] IN
    /\ At(p, "expire", "write")
    /\ rows' = [rows EXCEPT ![c.key] = IF @ = NoRow THEN @ ELSE Row(@.v, c.exp)]
    /\ calls' = [calls EXCEPT ![p] = Idle]
    /\ Tears(c.key, rows[c.key] = c.row /\ c.row.v = p)
    /\ holds' = IF c.key \in Locks
                THEN [holds EXCEPT ![c.key] =
                         {h \in @ : h.by # p} \cup {[by |-> p, exp |-> c.exp]}]
                ELSE holds
    /\ UNCHANGED <<engine, now, used, counted>>

(* delete() by a process that was given the lock, perhaps after its time:  *)
(* the `finally` of the documented recipe.  A counter is anyone's.         *)
Delete(p, k) ==
    /\ Begins(p)
    /\ k \in Locks => \E h \in holds[k] : h.by = p
    /\ rows' = [rows EXCEPT ![k] = NoRow]
    /\ Tears(k, rows[k] = NoRow \/ rows[k].v = p)
    /\ holds' = IF k \in Locks THEN [holds EXCEPT ![k] = {h \in @ : h.by # p}] ELSE holds
    /\ Restarts(k)
    /\ UNCHANGED <<engine, calls, now>>

(* flush(): every key of the namespace goes, the locks that are held too. *)
Flush(p) ==
    /\ Begins(p)
    /\ rows' = [k \in Keys |-> NoRow]
    /\ torn' = [k \in Locks |-> TRUE]
    /\ counted' = [k \in Counters |-> 0]
    /\ UNCHANGED <<engine, calls, now, holds>>

(* The timer of sweepIntervalMs deletes what has expired. *)
Sweep ==
    /\ engine = "sqlite"
    /\ \E k \in Keys : rows[k] # NoRow /\ ~Live(rows[k], now)
    /\ rows' = [k \in Keys |-> IF Live(rows[k], now) THEN rows[k] ELSE NoRow]
    /\ counted' = [k \in Counters |-> IF Live(rows[k], now) THEN counted[k] ELSE 0]
    /\ UNCHANGED <<engine, calls, now, used, holds, torn>>

SetNX_Deferred(p, k, ttl) ==   \* mutant: the key is read before the write lock is taken
    /\ At(p, "get", "read") /\ calls[p].key = k
    /\ calls' = [calls EXCEPT ![p] = Idle] /\ UNCHANGED used
    /\ IF Live(calls[p].row, now)
       THEN UNCHANGED <<rows, holds, torn>>
       ELSE /\ rows' = [rows EXCEPT ![k] = Row(p, Expiry(ttl))]
            /\ Takes(p, k, Expiry(ttl))
    /\ UNCHANGED <<engine, now, counted>>

(* setNX(): BEGIN IMMEDIATE, so that the key that is read is the one written. *)
SetNX(p, k, ttl) ==
    /\ Begins(p)
    /\ IF Live(rows[k], now)
       THEN UNCHANGED <<rows, holds, torn>>
       ELSE /\ rows' = [rows EXCEPT ![k] = Row(p, Expiry(ttl))]
            /\ Takes(p, k, Expiry(ttl))
    /\ UNCHANGED <<engine, calls, now, counted>>

(* incr(), likewise: a key that has expired starts again, without an end. *)
Incr(p, k) ==
    /\ Begins(p)
    /\ rows' = [rows EXCEPT ![k] = IF Live(@, now) THEN Row(@.v + 1, @.exp) ELSE Row(1, Never)]
    /\ Counts(k, Live(rows[k], now))
    /\ UNCHANGED <<engine, calls, now, holds, torn>>

(* set() of a counter back to nothing. *)
Set(p, k, ttl) ==
    /\ Begins(p)
    /\ rows' = [rows EXCEPT ![k] = Row(0, Expiry(ttl))]
    /\ Restarts(k)
    /\ UNCHANGED <<engine, calls, now, holds, torn>>

----------------------------------------------------------------------------
(* pgKv(): the clock is read when the call is made, the statement runs later. *)

PgSends(p, op, k, ttl) ==
    /\ Begins(p)
    /\ calls' = [calls EXCEPT ![p] = Call(op, k, NoRow, Expiry(ttl), "sent")]
    /\ UNCHANGED <<engine, rows, now, holds, torn, counted>>

(* setNX(): inserted, or overwritten if expired by the time that was captured. *)
PgSetNX(p) ==
    LET c == calls[p] IN
    /\ At(p, "setNX", "sent")
    /\ calls' = [calls EXCEPT ![p] = Idle]
    /\ IF Live(rows[c.key], c.at)
       THEN UNCHANGED <<rows, holds, torn>>
       ELSE /\ rows' = [rows EXCEPT ![c.key] = Row(p, c.exp)]
            /\ Takes(p, c.key, c.exp)
    /\ UNCHANGED <<engine, now, used, counted>>

(* incr(): one upsert that adds, or starts again. *)
PgIncr(p) ==
    LET c == calls[p] IN
    /\ At(p, "incr", "sent")
    /\ calls' = [calls EXCEPT ![p] = Idle]
    /\ rows' = [rows EXCEPT ![c.key] = IF Live(@, c.at) THEN Row(@.v + 1, @.exp)
                                       ELSE Row(1, Never)]
    /\ Counts(c.key, Live(rows[c.key], c.at))
    /\ UNCHANGED <<engine, now, used, holds, torn>>

PgSet(p) ==
    LET c == calls[p] IN
    /\ At(p, "set", "sent")
    /\ calls' = [calls EXCEPT ![p] = Idle]
    /\ rows' = [rows EXCEPT ![c.key] = Row(0, c.exp)]
    /\ Restarts(c.key)
    /\ UNCHANGED <<engine, now, used, holds, torn>>

----------------------------------------------------------------------------
Tick == now < MaxTime /\ now' = now + 1
        /\ UNCHANGED <<engine, rows, calls, used, holds, torn, counted>>

SqliteCalls(p) ==
    \/ \E k \in Keys : GetReads(p, k) \/ ExpireReads(p, k) \/ Delete(p, k)
    \/ GetReturns(p) \/ GetDeletes(p) \/ ExpireChecks(p) \/ ExpireWrites(p) \/ Flush(p)
    \/ \E ttl \in Ttls \cup {Never} :
          \/ \E k \in Locks : SetNX(p, k, ttl)
          \/ \E k \in Counters : Incr(p, k) \/ Set(p, k, ttl)

(* get() and expire() of pgKv() await between the same statements. *)
PgGet(p) == (\E k \in Keys : GetReads(p, k)) \/ GetReturns(p) \/ GetDeletes(p)

PgExpire(p) == (\E k \in Keys : ExpireReads(p, k)) \/ ExpireChecks(p) \/ ExpireWrites(p)

PostgresCalls(p) ==
    \/ PgGet(p) \/ PgExpire(p) \/ Flush(p)
    \/ \E k \in Keys : Delete(p, k)
    \/ \E ttl \in Ttls \cup {Never} :
          \/ \E k \in Locks : PgSends(p, "setNX", k, ttl)
          \/ \E k \in Counters : PgSends(p, "incr", k, Never) \/ PgSends(p, "set", k, ttl)
    \/ PgSetNX(p) \/ PgIncr(p) \/ PgSet(p)

Next ==
    \/ Tick \/ Sweep
    \/ \E p \in Processes :
          \/ engine = "sqlite" /\ SqliteCalls(p)
          \/ engine = "postgres" /\ PostgresCalls(p)

Spec == Init /\ [][Next]_vars

----------------------------------------------------------------------------
(* At most one process at a time has been told that it holds a lock, unless *)
(* a late statement hit a row it did not mean: the delete of a get(), the   *)
(* update of an expire(), a release after the lock's time, or a flush().    *)
(* setNX() itself never gives a lock to two.                                *)
OneHolder ==
    \A k \in Locks : torn[k] \/ \A g, h \in Holding(k) : g = h

(* A counter's value is the number of increments that were acknowledged     *)
(* since its row came to be: none is lost between processes.                *)
CountsItsLife ==
    \A k \in Counters : rows[k] # NoRow => rows[k].v = counted[k]
=============================================================================
