----------------------------- MODULE DataStores -----------------------------
(* What processes share and hear of: a collection on SQLite and on Postgres  *)
(* (Collections, PgCollections), the watchers of Postgres (PgLiveQueries),   *)
(* and the keys and channels of a cache (KvKeys, PgKvChannels).  The parts   *)
(* share nothing; a behaviour is of the one chosen at its start, or of none  *)
(* when "part" names another one, as in MCData.                              *)
EXTENDS Integers, Sequences, FiniteSets

CONSTANTS Processes, NoDoc, NoRow, Never, NoCall, Infinite,
          Subscribers, Channels, ProcessOf, ChannelOf,      \* see KvLog
          \* Bounds, and what the parts are checked for:
          DocIds, PgDocIds, MaxN, MaxCalls,           \* see Collections
          MaxVersion, MaxSets, MaxFlushes, MaxFaults,       \* see PgLiveQueries
          Locks, Counters, Ttls, CacheTime, CacheCalls,     \* see KvKeys
          MaxMessages, LogTime, KeepFor, MaxDrains          \* see PgKvChannels

VARIABLES part,
          rows, expired, feed, index, commits, call, calls, wins, put, stale,
          version, current, sets, members, conn, notes, unlisten, watch, timer, flushes,
          ending, faults, exempt,
          engine, kvRows, kvCalls, now, used, holds, kvTorn, counted,
          log, subs, cursor, timers, logClock, stopped, since, delivered, drains, asked

----------------------------------------------------------------------------

Coll == INSTANCE Collections WITH Ids <- DocIds, Keys <- {"u", "c"}
PgColl == INSTANCE PgCollections WITH Ids <- PgDocIds, Keys <- {"u", "c"}

ASSUME CollectionAssumption == Coll!CollAssumption

Live == INSTANCE PgLiveQueries WITH Watchers <- Processes

ASSUME WatchAssumption == Live!PgLiveAssumption

Cache == INSTANCE KvKeys WITH Idle <- NoCall, rows <- kvRows, calls <- kvCalls, torn <- kvTorn,
            Engines <- {"sqlite", "postgres"}, MaxTime <- CacheTime, MaxCalls <- CacheCalls

ASSUME CacheAssumption == Cache!KvAssumption

Channel == INSTANCE PgKvChannels WITH clock <- logClock, MaxTime <- LogTime

ASSUME ChannelAssumption == Channel!PgKvAssumption

collRest  == <<feed, index, commits>>
collVars  == <<rows, expired, call, calls, wins, put, stale, collRest>>
liveVars  == <<version, current, sets, members, conn, notes, unlisten, watch, timer, flushes,
               ending, faults, exempt>>
cacheVars == <<engine, kvRows, kvCalls, now, used, holds, kvTorn, counted>>
logVars   == <<log, subs, cursor, timers, logClock, stopped, since, delivered, drains, asked>>

storeVars == <<part, collVars, liveVars, cacheVars, logVars>>

StoresInit ==
    /\ IF part = "postgres" THEN PgColl!PgInit /\ feed = << >> /\ index = << >> /\ commits = 0
       ELSE Coll!Init
    /\ Live!PgLiveInit /\ Channel!Init
    /\ Cache!Init /\ (part # "cache" => engine = "sqlite")

StoresNext ==
    /\ UNCHANGED part
    /\ \/ part = "sqlite" /\ Coll!Next /\ UNCHANGED <<liveVars, cacheVars, logVars>>
       \/ part = "postgres" /\ PgColl!PgNext /\ UNCHANGED <<collRest, liveVars, cacheVars, logVars>>
       \/ part = "live" /\ Live!Next /\ UNCHANGED <<collVars, cacheVars, logVars>>
       \/ part = "cache" /\ Cache!Next /\ UNCHANGED <<collVars, liveVars, logVars>>
       \/ part = "channel" /\ Channel!Next /\ UNCHANGED <<collVars, liveVars, cacheVars>>

StoresSpec == StoresInit /\ [][StoresNext]_storeVars

----------------------------------------------------------------------------
(* What is checked is defined, and commented, in the modules named.          *)

(* findOneAndUpdate() and upsert() of several processes, see Collections.    *)
OneWinnerOneRow ==
    part = "sqlite" => Coll!CasWinsOnce /\ Coll!UpsertsDontDuplicate

(* The table, the feed and the plugins' index, see Collections.              *)
RowsIndexAndFeedAgree == part = "sqlite" => Coll!RowsIndexAndFeedAgree

(* What is acknowledged is stored, once, see Collections and PgCollections.  *)
BalanceIsAcknowledged ==
    /\ part = "sqlite" => Coll!BalanceIsAcknowledged
    /\ part = "postgres" => PgColl!PgBalance

(* Who waits for news on Postgres: watchers, see PgLiveQueries, and the      *)
(* subscribers of a channel, see KvLog.                                      *)
NewsArrives ==
    /\ part = "live" => Live!WatchersAreCurrent
    /\ part = "channel" => Channel!OnceInOrder

(* A watcher's rows never go back in time, see PgLiveQueries.                *)
NeverBack == [][part = "live" => Live!Forward]_storeVars

(* Keys of a cache used as locks, and as counters, see KvKeys.               *)
LocksAndCountsHold == part = "cache" => Cache!OneHolder /\ Cache!CountsItsLife
=============================================================================
