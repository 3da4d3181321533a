------------------------------- MODULE MCLive -------------------------------
(* Transactions and live queries of one process, on SQLite (Transactions,   *)
(* LiveQueries), transactions on Postgres (PgTransactions), and channels on *)
(* SQLite (KvChannels).  A behaviour is one of the parts, which bound the   *)
(* flows, watchers, values and writes that occur.                           *)
EXTENDS LiveQueries, TLC

CONSTANTS f1, f2, f3, d1, d2, w1, w2, Clients, NoClient,
          PgWrites,   \* bound: writes on Postgres
          Processes, p1, s1, s2, here, there   \* of the channels

VARIABLES part,
          session, free, txClient, faults, doubt,   \* see PgTransactions
          log, subs, seen, timers, clock, stopped, since, delivered, stack   \* see KvLog

Val(x, y) == [a |-> x, b |-> y]
OuterOf == f1 :> Top @@ f2 :> f1 @@ f3 :> Top
ValuesOf == {Gone, Val(0, 0), Val(1, 0), Val(2, 0), Val(2, 1)}
ArgsOf ==
    w1 :> [take |-> 1, skip |-> 0, ordered |-> TRUE,  fields |-> {}] @@
    w2 :> [take |-> 2, skip |-> 0, ordered |-> FALSE, fields |-> {"b"}]

Parts == [kind : {"sqlite"}, of : {
    [flows |-> {f1}, watchers |-> {w1}, writes |-> 3, values |-> {Gone, Val(1, 0)}],
    [flows |-> {}, watchers |-> {w2}, writes |-> 3, values |-> {Gone, Val(1, 0), Val(2, 0), Val(2, 1)}],
    [flows |-> {f1}, watchers |-> {w1, w2}, writes |-> 2, values |-> {Val(0, 0), Val(1, 0)}],
    [flows |-> {f1, f2, f3}, watchers |-> {}, writes |-> 4, values |-> {Val(1, 0)}]}]

(* On Postgres: calls of transactionAsync() that the program awaits in      *)
(* turn, and calls of several parts of it at once.                          *)
P == INSTANCE PgTransactions
        WITH Overlaps <- FALSE, MaxWrites <- PgWrites, MaxRetries <- 1, MaxFaults <- 1
O == INSTANCE PgTransactions
        WITH Overlaps <- TRUE, MaxWrites <- PgWrites, MaxRetries <- 1, MaxFaults <- 1

ASSUME FlowsAndClients == P!PgTxAssumption /\ O!PgTxAssumption

K == INSTANCE KvChannels
        WITH cursor <- seen, Subscribers <- {s1, s2}, Channels <- {here, there},
             ProcessOf <- s1 :> p1 @@ s2 :> p1, ChannelOf <- s1 :> here @@ s2 :> here,
             MaxMessages <- 2, MaxTime <- 1, KeepFor <- 0, MaxDepth <- 2

pgTxVars == P!pgtxVars
channelVars == <<log, subs, seen, timers, clock, stopped, since, delivered, stack>>
mcVars == <<vars, part, session, free, txClient, faults, doubt, channelVars>>

----------------------------------------------------------------------------
NoLive == /\ view = << >> /\ saves = << >> /\ name = << >> /\ asyncDepth = 0 /\ hooks = {}
          /\ feedOn = FALSE /\ query = << >> /\ client = << >> /\ cursor = 0
          /\ polling = FALSE /\ pending = {} /\ dirty = FALSE /\ slipped = FALSE

NoPgTx == session = << >> /\ free = {} /\ txClient = NoClient /\ faults = 0
          /\ doubt = {}

MCInit ==
    /\ K!Init
    /\ \/ Init /\ part \in Parts /\ (part.of.watchers = {} => ~feedOn) /\ NoPgTx
       \/ Init /\ part = [kind |-> "channels"] /\ ~feedOn /\ NoPgTx
       \/ part \in [kind : {"pgtx", "pgoverlap"}] /\ P!PgTxInit /\ NoLive

Within ==
    /\ \A f \in Flows \ part.of.flows : flow'[f] = "idle"
    /\ \A w \in Watchers \ part.of.watchers : query'[w].state = "off"
    /\ used' <= part.of.writes
    /\ used' > used => Last(view').v \in part.of.values

pgOnly == <<session, free, txClient, faults, doubt>>
liveOnly == <<view, saves, name, asyncDepth, hooks, feedOn, query, client, cursor, polling,
              pending, dirty, slipped>>

MCNext ==
    /\ UNCHANGED part
    /\ \/ part.kind = "sqlite" /\ Next /\ Within /\ UNCHANGED <<pgOnly, channelVars>>
       \/ part.kind = "pgtx" /\ P!PgTxNext /\ UNCHANGED <<liveOnly, channelVars>>
       \/ /\ part.kind = "pgoverlap" /\ O!PgTxNext /\ flow'[f2].at = "idle"
          /\ UNCHANGED <<liveOnly, channelVars>>
       \/ part.kind = "channels" /\ K!Next /\ UNCHANGED <<vars, pgOnly>>

OnPg == part.kind \in {"pgtx", "pgoverlap"}

MCFairness ==
    /\ \A f \in Flows : /\ WF_txVars(part.kind = "sqlite" /\ FlowSteps(f))
                        /\ WF_pgTxVars(OnPg /\ P!Steps(f))
    /\ \A p \in Processes :
          /\ WF_channelVars(part.kind = "channels" /\ K!Poll(p))
          /\ WF_channelVars(part.kind = "channels" /\ (K!DrainStep(p) \/ K!DrainEnds(p)))

MCSpec == MCInit /\ [][MCNext]_mcVars /\ MCFairness

----------------------------------------------------------------------------
(* What a transaction commits, see Transactions and PgTransactions; and on  *)
(* Postgres the driver comes to rest after it.                              *)
AllOrNothingHolds ==
    /\ part.kind = "sqlite" => AllOrNothing
    /\ part.kind = "pgtx" => P!PgAllOrNothing
    /\ OnPg => P!ComesToRest

(* What a watcher is told after a commit is committed, see SeesCommitted of *)
(* LiveQueries.                                                             *)
SeesOnlyCommitted == part.kind = "sqlite" => SeesCommitted

(* A watcher that has been told of everything holds what its query finds,   *)
(* see CaughtUpIsCurrent of LiveQueries.                                    *)
WatchersCatchUp == part.kind = "sqlite" => CaughtUpIsCurrent

(* Every call of transactionAsync() settles, see Transactions and           *)
(* PgTransactions; on Postgres also where calls of several parts of the     *)
(* program overlap.                                                         *)
Waits(f) ==
    \/ part.kind = "sqlite" /\ part.of.watchers = {} /\ flow[f] = "queued"
    \/ OnPg /\ ~P!Settled(f)

HasSettled(f) ==
    \/ part.kind = "sqlite" /\ flow[f] \in {"done", "failed"}
    \/ OnPg /\ flow[f].at \in {"done", "failed"}

CallsSettle == \A f \in Flows : Waits(f) ~> HasSettled(f)

(* Every message is heard in the end, see KvChannels.                       *)
EventuallyHeard == part.kind = "channels" => K!EventuallyHeard

(* publish() and the polls of several processes deliver each message once,  *)
(* in order, and pass over none, see KvLog.                                 *)
HeardOnceInOrder == part.kind = "channels" => K!OnceInOrder /\ K!NonePassedOver
=============================================================================
