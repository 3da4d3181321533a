--------------------------- MODULE PgTransactions ---------------------------
(***************************************************************************)
(* Transactions of one process on the Postgres engine: PgDriver            *)
(* (packages/postgres/src/index.ts).  A transaction runs on one client     *)
(* checked out of the pool.  The driver keeps that client and the depth in *)
(* fields of its own, so every call while they are set belongs to the      *)
(* transaction, whoever makes it: a transactionAsync() becomes a savepoint *)
(* of it and a query runs within it.                                       *)
(*                                                                         *)
(* Every query is awaited.  Queries of one client are answered in the      *)
(* order they were sent in, so a step that sends a query also takes its    *)
(* effect on the server; what the driver does with the answer is a step    *)
(* of its own.                                                             *)
(***************************************************************************)
EXTENDS Integers, Sequences, FiniteSets, SequencesExt

CONSTANTS Flows,      \* calls of transactionAsync()
          Top,
          Outer,      \* the flow in whose callback a flow is called, or Top
          Clients,    \* what the pool holds at most
          NoClient,
          MaxRetries, \* maxTxRetries
          Overlaps,   \* whether calls of other parts of the program come while a
                      \* transaction is open
          MaxWrites,  \* bound: writes
          MaxFaults   \* bound: connections that are lost

VARIABLES stored,     \* the writes that are committed
          session,    \* per client, the server's side of its connection
          free,       \* the clients in the pool
          txClient, depth, tail,   \* fields of the driver
          flow,       \* per flow: its step, locals and the error it caught
          used, faults,
          mine,       \* history: per flow, the writes it made and those it absorbed
          promised,   \* history: writes whose caller was told that they are done
          refused,    \* history: writes whose caller was told that they are undone
          doubt       \* history: writes committed by a COMMIT whose answer was lost

PgTxAssumption ==
    /\ IsFiniteSet(Flows) /\ Top \notin Flows /\ Outer \in [Flows -> Flows \cup {Top}]
    /\ NoClient \notin Clients /\ Overlaps \in BOOLEAN
    /\ {MaxRetries, MaxWrites, MaxFaults} \subseteq Nat

pgtxVars == <<stored, session, free, txClient, depth, tail, flow, used, faults, mine,
              promised, refused, doubt>>

(* Errors: serialization failures and deadlocks are worth another attempt. *)
Errors == {"none", "transient", "other"}

Fresh == [open |-> FALSE, aborted |-> FALSE, dead |-> FALSE, work |-> {}, saves |-> << >>]

Idle == [at |-> "idle", top |-> FALSE, client |-> NoClient, sp |-> 0, attempt |-> 0,
         entered |-> FALSE, poisoned |-> FALSE, error |-> "none"]

PgTxInit ==
    /\ stored = {} /\ session = [c \in Clients |-> Fresh] /\ free = Clients
    /\ txClient = NoClient /\ depth = 0 /\ tail = << >>
    /\ flow = [f \in Flows |-> Idle]
    /\ used = 0 /\ faults = 0
    /\ mine = [f \in Flows |-> {}]
    /\ promised = {} /\ refused = {} /\ doubt = {}

Inner(f) == {g \in Flows : Outer[g] = f}

Settled(f) == flow[f].at \in {"idle", "done", "failed"}

(* The callback of a flow runs, and awaits nothing. *)
Runs(f) == flow[f].at = "running" /\ \A g \in Inner(f) : Settled(g)

Goes(f, step) == [flow EXCEPT ![f].at = step]

Catches(f, error) == [flow EXCEPT ![f].at = "caught", ![f].error = error]

History == <<mine, promised, refused, doubt>>

----------------------------------------------------------------------------
(* The server's side. *)

Begun(s) == [s EXCEPT !.open = TRUE]

Ended == Fresh

LastSave(s, sp) == Max({0} \cup {i \in DOMAIN s.saves : s.saves[i].sp = sp})

(* A command that needs the savepoint sp would succeed; RELEASE also needs  *)
(* a transaction that no error has aborted.                                 *)
Has(s, sp) == ~s.dead /\ s.open /\ LastSave(s, sp) > 0

Saved(s, sp) == [s EXCEPT !.saves = Append(@, [sp |-> sp, work |-> s.work])]

Released(s, sp) == [s EXCEPT !.saves = SubSeq(@, 1, LastSave(s, sp) - 1)]

RolledBackTo(s, sp) == [s EXCEPT !.work = s.saves[LastSave(s, sp)].work,
                                 !.saves = SubSeq(@, 1, LastSave(s, sp)),
                                 !.aborted = FALSE]

(* Any error aborts the transaction that is open.                           *)
Aborted(s) == IF s.open THEN [s EXCEPT !.aborted = TRUE] ELSE s

(* A connection is lost and with it what its transaction did.               *)
Dies(c) ==
    /\ faults < MaxFaults /\ c \notin free /\ ~session[c].dead
    /\ faults' = faults + 1
    /\ session' = [session EXCEPT ![c] = [Ended EXCEPT !.dead = TRUE]]
    /\ UNCHANGED <<stored, free, txClient, depth, tail, flow, used, History>>

----------------------------------------------------------------------------
(* transactionAsync() *)

(* A savepoint on the client of the transaction, if that is still there.    *)
Nests(f) ==
    LET c == txClient
        ok == c # NoClient /\ ~session[c].dead /\ session[c].open /\ ~session[c].aborted
    IN /\ flow' = [flow EXCEPT ![f] =
              [Idle EXCEPT !.at = IF ok THEN "entering" ELSE "leaving", !.client = c,
                           !.sp = depth, !.error = IF ok THEN "none" ELSE "other"]]
       /\ session' = IF c = NoClient THEN session
                     ELSE [session EXCEPT ![c] = IF ok THEN Saved(@, depth) ELSE Aborted(@)]
       /\ UNCHANGED tail

Queues(f) ==
    /\ flow' = [flow EXCEPT ![f] = [Idle EXCEPT !.at = "queued", !.top = TRUE]]
    /\ tail' = Append(tail, f)
    /\ UNCHANGED session

(* A call of transactionAsync(), by the callback of another flow or by some *)
(* other part of the program.                                               *)
Call(f) ==
    /\ flow[f].at = "idle"
    /\ IF Outer[f] = Top THEN Overlaps \/ depth = 0 ELSE Runs(Outer[f])
    /\ IF depth > 0 THEN Nests(f) ELSE Queues(f)
    /\ UNCHANGED <<stored, free, txClient, depth, used, faults, History>>

(* The first of the queue gets a client, and sends BEGIN; also when its     *)
(* back-off ends.                                                           *)
Connects(f) ==
    /\ tail # << >> /\ Head(tail) = f /\ flow[f].at = "queued"
    /\ \E c \in free :
          /\ free' = free \ {c} /\ txClient' = c
          /\ session' = [session EXCEPT ![c] = Begun(@)]
          /\ flow' = [flow EXCEPT ![f].at = "entering", ![f].client = c, ![f].sp = 0]
    /\ UNCHANGED <<stored, depth, tail, used, faults, History>>

(* pool.connect() throws. *)
ConnectFails(f) ==
    /\ tail # << >> /\ Head(tail) = f /\ flow[f].at = "queued"
    /\ faults < MaxFaults /\ faults' = faults + 1
    /\ flow' = Goes(f, "failed") /\ tail' = Tail(tail)
    /\ refused' = refused \cup mine[f]
    /\ UNCHANGED <<stored, session, free, txClient, depth, used, mine, promised, doubt>>

(* BEGIN or SAVEPOINT is answered. *)
Enters(f) ==
    /\ flow[f].at = "entering"
    /\ IF session[flow[f].client].dead
       THEN /\ flow' = [flow EXCEPT ![f].at = "leaving", ![f].poisoned = TRUE,
                                    ![f].error = "other"]
            /\ UNCHANGED depth
       ELSE /\ flow' = [flow EXCEPT ![f].at = "running", ![f].entered = TRUE]
            /\ depth' = depth + 1
    /\ UNCHANGED <<stored, session, free, txClient, tail, used, faults, History>>

(* The callback throws, maybe the error of a call of its own. *)
Throws(f) ==
    /\ Runs(f)
    /\ \E error \in Errors \ {"none"} : flow' = Catches(f, error)
    /\ UNCHANGED <<stored, session, free, txClient, depth, tail, used, faults, History>>

(* The callback resolves: COMMIT.  If an error has aborted the transaction  *)
(* it is rolled back, and COMMIT succeeds nonetheless; a callback that lets *)
(* the errors of its queries through does not come here then.               *)
Commits(f) ==
    LET c == flow[f].client
        s == session[c]
    IN /\ Runs(f) /\ flow[f].top
       /\ IF s.dead
          THEN flow' = Catches(f, "other") /\ UNCHANGED <<stored, session>>
          ELSE /\ stored' = IF s.aborted THEN stored ELSE stored \cup s.work
               /\ session' = [session EXCEPT ![c] = Ended]
               /\ flow' = Goes(f, "leaving")
       /\ UNCHANGED <<free, txClient, depth, tail, used, faults, History>>

(* Or COMMIT fails, as the server finds a conflict and rolls back, or its   *)
(* answer is lost with the connection.                                      *)
CommitFails(f) ==
    LET c == flow[f].client
    IN /\ Runs(f) /\ flow[f].top /\ session[c].open /\ ~session[c].aborted
       /\ \/ /\ session' = [session EXCEPT ![c] = Ended]
             /\ flow' = Catches(f, "transient")
             /\ UNCHANGED <<stored, faults, doubt>>
          \/ /\ faults < MaxFaults /\ faults' = faults + 1
             /\ stored' = stored \cup session[c].work
             /\ doubt' = doubt \cup session[c].work
             /\ session' = [session EXCEPT ![c] = [Ended EXCEPT !.dead = TRUE]]
             /\ flow' = Catches(f, "other")
       /\ UNCHANGED <<free, txClient, depth, tail, used, mine, promised, refused>>

(* RELEASE SAVEPOINT *)
Releases(f) ==
    LET c == flow[f].client
        ok == Has(session[c], flow[f].sp) /\ ~session[c].aborted
    IN /\ Runs(f) /\ ~flow[f].top
       /\ session' = [session EXCEPT ![c] = IF ok THEN Released(@, flow[f].sp) ELSE Aborted(@)]
       /\ flow' = IF ok THEN Goes(f, "leaving") ELSE Catches(f, "other")
       /\ UNCHANGED <<stored, free, txClient, depth, tail, used, faults, History>>

(* ROLLBACK, or ROLLBACK TO the savepoint, which it keeps. *)
RollsBack(f) ==
    LET c == flow[f].client
        s == session[c]
        ok == IF flow[f].top THEN ~s.dead ELSE Has(s, flow[f].sp)
    IN /\ flow[f].at = "caught"
       /\ session' = [session EXCEPT ![c] =
              IF ~ok THEN Aborted(@)
              ELSE IF flow[f].top THEN Ended ELSE RolledBackTo(@, flow[f].sp)]
       /\ flow' = [flow EXCEPT ![f].at = "leaving", ![f].poisoned = ~ok]
       /\ UNCHANGED <<stored, free, txClient, depth, tail, used, faults, History>>

GivesBack(f) ==
    LET c == flow[f].client
    IN IF flow[f].top
       THEN /\ txClient' = NoClient
            /\ free' = free \cup {c}
            /\ session' = IF flow[f].poisoned \/ session[c].dead
                          THEN [session EXCEPT ![c] = Fresh] ELSE session
       ELSE UNCHANGED <<txClient, free, session>>

(* The finally clause: the client goes back to the pool, or, if it may be in *)
(* a bad state or its connection is lost, a new one in its place.            *)
Puts(f) ==
    /\ depth' = IF flow[f].entered THEN depth - 1 ELSE depth
    /\ GivesBack(f)

(* A call that has queued is the first of the queue when it settles. *)
LeavesQueue(f) == tail' = IF flow[f].top THEN Tail(tail) ELSE tail

(* The call resolves. *)
Succeeds(f) ==
    /\ flow[f].at = "leaving" /\ flow[f].error = "none"
    /\ Puts(f)
    /\ flow' = Goes(f, "done")
    /\ LeavesQueue(f)
    /\ mine' = IF Outer[f] = Top THEN mine ELSE [mine EXCEPT ![Outer[f]] = @ \cup mine[f]]
    /\ promised' = IF Outer[f] = Top THEN promised \cup mine[f] ELSE promised
    /\ UNCHANGED <<stored, used, faults, refused, doubt>>

Again(f) == flow[f].top /\ flow[f].error = "transient" /\ flow[f].attempt < MaxRetries

(* It rejects. *)
Fails(f) ==
    /\ flow[f].at = "leaving" /\ flow[f].error # "none" /\ ~Again(f)
    /\ Puts(f)
    /\ flow' = Goes(f, "failed")
    /\ LeavesQueue(f)
    /\ refused' = refused \cup mine[f]
    /\ UNCHANGED <<stored, used, faults, mine, promised, doubt>>

(* Or it backs off and runs its callback once more, which calls what it     *)
(* called before.                                                           *)
Retries(f) ==
    /\ flow[f].at = "leaving" /\ Again(f)
    /\ Puts(f)
    /\ flow' = [g \in Flows |->
           IF g = f THEN [Idle EXCEPT !.at = "queued", !.top = TRUE,
                                      !.attempt = flow[f].attempt + 1]
           ELSE IF Outer[g] = f THEN Idle ELSE flow[g]]
    /\ refused' = refused \cup mine[f]
    /\ mine' = [g \in Flows |-> IF g = f \/ Outer[g] = f THEN {} ELSE mine[g]]
    /\ UNCHANGED <<stored, tail, used, faults, promised, doubt>>

----------------------------------------------------------------------------
(* query() and exec(): on the client of the transaction, else the pool's.   *)

Stores(n) ==
    /\ used < MaxWrites /\ used' = used + 1
    /\ IF txClient # NoClient /\ session[txClient].open
       THEN /\ session' = [session EXCEPT ![txClient].work = @ \cup {n}]
            /\ UNCHANGED stored
       ELSE stored' = stored \cup {n} /\ UNCHANGED session

Answers == txClient # NoClient => ~session[txClient].dead /\ ~session[txClient].aborted

Write(f) ==
    /\ Runs(f) /\ Answers
    /\ Stores(used + 1)
    /\ mine' = [mine EXCEPT ![f] = @ \cup {used + 1}]
    /\ UNCHANGED <<free, txClient, depth, tail, flow, faults, promised, refused, doubt>>

(* It fails: the transaction is aborted, and the callback throws. *)
WriteFails(f) ==
    /\ Runs(f)
    /\ session' = IF txClient = NoClient THEN session
                  ELSE [session EXCEPT ![txClient] = Aborted(@)]
    /\ \E error \in IF Answers THEN Errors \ {"none"} ELSE {"other"} :
          flow' = Catches(f, error)
    /\ UNCHANGED <<stored, free, txClient, depth, tail, used, faults, History>>

(* A write of some other part of the program.                               *)
PlainWrite ==
    /\ Overlaps \/ txClient = NoClient
    /\ Answers
    /\ Stores(used + 1)
    /\ promised' = promised \cup {used + 1}
    /\ UNCHANGED <<free, txClient, depth, tail, flow, faults, mine, refused, doubt>>

Steps(f) == Connects(f) \/ Enters(f) \/ Commits(f) \/ Releases(f) \/ Throws(f)
            \/ RollsBack(f) \/ Succeeds(f) \/ Fails(f) \/ Retries(f)

PgTxNext ==
    \/ PlainWrite
    \/ \E c \in Clients : Dies(c)
    \/ \E f \in Flows : \/ Call(f) \/ ConnectFails(f) \/ CommitFails(f)
                        \/ Write(f) \/ WriteFails(f) \/ Steps(f)

(* The server answers, callbacks end. *)
PgTxFairness == \A f \in Flows : WF_pgtxVars(Steps(f))

PgTxSpec == PgTxInit /\ [][PgTxNext]_pgtxVars /\ PgTxFairness

----------------------------------------------------------------------------
(* What a caller was told is done is committed, and what it was told is     *)
(* undone is not, also where a transaction is tried again.  A COMMIT whose  *)
(* answer is lost excepted.                                                 *)
PgAllOrNothing ==
    /\ promised \subseteq stored
    /\ refused \cap stored \subseteq doubt

(* A client in the pool is usable, and in no transaction.  Once every call  *)
(* has settled the driver is as it was, and all its clients are free.  This *)
(* is so whatever calls overlap.                                            *)
ComesToRest ==
    /\ \A c \in free : session[c] = Fresh
    /\ (\A f \in Flows : Settled(f)) =>
           depth = 0 /\ txClient = NoClient /\ tail = << >> /\ free = Clients

=============================================================================
