---------------------------- MODULE Transactions ----------------------------
(***************************************************************************)
(* Transactions of one process on its single SQLite connection:            *)
(* Monlite.transactionAsync() (src/db.ts), the transaction functions of    *)
(* the driver (src/driver/node-sqlite.ts; better-sqlite3.ts and wasm are   *)
(* alike), and the plain writes of collections.                            *)
(*                                                                         *)
(* A call of transactionAsync() is a flow: it waits its turn, opens a      *)
(* transaction or, within another's callback, a savepoint, runs its        *)
(* callback, which awaits between its writes, and ends.  The database is   *)
(* the sequence of the writes made to it, which is also its change feed:   *)
(* a write's place in it is its number there.                              *)
(***************************************************************************)
EXTENDS Integers, Sequences, FiniteSets, SequencesExt

CONSTANTS Flows, Top,     \* the flows; Top stands for no flow around
          Outer,          \* the flow in whose callback a flow is called, or Top
          Parallel,       \* whether a callback calls several flows and awaits them together
          Docs, Values,    \* documents; the values a write gives one
          MaxWrites        \* bound: writes that succeed

ASSUME TransactionsAssumption ==
    /\ Outer \in [Flows -> Flows \cup {Top}] /\ Top \notin Flows
    /\ Parallel \in BOOLEAN /\ MaxWrites \in Nat

VARIABLES stored,      \* the writes that are committed
          view,        \* what the connection reads: `stored` outside a transaction
          saves,       \* the open savepoints, each with what the connection read then
          depth,       \* the driver's depth
          name,        \* per flow, the name of its savepoint
          asyncDepth,  \* asyncTxDepth
          tail,        \* txTail: the flows that wait, in order
          flow,        \* per flow: "idle", "queued", "running", "done", "failed"
          hooks,       \* afterCommitHooks: the documents to notify of
          used,        \* writes so far; each has a number of its own
          mine,        \* history: per flow, the writes it made and those it absorbed
          promised,    \* history: writes whose caller was told that they are done
          refused      \* history: writes whose caller was told that they are undone

txVars == <<stored, view, saves, depth, name, asyncDepth, tail, flow, hooks, used,
            mine, promised, refused>>

Numbers(data) == {data[i].n : i \in DOMAIN data}

InTx == saves # << >>

TxInit ==
    /\ stored = << >> /\ view = << >> /\ saves = << >> /\ depth = 0
    /\ name = [f \in Flows |-> 0]
    /\ asyncDepth = 0 /\ tail = << >>
    /\ flow = [f \in Flows |-> "idle"]
    /\ hooks = {} /\ used = 0
    /\ mine = [f \in Flows |-> {}]
    /\ promised = {} /\ refused = {}

Inner(f) == {g \in Flows : Outer[g] = f}

(* The callback of a flow runs; it awaits the flows it has called. *)
Runs(f) == flow[f] = "running" /\ \A g \in Inner(f) : flow[g] # "running"

----------------------------------------------------------------------------
(* transactionAsync() outside any callback: the call queues.                *)
Call(f) ==
    /\ Outer[f] = Top /\ flow[f] = "idle"
    /\ flow' = [flow EXCEPT ![f] = "queued"]
    /\ tail' = Append(tail, f)
    /\ UNCHANGED <<stored, view, saves, depth, name, asyncDepth, hooks, used, mine,
                   promised, refused>>

(* The driver opens a transaction at depth 0, else a savepoint that is named *)
(* after the depth.                                                          *)
Opens(f) ==
    /\ saves' = Append(saves, [name |-> depth, data |-> view])
    /\ name' = [name EXCEPT ![f] = depth]
    /\ depth' = depth + 1
    /\ asyncDepth' = asyncDepth + 1
    /\ flow' = [flow EXCEPT ![f] = "running"]

Start_Unqueued(f) ==   \* mutant: a call does not wait for the one before it
    /\ flow[f] = "queued" /\ f \in ToSet(tail)
    /\ Opens(f)
    /\ UNCHANGED <<stored, view, tail, hooks, used, mine, promised, refused>>

(* Its turn: the flows before it in txTail have settled. *)
Start(f) ==
    /\ tail # << >> /\ Head(tail) = f /\ flow[f] = "queued"
    /\ Opens(f)
    /\ UNCHANGED <<stored, view, tail, hooks, used, mine, promised, refused>>

(* BEGIN IMMEDIATE fails: another process kept the write lock for too long. *)
StartFails(f) ==
    /\ tail # << >> /\ Head(tail) = f /\ flow[f] = "queued" /\ ~InTx
    /\ flow' = [flow EXCEPT ![f] = "failed"]
    /\ tail' = Tail(tail)
    /\ UNCHANGED <<stored, view, saves, depth, name, asyncDepth, hooks, used, mine,
                   promised, refused>>

CallWithin_Queues(f) ==   \* mutant: a call within a callback queues like any other
    /\ Outer[f] # Top /\ flow[f] = "idle" /\ Runs(Outer[f])
    /\ flow' = [flow EXCEPT ![f] = "queued"]
    /\ tail' = Append(tail, f)
    /\ UNCHANGED <<stored, view, saves, depth, name, asyncDepth, hooks, used, mine,
                   promised, refused>>

(* transactionAsync() within a callback does not queue: it nests at once.   *)
CallWithin(f) ==
    /\ Outer[f] # Top /\ flow[f] = "idle" /\ flow[Outer[f]] = "running"
    /\ Runs(Outer[f]) \/ Parallel
    /\ Opens(f)
    /\ UNCHANGED <<stored, view, tail, hooks, used, mine, promised, refused>>

----------------------------------------------------------------------------
(* The end of a transaction. *)

(* The flow that settles, if it has queued, is the first of the queue. *)
Settles(f, outcome) ==
    /\ flow' = [flow EXCEPT ![f] = outcome]
    /\ asyncDepth' = asyncDepth - 1
    /\ tail' = IF Outer[f] = Top THEN Tail(tail) ELSE tail

(* The savepoint of a flow: the last of its name; 0 if there is none, as     *)
(* BEGIN has no name.                                                        *)
SaveOf(f) == Max({0} \cup {i \in DOMAIN saves : saves[i].name = name[f] /\ name[f] > 0})

(* The callers of the flow's writes learn what became of them.              *)
Keeps(f) ==
    /\ mine' = IF Outer[f] = Top THEN mine
               ELSE [mine EXCEPT ![Outer[f]] = @ \cup mine[f]]
    /\ promised' = IF Outer[f] = Top THEN promised \cup mine[f] ELSE promised
    /\ UNCHANGED refused

Drops(f) == refused' = refused \cup mine[f] /\ UNCHANGED <<mine, promised>>

(* The catch clause, at the depth that is left.  At depth 0, and if there is *)
(* no such savepoint, everything is rolled back.                             *)
RollsBack(f, left) ==
    LET i == SaveOf(f)
        inner == left # 0 /\ i > 0
    IN /\ view' = IF inner THEN saves[i].data ELSE IF InTx THEN saves[1].data ELSE view
       /\ saves' = IF inner THEN SubSeq(saves, 1, i - 1) ELSE << >>
       /\ depth' = IF inner THEN left ELSE 0
       /\ hooks' = IF depth' = 0 THEN {} ELSE hooks
       /\ Settles(f, "failed")
       /\ Drops(f)
       /\ UNCHANGED <<stored, name>>

(* The callback resolves, and it is the outermost: COMMIT.                  *)
Commits(f) ==
    /\ Runs(f) /\ depth = 1 /\ InTx
    /\ depth' = 0 /\ stored' = view /\ saves' = << >> /\ hooks' = {}
    /\ Settles(f, "done") /\ Keeps(f)
    /\ UNCHANGED <<view, name, used>>

(* Or COMMIT throws, and the depth is taken down a second time.             *)
CommitFails(f) ==
    /\ Runs(f) /\ depth = 1
    /\ RollsBack(f, -1)
    /\ UNCHANGED used

(* Or there is a transaction around it: RELEASE, which throws if the         *)
(* savepoint has gone with one that was opened before it.                    *)
Releases(f) ==
    /\ Runs(f) /\ depth # 1
    /\ IF SaveOf(f) > 0
       THEN /\ saves' = SubSeq(saves, 1, SaveOf(f) - 1)
            /\ stored' = IF saves' = << >> THEN view ELSE stored
            /\ depth' = depth - 1
            /\ Settles(f, "done") /\ Keeps(f)
            /\ UNCHANGED <<view, name, hooks>>
       ELSE RollsBack(f, depth - 2)
    /\ UNCHANGED used

(* The callback throws. *)
Throws(f) ==
    /\ Runs(f)
    /\ RollsBack(f, depth - 1)
    /\ UNCHANGED used

----------------------------------------------------------------------------
(* Writes of collections, each in a transaction of the driver of its own.   *)

Written(d, v) == [n |-> used + 1, doc |-> d, v |-> v]

(* What the driver does for a write when a transaction is open or not.      *)
Stores(d, v) ==
    /\ used < MaxWrites /\ used' = used + 1
    /\ view' = Append(view, Written(d, v))
    /\ stored' = IF InTx THEN stored ELSE Append(stored, Written(d, v))
    /\ hooks' = IF depth > 0 THEN hooks \cup {d} ELSE hooks

(* A write in a flow's callback. *)
Write(f, d, v) ==
    /\ Runs(f)
    /\ Stores(d, v)
    /\ mine' = [mine EXCEPT ![f] = @ \cup {used + 1}]
    /\ UNCHANGED <<saves, depth, name, asyncDepth, tail, flow, promised, refused>>

(* A write elsewhere in the process: it throws while asyncTxDepth is not 0. *)
PlainWrite(d, v) ==
    /\ asyncDepth = 0
    /\ Stores(d, v)
    /\ promised' = promised \cup {used + 1}
    /\ UNCHANGED <<saves, depth, name, asyncDepth, tail, flow, mine, refused>>

(* Another process writes; BEGIN IMMEDIATE keeps it out of a transaction.   *)
OtherProcess(d, v) ==
    /\ ~InTx /\ used < MaxWrites
    /\ used' = used + 1
    /\ stored' = Append(stored, Written(d, v)) /\ view' = stored'
    /\ promised' = promised \cup {used + 1}
    /\ UNCHANGED <<saves, depth, name, asyncDepth, tail, flow, hooks, mine, refused>>

FlowSteps(f) == Start(f) \/ StartFails(f) \/ Commits(f) \/ CommitFails(f)
                \/ Releases(f) \/ Throws(f)

TxNext ==
    \/ \E f \in Flows : \/ Call(f) \/ CallWithin(f) \/ FlowSteps(f)
                        \/ \E d \in Docs, v \in Values : Write(f, d, v)
    \/ \E d \in Docs, v \in Values : PlainWrite(d, v) \/ OtherProcess(d, v)

(* The queue moves on, and every callback comes to an end. *)
TxFairness == \A f \in Flows : WF_txVars(FlowSteps(f))

TxSpec == TxInit /\ [][TxNext]_txVars /\ TxFairness

----------------------------------------------------------------------------
(* All or nothing: what a caller was told is done is committed, and stays,  *)
(* and what it was told is undone is not, whatever flows ran in between,    *)
(* nested, failed or were written past.                                     *)
AllOrNothing ==
    /\ promised \subseteq Numbers(stored)
    /\ refused \cap Numbers(stored) = {}

=============================================================================
