---------------------------- MODULE SyncEngine ----------------------------
(***************************************************************************)
(* The node side of @monlite/sync: SyncEngine (packages/sync/src/engine.ts) *)
(* in mode "two-way", over the database of each node.  A round pulls a     *)
(* batch, applies it and saves the cursor, then reads the push queue,      *)
(* pushes it and marks it as pushed; between these steps the application   *)
(* writes, other nodes run their rounds, and the process may die.          *)
(*                                                                         *)
(* What the remote answers is left to the modules that extend this one,    *)
(* one for each kind of adapter.                                           *)
(***************************************************************************)
EXTENDS SyncStore

CONSTANTS Nodes,       \* numbers, in the order of the node ids
          Hub,         \* the number of a remote that is a monlite database
          Writers,     \* the databases whose application writes
          Skew,        \* how far each clock is ahead
          Explicit,    \* the option collections; {} for "*"
          Resolver,    \* the option conflict: "lww", "remote" or "local"
          BatchSize,
          PreDocs,     \* documents of each node older than its change feed
          StartColls,  \* tables each database has at first
          KeepLast     \* the option of compactChanges(), or NoCompaction
CONSTANT NoCompaction
CONSTANTS MaxTime, MaxWrites, MaxFaults, MaxCrashes   \* bounds of the model

ASSUME EngineAssumption ==
    /\ Nodes \subseteq Nat \ {Hub} /\ Hub \in Nat
    /\ Writers \subseteq Nodes \cup {Hub}
    /\ Skew \in [Nodes \cup {Hub} -> Nat]
    /\ Explicit \subseteq Collections
    /\ CollOf \in [Docs -> Collections]
    /\ Resolver \in {"lww", "remote", "local"}
    /\ BatchSize \in Nat \ {0}
    /\ KeepLast \in Nat \cup {NoCompaction}
    /\ IsFiniteSet(Docs) /\ PreDocs \in [Nodes -> SUBSET Docs]
    /\ StartColls \in [Nodes \cup {Hub} -> SUBSET Collections]
    /\ {MaxTime, MaxWrites, MaxFaults, MaxCrashes} \subseteq Nat

VARIABLES store,    \* the database of each node, a value of SyncStore
          cursor,   \* _monlite_sync_state.cursor
          everPushed, \* _monlite_sync_state.lastPushAt is set
          phase,    \* off, idle, pull, apply, push, send or ack
          inbox,    \* what pull() returned, not yet applied
          outbox,   \* what pending() returned, not yet sent
          acked,    \* what push() acknowledged, not yet marked
          now, writes, faults, crashes

engine == <<cursor, everPushed, phase, inbox, outbox, acked>>
limits == <<now, writes, faults, crashes>>

(* Documents of before the feed carry the time 0. *)
Clock(n) == 1 + now + Skew[n]

(* collections(): the listed ones, or the tables that exist by now. *)
Colls(n) == IF Explicit # {} THEN Explicit ELSE store[n].colls

-----------------------------------------------------------------------------
Born(n) == [d \in Docs |-> IF d \in PreDocs[n]
                           THEN [origin |-> MakeVersion(0, n, 0), live |-> TRUE]
                           ELSE Absent]

EngineInit(firstCursor) ==
    /\ store = [n \in Nodes |->
                  NewStore(Born(n), StartColls[n] \cup {CollOf[d] : d \in PreDocs[n]})]
    /\ cursor = [n \in Nodes |-> firstCursor]
    /\ everPushed = [n \in Nodes |-> FALSE]
    /\ phase = [n \in Nodes |-> "off"]
    /\ inbox = [n \in Nodes |-> [changes |-> << >>, cursor |-> firstCursor]]
    /\ outbox = [n \in Nodes |-> << >>]
    /\ acked = [n \in Nodes |-> << >>]
    /\ now = 0 /\ writes = 0 /\ faults = 0 /\ crashes = 0

Tick == /\ now < MaxTime
        /\ now' = now + 1
        /\ UNCHANGED <<store, engine, writes, faults, crashes>>

(* The application creates, updates or deletes a document. *)
Write(n, d, op) ==
    /\ n \in Writers /\ writes < MaxWrites
    /\ op = "delete" => store[n].docs[d].live
    /\ store' = [store EXCEPT ![n] = LocalWrite(@, n, d, op, Clock(n))]
    /\ writes' = writes + 1
    /\ UNCHANGED <<engine, now, faults, crashes>>

(* The application opens a collection it has not used before. *)
OpenCollection(n, c) ==
    /\ c \notin store[n].colls
    /\ store' = [store EXCEPT ![n].colls = @ \cup {c}]
    /\ UNCHANGED <<engine, limits>>

CompactChanges(n) ==
    /\ KeepLast # NoCompaction
    /\ store' = [store EXCEPT ![n] = Compact(@, KeepLast)]
    /\ UNCHANGED <<engine, limits>>

-----------------------------------------------------------------------------
(* start(): queue the older documents before the first push, then a round. *)
Start(n) ==
    /\ phase[n] = "off"
    /\ store' = IF everPushed[n] THEN store
                ELSE [store EXCEPT ![n] = Seed(@, n, Colls(n))]
    /\ phase' = [phase EXCEPT ![n] = "pull"]
    /\ UNCHANGED <<cursor, everPushed, inbox, outbox, acked, limits>>

(* The poll timer, or sync(): while a round is under way they share it. *)
BeginRound(n) ==
    /\ phase[n] = "idle"
    /\ phase' = [phase EXCEPT ![n] = "pull"]
    /\ UNCHANGED <<store, cursor, everPushed, inbox, outbox, acked, limits>>

(* adapter.pull() resolves. *)
PullAnswered(n, answer) ==
    /\ phase[n] = "pull"
    /\ inbox' = [inbox EXCEPT ![n] = answer]
    /\ phase' = [phase EXCEPT ![n] = "apply"]
    /\ UNCHANGED <<store, cursor, everPushed, outbox, acked, limits>>

InboxEmptied_Not(n) == UNCHANGED inbox   \* mutant: the batch is left behind

InboxEmptied(n) ==
    inbox' = [inbox EXCEPT ![n] = [changes |-> << >>, cursor |-> cursor'[n]]]

Applied(n, k) ==
    ApplyAll(store[n], n, SubSeq(inbox[n].changes, 1, k), Clock(n), Resolver)

(* pullOnce(): every change of the batch, then the cursor. *)
ApplyPulled(n) ==
    /\ phase[n] = "apply"
    /\ store' = [store EXCEPT ![n] = Applied(n, Len(inbox[n].changes))]
    /\ cursor' = [cursor EXCEPT ![n] = inbox[n].cursor]
    /\ InboxEmptied(n)
    /\ phase' = [phase EXCEPT ![n] = "push"]
    /\ UNCHANGED <<everPushed, outbox, acked, limits>>

(* One of the changes cannot be applied: the round is given up. *)
ApplyFails(n) ==
    /\ phase[n] = "apply" /\ faults < MaxFaults
    /\ \E k \in 0..(Len(inbox[n].changes) - 1) :
         store' = [store EXCEPT ![n] = Applied(n, k)]
    /\ UNCHANGED cursor
    /\ InboxEmptied(n)
    /\ phase' = [phase EXCEPT ![n] = "idle"]
    /\ faults' = faults + 1
    /\ UNCHANGED <<everPushed, outbox, acked, now, writes, crashes>>

(* pushOnce(), up to the call of adapter.push(). *)
ReadPending(n) ==
    /\ phase[n] = "push"
    /\ LET pending == Pending(store[n], Explicit, BatchSize)
       IN /\ outbox' = [outbox EXCEPT ![n] = pending]
          /\ phase' = [phase EXCEPT ![n] = IF pending = << >> THEN "idle" ELSE "send"]
    /\ UNCHANGED <<store, cursor, everPushed, inbox, acked, limits>>

(* adapter.push() has nothing left to send and resolves. *)
PushAnswered(n, ok) ==
    /\ outbox' = [outbox EXCEPT ![n] = << >>]
    /\ acked' = [acked EXCEPT ![n] = ok]
    /\ phase' = [phase EXCEPT ![n] = "ack"]
    /\ UNCHANGED <<store, cursor, everPushed, inbox>>

(* pushOnce(), after it. *)
MarkAcked(n) ==
    /\ phase[n] = "ack"
    /\ store' = [store EXCEPT ![n] = MarkPushed(@, acked[n])]
    /\ everPushed' = [everPushed EXCEPT ![n] = @ \/ acked[n] # << >>]
    /\ acked' = [acked EXCEPT ![n] = << >>]
    /\ phase' = [phase EXCEPT ![n] = "idle"]
    /\ UNCHANGED <<cursor, inbox, outbox, limits>>

(* pull() or push() has failed more often than withRetry() repeats it. *)
RetriesExhausted(n) ==
    /\ phase[n] \in {"pull", "send"} /\ faults < MaxFaults
    /\ outbox' = [outbox EXCEPT ![n] = << >>]
    /\ acked' = [acked EXCEPT ![n] = << >>]
    /\ phase' = [phase EXCEPT ![n] = "idle"]
    /\ faults' = faults + 1
    /\ UNCHANGED <<store, cursor, everPushed, inbox, now, writes, crashes>>

(* The process dies, maybe among the changes of a batch, and its database  *)
(* is opened again.                                                        *)
Crash(n) ==
    /\ phase[n] # "off" /\ crashes < MaxCrashes
    /\ \E k \in 0..Len(inbox[n].changes) :
         store' = [store EXCEPT ![n] = Reopen(Applied(n, k))]
    /\ UNCHANGED cursor
    /\ InboxEmptied(n)
    /\ outbox' = [outbox EXCEPT ![n] = << >>]
    /\ acked' = [acked EXCEPT ![n] = << >>]
    /\ phase' = [phase EXCEPT ![n] = "off"]
    /\ crashes' = crashes + 1
    /\ UNCHANGED <<everPushed, now, writes, faults>>

NodeStep(n) ==
    \/ \E d \in Docs, op \in {"upsert", "delete"} : Write(n, d, op)
    \/ \E c \in Collections : OpenCollection(n, c)
    \/ CompactChanges(n)
    \/ Start(n) \/ BeginRound(n) \/ ApplyPulled(n) \/ ApplyFails(n)
    \/ ReadPending(n) \/ MarkAcked(n) \/ RetriesExhausted(n) \/ Crash(n)

(* What the poll interval and the event loop get done. *)
Progress(n) ==
    Start(n) \/ BeginRound(n) \/ ApplyPulled(n) \/ ReadPending(n) \/ MarkAcked(n)

-----------------------------------------------------------------------------
Phases == {"off", "idle", "pull", "apply", "push", "send", "ack"}

Versions == Nat \X (Nodes \cup {Hub}) \X Nat
States == [origin : Versions \cup {NoVersion}, live : BOOLEAN]

FeedEntries == [doc : Docs, op : {"upsert", "delete"}, version : Versions,
                source : {"local", "remote"}, pushed : BOOLEAN]

Stores == [docs : [Docs -> States], colls : SUBSET Collections,
           feed : Seq(FeedEntries), base : Nat, vseq : Nat]

EngineTypeOK ==
    /\ \A n \in Nodes :
         /\ store[n] \in Stores /\ phase[n] \in Phases
         /\ inbox[n].changes # << >> => phase[n] = "apply"
         /\ outbox[n] # << >> => phase[n] = "send"
         /\ acked[n] # << >> => phase[n] \in {"send", "ack"}
    /\ now \in 0..MaxTime /\ writes \in 0..MaxWrites
    /\ faults \in 0..MaxFaults /\ crashes \in 0..MaxCrashes
=============================================================================
