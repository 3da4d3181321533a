------------------------------ MODULE HubSync ------------------------------
(***************************************************************************)
(* Nodes that replicate through another monlite database: SyncEngine over  *)
(* MonliteAdapter (packages/sync/src/adapters/monlite.ts).  The hub pages  *)
(* by its own feed's sequence numbers and applies what is pushed with      *)
(* last-writer-wins, on its own clock.                                     *)
(***************************************************************************)
EXTENDS SyncEngine

VARIABLES hub,        \* the hub's database
          delivered   \* history: the last change of each node and document
                      \* that the hub has taken in, by the node's number of it

vars == <<store, engine, limits, hub, delivered>>

Init ==
    /\ EngineInit(0)
    /\ hub = NewStore([d \in Docs |-> Absent], StartColls[Hub])
    /\ delivered = [n \in Nodes |-> [d \in Docs |-> 0]]

(* MonliteAdapter.pull() *)
Pull(n) ==
    /\ PullAnswered(n, ChangesSince(hub, cursor[n], Colls(n), BatchSize))
    /\ UNCHANGED <<hub, delivered>>

(* The loop of MonliteAdapter.push(), up to its k-th change. *)
Ingest(n, k) ==
    LET sent == SubSeq(outbox[n], 1, k)
    IN /\ hub' = ApplyAll(hub, Hub, sent, Clock(Hub), "lww")
       /\ delivered' = [delivered EXCEPT ![n] = [d \in Docs |->
             Max({@[d]} \cup {c.seq : c \in {e \in Range(sent) : e.doc = d}})]]

Push(n) ==
    /\ phase[n] = "send"
    /\ Ingest(n, Len(outbox[n]))
    /\ PushAnswered(n, outbox[n])
    /\ UNCHANGED limits

(* push() throws on the way, or its answer is lost: withRetry() repeats it. *)
PushFails(n) ==
    /\ phase[n] = "send" /\ faults < MaxFaults
    /\ \E k \in 1..Len(outbox[n]) : Ingest(n, k)
    /\ faults' = faults + 1
    /\ UNCHANGED <<store, engine, now, writes, crashes>>

(* The hub's own application. *)
HubWrite(d, op) ==
    /\ Hub \in Writers /\ writes < MaxWrites
    /\ op = "delete" => hub.docs[d].live
    /\ hub' = LocalWrite(hub, Hub, d, op, Clock(Hub))
    /\ writes' = writes + 1
    /\ UNCHANGED <<store, engine, now, faults, crashes, delivered>>

CompactHub ==
    /\ KeepLast # NoCompaction
    /\ hub' = Compact(hub, KeepLast)
    /\ UNCHANGED <<store, engine, limits, delivered>>

Next ==
    \/ (Tick \/ \E n \in Nodes : NodeStep(n)) /\ UNCHANGED <<hub, delivered>>
    \/ \E n \in Nodes : Pull(n) \/ Push(n) \/ PushFails(n)
    \/ \E d \in Docs, op \in {"upsert", "delete"} : HubWrite(d, op)
    \/ CompactHub

Spec == Init /\ [][Next]_vars

(* start({ interval }) polls for ever, and a process that died is started   *)
(* again; pull() and push() answer in the end, since faults are bounded.    *)
Fairness ==
    \A n \in Nodes : WF_vars(\/ Progress(n) /\ UNCHANGED <<hub, delivered>>
                             \/ Pull(n) \/ Push(n))

FairSpec == Spec /\ Fairness
-----------------------------------------------------------------------------
TypeOK == /\ EngineTypeOK /\ hub \in Stores
          /\ cursor \in [Nodes -> Nat]
          /\ delivered \in [Nodes -> [Docs -> Nat]]

(* The same content, or missing from both. *)
Same(s, t, d) == /\ s.docs[d].live = t.docs[d].live
                 /\ s.docs[d].live => s.docs[d].origin = t.docs[d].origin

(* A node whose cursor has passed the hub's last change of a document, and  *)
(* that has no change of its own to push for it, shows what the hub shows:  *)
(* no pulled change is lost or half applied, whatever round was given up    *)
(* and whoever won a conflict (pullOnce(), applyRemote(), changesSince()).  *)
CaughtUpMeansEqual ==
    \A n \in Nodes, d \in Docs :
      (/\ CollOf[d] \in Colls(n)
       /\ Entries(hub, d) # {} /\ Max(Entries(hub, d)) <= cursor[n]
       /\ Unpushed(store[n]) \cap Entries(store[n], d) = {})
        => Same(store[n], hub, d)

(* A local change is marked as pushed only when the hub has taken in that   *)
(* change or a later one of the document: a write made while push() was     *)
(* under way stays in the queue (markPushed()).                             *)
AckedIsDelivered ==
    \A n \in Nodes : \A q \in Seqs(store[n]) :
      LET e == Entry(store[n], q)
      IN e.source = "local" /\ e.pushed => q <= delivered[n][e.doc]

(* Compaction drops no change that has still to be pushed, nor does a       *)
(* restart or a round that was given up: only markPushed() takes a change   *)
(* out of the queue ("never an unpushed local change", compact()).          *)
UnpushedKept ==
    [][\A n \in Nodes :
         phase[n] # "ack" => Unpushed(store[n]) \subseteq Unpushed(store'[n])]_vars

(* When the application has stopped writing, every node comes to hold what  *)
(* the hub holds of the collections it has, and this stays so.              *)
EventuallyEqual ==
    <>[](\A n \in Nodes, d \in Docs :
           CollOf[d] \in Colls(n) => Same(store[n], hub, d))
=============================================================================
