----------------------------- MODULE TableSync -----------------------------
(***************************************************************************)
(* Nodes that replicate through tables of a database server: SyncEngine    *)
(* over PostgresAdapter (packages/sync/src/adapters/postgres.ts); the      *)
(* MySQL and MongoDB adapters push and page in the same way.  A row holds  *)
(* the last pushed version of a document, and each collection is paged by  *)
(* version > cursor.                                                       *)
(***************************************************************************)
EXTENDS SyncEngine

VARIABLES rows,       \* the remote row of each document, or NoRow
          delivered   \* history: as in HubSync

vars == <<store, engine, limits, rows, delivered>>

NoRow == [version |-> NoVersion, state |-> Absent]

Init ==
    /\ EngineInit([c \in Collections |-> NoVersion])
    /\ rows = [d \in Docs |-> NoRow]
    /\ delivered = [n \in Nodes |-> [d \in Docs |-> 0]]

(* The rows of a collection past a version, by version, limited. *)
Page(c, since) ==
    LET next == {d \in Docs : /\ CollOf[d] = c /\ rows[d] # NoRow
                              /\ Newer(rows[d].version, since)}
        rank(d) == Cardinality({e \in next : ~Newer(rows[e].version, rows[d].version)})
    IN [i \in 1..Min({Cardinality(next), BatchSize}) |-> CHOOSE d \in next : rank(d) = i]

RowChange(d) == [doc |-> d, version |-> rows[d].version, state |-> rows[d].state,
                 op |-> IF rows[d].state.live THEN "upsert" ELSE "delete", seq |-> 0]

(* PostgresAdapter.pull(): one page of every collection, and its cursors.   *)
(* The queries run one after the other; as they read different tables, the  *)
(* model takes them together.                                               *)
Pull(n) ==
    LET pages == [c \in Colls(n) |-> Page(c, cursor[n][c])]
        order == SetToSeq(Colls(n))
        found[k \in 0..Len(order)] ==
          IF k = 0 THEN << >> ELSE found[k - 1] \o pages[order[k]]
        all   == found[Len(order)]
    IN /\ PullAnswered(n,
             [changes |-> [i \in DOMAIN all |-> RowChange(all[i])],
              cursor  |-> [c \in Collections |->
                             IF c \in Colls(n) /\ pages[c] # << >>
                             THEN rows[pages[c][Len(pages[c])]].version
                             ELSE cursor[n][c]]])
       /\ UNCHANGED <<rows, delivered>>

(* PostgresAdapter.push(), one change: INSERT ... ON CONFLICT DO UPDATE. *)
PushOne(n) ==
    /\ phase[n] = "send" /\ outbox[n] # << >>
    /\ LET c == Head(outbox[n])
       IN /\ rows' = [rows EXCEPT ![c.doc] = [version |-> c.version, state |-> c.state]]
          /\ delivered' = [delivered EXCEPT ![n][c.doc] = Max({@, c.seq})]
          /\ acked' = [acked EXCEPT ![n] = Append(@, c)]
    /\ outbox' = [outbox EXCEPT ![n] = Tail(@)]
    /\ UNCHANGED <<store, cursor, everPushed, phase, inbox, limits>>

(* One change is rejected, the following ones are still sent. *)
PushRejected(n) ==
    /\ phase[n] = "send" /\ outbox[n] # << >> /\ faults < MaxFaults
    /\ outbox' = [outbox EXCEPT ![n] = Tail(@)]
    /\ faults' = faults + 1
    /\ UNCHANGED <<store, cursor, everPushed, phase, inbox, acked, rows, delivered,
                   now, writes, crashes>>

PushDone(n) ==
    /\ phase[n] = "send" /\ outbox[n] = << >>
    /\ PushAnswered(n, acked[n])
    /\ UNCHANGED <<rows, delivered, limits>>

Next ==
    \/ (Tick \/ \E n \in Nodes : NodeStep(n)) /\ UNCHANGED <<rows, delivered>>
    \/ \E n \in Nodes : Pull(n) \/ PushOne(n) \/ PushRejected(n) \/ PushDone(n)

Spec == Init /\ [][Next]_vars

(* As in HubSync. *)
Fairness ==
    \A n \in Nodes : WF_vars(\/ Progress(n) /\ UNCHANGED <<rows, delivered>>
                             \/ Pull(n) \/ PushOne(n) \/ PushDone(n))

FairSpec == Spec /\ Fairness
-----------------------------------------------------------------------------
TypeOK ==
    /\ EngineTypeOK
    /\ rows \in [Docs -> [version : Versions \cup {NoVersion}, state : States]]
    /\ cursor \in [Nodes -> [Collections -> Versions \cup {NoVersion}]]
    /\ delivered \in [Nodes -> [Docs -> Nat]]

(* A local change is marked as pushed only when its row, or that of a later *)
(* change of the document, has been written: a rejected change stays in the *)
(* queue (push(), markPushed()).                                            *)
AckedIsDelivered ==
    \A n \in Nodes : \A q \in Seqs(store[n]) :
      LET e == Entry(store[n], q)
      IN e.source = "local" /\ e.pushed => q <= delivered[n][e.doc]

Shows(n, d) == /\ store[n].docs[d].live = rows[d].state.live
               /\ rows[d].state.live => store[n].docs[d].origin = rows[d].state.origin

(* When the application has stopped writing, all nodes come to hold what    *)
(* the tables hold, and stay so (packages/sync.md: "they converge").        *)
EventuallyEqual == <>[](\A n \in Nodes, d \in Docs : Shows(n, d))

(* The row of a document is never replaced by an older version of it: push  *)
(* is last-writer-wins (README: "push is idempotent (LWW by _id + version)"). *)
RowsNeverGoBack ==
    [][\A d \in Docs : rows'[d] # rows[d] => Newer(rows'[d].version, rows[d].version)]_vars
=============================================================================
