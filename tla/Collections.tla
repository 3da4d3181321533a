----------------------------- MODULE Collections -----------------------------
(***************************************************************************)
(* The writes of a collection on SQLite (src/collection.ts), by several    *)
(* processes that have the file open.                                      *)
(*                                                                         *)
(* Within a process a call is synchronous.  Between processes update(),    *)
(* delete() and purgeExpired() read the rows they will write before their  *)
(* transaction begins; upsert() and bulkWrite() read within a deferred one *)
(* and fail as busy if another has written since; findOneAndUpdate() takes *)
(* the write lock first.  Every transaction also records its writes in the *)
(* change feed and has the plugins index the documents.                    *)
(***************************************************************************)
EXTENDS Integers, Sequences, FiniteSets, TLC

CONSTANTS Processes, Ids,
          NoDoc,
          Keys,       \* values of a field that a filter names; upsert() is for "u"
          MaxN,       \* bound: the counter of a document
          MaxCalls    \* bound: calls

VARIABLES rows,       \* the table
          expired,    \* the documents past their TTL
          feed,       \* per document, the last operation recorded for it
          index,      \* what the plugin has indexed
          commits,    \* how often a transaction has committed
          call,       \* per process, the call it is in and what that has read
          calls,
          wins,       \* history: per document, how many calls of findOneAndUpdate()
                      \* have taken it
          put,        \* history: per document, what the acknowledged calls have put in
          stale       \* history: a call wrote rows that had changed since it read them

vars == <<rows, expired, feed, index, commits, call, calls, wins, put, stale>>

Docs == [key : Keys, n : 0..MaxN, taken : BOOLEAN]

CollAssumption == MaxN \in Nat \ {0} /\ {"u", "c"} \subseteq Keys /\ NoDoc \notin Docs

None == [kind |-> "none", of |-> {}, read |-> [d \in Ids |-> NoDoc], at |-> 0]

TypeOK ==
    /\ rows \in [Ids -> Docs \cup {NoDoc}] /\ index \in [Ids -> Docs \cup {NoDoc}]
    /\ expired \subseteq Ids
    /\ feed \in [Ids -> {"none", "upsert", "delete"}]
    /\ commits \in Nat /\ calls \in 0..MaxCalls
    /\ wins \in [Ids -> Nat] /\ put \in [Ids -> Int] /\ stale \in BOOLEAN

Init ==
    /\ rows = [d \in Ids |-> NoDoc] /\ expired = {}
    /\ feed = [d \in Ids |-> "none"] /\ index = [d \in Ids |-> NoDoc]
    /\ commits = 0
    /\ call = [p \in Processes |-> None] /\ calls = 0
    /\ wins = [d \in Ids |-> 0]
    /\ put = [d \in Ids |-> 0] /\ stale = FALSE

New(k) == [key |-> k, n |-> 1, taken |-> FALSE]

Present(data) == {d \in Ids : data[d] # NoDoc}

(* What a document holds, and what goes in with one unit more for each.     *)
Holds(data) == [d \in Ids |-> IF data[d] = NoDoc THEN 0 ELSE data[d].n]

PutOne(ids) == put' = [d \in Ids |-> IF d \in ids THEN put[d] + 1 ELSE put[d]]

Starts(p) == call[p].kind = "none" /\ calls < MaxCalls /\ calls' = calls + 1

(* The call reads, in a snapshot of its own or before its transaction.      *)
Reads(p, kind, of) ==
    call' = [call EXCEPT ![p] = [kind |-> kind, of |-> of, read |-> rows, at |-> commits]]

Returns(p) == call' = [call EXCEPT ![p] = None]

----------------------------------------------------------------------------
(* A transaction: the rows, the feed and the index change together.         *)

Commits_Outside(upserted, deleted, new) ==   \* mutant: the index is not part of it
    /\ rows' = new
    /\ feed' = [d \in Ids |-> IF d \in deleted THEN "delete"
                              ELSE IF d \in upserted THEN "upsert" ELSE feed[d]]
    /\ \/ index' = [d \in Ids |-> IF d \in upserted \cup deleted THEN new[d] ELSE index[d]]
       \/ UNCHANGED index
    /\ expired' = expired \ (upserted \cup deleted)
    /\ commits' = commits + 1

Commits(upserted, deleted, new) ==
    /\ rows' = new
    /\ feed' = [d \in Ids |-> IF d \in deleted THEN "delete"
                              ELSE IF d \in upserted THEN "upsert" ELSE feed[d]]
    /\ index' = [d \in Ids |-> IF d \in upserted \cup deleted THEN new[d] ELSE index[d]]
    /\ expired' = expired \ (upserted \cup deleted)
    /\ commits' = commits + 1

(* A plugin's hook throws, or the transaction is busy: nothing is written,  *)
(* and the call fails.                                                      *)
Fails(p) ==
    /\ call[p].kind # "none" /\ Returns(p)
    /\ UNCHANGED <<rows, expired, feed, index, commits, calls, wins, put, stale>>

Changed(p) == {d \in Ids : rows[d] # call[p].read[d]}

Unchanged(p) == commits = call[p].at

Inc(doc, by) == [doc EXCEPT !.n = @ + by]

Increased(data, ids) ==
    [d \in Ids |-> IF d \in ids /\ data[d] # NoDoc THEN Inc(data[d], 1) ELSE data[d]]

CanInc(data, ids) == \A d \in ids : data[d] # NoDoc => data[d].n < MaxN

----------------------------------------------------------------------------
(* create() and createMany(): a document whose _id exists fails them all.   *)

CreateMany_Partial(p, ids, k) ==   \* mutant: those before the conflict are kept
    /\ Starts(p) /\ ids # {}
    /\ Commits(ids \ Present(rows), {},
               [d \in Ids |-> IF d \in ids \ Present(rows) THEN New(k) ELSE rows[d]])
    /\ IF ids \cap Present(rows) = {} THEN PutOne(ids) ELSE UNCHANGED put
    /\ UNCHANGED <<call, wins, stale>>

CreateMany(p, ids, k) ==
    /\ Starts(p) /\ ids # {}
    /\ IF ids \cap Present(rows) = {}
       THEN /\ Commits(ids, {}, [d \in Ids |-> IF d \in ids THEN New(k) ELSE rows[d]])
            /\ PutOne(ids)
       ELSE UNCHANGED <<rows, expired, feed, index, commits, put>>
    /\ UNCHANGED <<call, wins, stale>>

----------------------------------------------------------------------------
(* update() and updateMany(): $inc of the documents of a key, or one of     *)
(* them.                                                                    *)
UpdateReads(p, k, ids) ==
    LET found == {d \in Present(rows) : rows[d].key = k}
    IN /\ Starts(p)
       /\ ids = found \/ \E d \in found : ids = {d}
       /\ ids # {} /\ CanInc(rows, ids)
       /\ Reads(p, "update", ids)
       /\ UNCHANGED <<rows, expired, feed, index, commits, wins, put, stale>>

(* The documents are written as a whole; one that has gone stays so, but    *)
(* the feed records it.                                                     *)
UpdateWrites(p) ==
    LET ids == call[p].of
        new == Increased(call[p].read, ids)
    IN /\ call[p].kind = "update" /\ Returns(p)
       /\ Commits(ids, {}, [d \in Ids |-> IF d \in ids \cap Present(rows) THEN new[d] ELSE rows[d]])
       /\ PutOne(ids)
       /\ stale' = (stale \/ ids \cap Changed(p) # {})
       /\ UNCHANGED <<calls, wins>>

(* delete(), deleteMany(), purgeExpired() *)
DeleteReads(p, ids) ==
    /\ Starts(p) /\ ids \subseteq Present(rows) /\ ids # {}
    /\ ids = expired \/ Cardinality(ids) = 1
    /\ Reads(p, "delete", ids)
    /\ UNCHANGED <<rows, expired, feed, index, commits, wins, put, stale>>

DeleteWrites(p) ==
    LET ids == call[p].of
    IN /\ call[p].kind = "delete" /\ Returns(p)
       /\ Commits({}, ids, [d \in Ids |-> IF d \in ids THEN NoDoc ELSE rows[d]])
       /\ put' = [d \in Ids |-> IF d \in ids THEN put[d] - Holds(call[p].read)[d] ELSE put[d]]
       /\ stale' = (stale \/ ids \cap Changed(p) # {})
       /\ wins' = [d \in Ids |-> IF d \in ids THEN 0 ELSE wins[d]]
       /\ UNCHANGED calls

----------------------------------------------------------------------------
(* upsert() of the document of the key "u": found, or inserted with the     *)
(* key the filter names.                                                    *)
UpsertReads(p) ==
    /\ Starts(p)
    /\ Reads(p, "upsert", {d \in Present(rows) : rows[d].key = "u"})
    /\ UNCHANGED <<rows, expired, feed, index, commits, wins, put, stale>>

Upserts(p) ==
    LET ids == call[p].of
    IN /\ call[p].kind = "upsert" /\ Returns(p)
       /\ \/ \E d \in ids \cap Present(rows) :
                 CanInc(rows, {d}) /\ Commits({d}, {}, Increased(rows, {d})) /\ PutOne({d})
          \/ ids = {} /\ \E d \in Ids \ Present(rows) :
                 Commits({d}, {}, [rows EXCEPT ![d] = New("u")]) /\ PutOne({d})
       /\ UNCHANGED <<calls, wins, stale>>

UpsertWrites(p) == Upserts(p) /\ Unchanged(p)

----------------------------------------------------------------------------
FindOneAndUpdate_Late(p, d) ==   \* mutant: the filter is not looked at under the lock
    /\ Starts(p) /\ d \in Present(rows)
    /\ Commits({d}, {}, [rows EXCEPT ![d].taken = TRUE])
    /\ wins' = [wins EXCEPT ![d] = @ + 1]
    /\ UNCHANGED <<call, put, stale>>

(* findOneAndUpdate() of a document that is not taken, to take it: BEGIN    *)
(* IMMEDIATE.                                                               *)
FindOneAndUpdate(p, d) ==
    /\ Starts(p) /\ d \in Present(rows) /\ ~rows[d].taken
    /\ Commits({d}, {}, [rows EXCEPT ![d].taken = TRUE])
    /\ wins' = [wins EXCEPT ![d] = @ + 1]
    /\ UNCHANGED <<call, put, stale>>

----------------------------------------------------------------------------
(* bulkWrite(): one unit goes from a document to another, and a third is    *)
(* deleted, or inserted with one unit, which throws if it is there.         *)
BulkReads(p, a, b, c, op) ==
    /\ Starts(p) /\ a # b /\ c \notin {a, b}
    /\ {a, b} \subseteq Present(rows) /\ rows[a].n > 0
    /\ CanInc(rows, {b})
    /\ Reads(p, "bulk", [a |-> a, b |-> b, c |-> c, op |-> op])
    /\ UNCHANGED <<rows, expired, feed, index, commits, wins, put, stale>>

Moved(o) == [rows EXCEPT ![o.a] = Inc(@, -1), ![o.b] = Inc(@, 1)]

BulkWrites(p) ==
    LET o == call[p].of
    IN /\ call[p].kind = "bulk" /\ Unchanged(p) /\ Returns(p)
       /\ \/ /\ o.op = "insert" /\ o.c \notin Present(rows)
             /\ Commits({o.a, o.b, o.c}, {}, [Moved(o) EXCEPT ![o.c] = New("c")])
             /\ put' = [put EXCEPT ![o.a] = @ - 1, ![o.b] = @ + 1, ![o.c] = @ + 1]
             /\ UNCHANGED wins
          \/ /\ o.op = "delete"
             /\ Commits({o.a, o.b}, {o.c} \cap Present(rows), [Moved(o) EXCEPT ![o.c] = NoDoc])
             /\ put' = [put EXCEPT ![o.a] = @ - 1, ![o.b] = @ + 1,
                                   ![o.c] = @ - Holds(rows)[o.c]]
             /\ wins' = [wins EXCEPT ![o.c] = 0]
       /\ UNCHANGED <<calls, stale>>

----------------------------------------------------------------------------
(* applyRemoteWrite(), for a sync round; the feed has no entry for it.      *)
ApplyRemoteWrite(p, d, doc) ==
    /\ Starts(p) /\ rows[d] # doc
    /\ rows' = [rows EXCEPT ![d] = doc] /\ index' = [index EXCEPT ![d] = doc]
    /\ feed' = [feed EXCEPT ![d] = "none"] /\ expired' = expired \ {d}
    /\ commits' = commits + 1
    /\ put' = [put EXCEPT ![d] = @ + Holds(rows')[d] - Holds(rows)[d]]
    /\ wins' = [wins EXCEPT ![d] = 0]
    /\ UNCHANGED <<call, stale>>

(* Time passes. *)
Expires(d) ==
    /\ d \in Present(rows) \ expired
    /\ expired' = expired \cup {d}
    /\ UNCHANGED <<rows, feed, index, commits, call, calls, wins, put, stale>>

Next ==
    \/ \E d \in Ids : Expires(d)
    \/ \E p \in Processes :
          \/ \E ids \in SUBSET Ids : \/ DeleteReads(p, ids)
                                     \/ \E k \in Keys : UpdateReads(p, k, ids)
                                     \/ CreateMany(p, ids, "c")
          \/ \E d \in Ids, doc \in {NoDoc, New("c")} : ApplyRemoteWrite(p, d, doc)
          \/ UpdateWrites(p) \/ DeleteWrites(p) \/ Fails(p)
          \/ UpsertReads(p) \/ UpsertWrites(p) \/ BulkWrites(p)
          \/ \E d \in Ids : FindOneAndUpdate(p, d)
          \/ \E a, b, c \in Ids, op \in {"insert", "delete"} : BulkReads(p, a, b, c, op)

Spec == Init /\ [][Next]_vars

----------------------------------------------------------------------------
(* A guarded findOneAndUpdate() is a compare-and-swap across processes: of  *)
(* those that race for a document in a state, one wins.  It is one as long  *)
(* as no update() writes back what it read before.                          *)
CasWinsOnce == ~stale => \A d \in Ids : wins[d] <= 1

(* Each document holds what the calls that succeeded have put in and taken  *)
(* out, and one that is not there holds nothing: a batch is written as a    *)
(* whole or not at all, and no unit is lost between two calls.              *)
BalanceIsAcknowledged == ~stale => Holds(rows) = put

(* Racing upserts of one document do not insert it twice - unless an        *)
(* update() wrote back a document it had read before.                       *)
UpsertsDontDuplicate ==
    ~stale => \A d, e \in Present(rows) : rows[d].key = "u" /\ rows[e].key = "u" => d = e

(* The index holds what the table holds, and the last write of a document   *)
(* is in the feed as what it was - unless an update() wrote a document that *)
(* had gone since it was read.                                              *)
RowsIndexAndFeedAgree ==
    /\ index = rows
    /\ ~stale => \A d \in Ids : /\ feed[d] = "upsert" => d \in Present(rows)
                                /\ feed[d] = "delete" => d \notin Present(rows)
=============================================================================
