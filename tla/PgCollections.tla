---------------------------- MODULE PgCollections ----------------------------
(***************************************************************************)
(* The writes of a collection on Postgres (the ...Pg methods of            *)
(* src/collection.ts) by several processes.  A call is a transaction of    *)
(* the default isolation, READ COMMITTED: a SELECT, then one statement per *)
(* document by its _id, then COMMIT.  The SELECT locks nothing; a          *)
(* statement waits for the transaction that has written its row, and then  *)
(* writes whatever the row has become.                                     *)
(***************************************************************************)
EXTENDS Integers

CONSTANTS Processes, Ids, NoDoc, Keys,
          MaxN, MaxCalls   \* bounds, see Collections

VARIABLES rows,      \* the committed table
          expired,   \* the documents past their TTL
          call,      \* per process: its call, what its last SELECT has read, the rows it
                     \* has yet to write, those it has locked and what it has written
                     \* there, uncommitted, and what it will have put in
          calls,
          wins, put, stale   \* history, see Collections

pgVars == <<rows, expired, call, calls, wins, put, stale>>

Empty == [d \in Ids |-> NoDoc]

None == [kind |-> "none", read |-> Empty, todo |-> {}, locks |-> {}, own |-> Empty,
         adds |-> [d \in Ids |-> 0], next |-> NoDoc]

New(k) == [key |-> k, n |-> 1, taken |-> FALSE]

Present(data) == {d \in Ids : data[d] # NoDoc}

(* What a document holds, and what a call puts in that adds n to each.      *)
Holds(data) == [d \in Ids |-> IF data[d] = NoDoc THEN 0 ELSE data[d].n]

ToEach(ids, n) == [d \in Ids |-> IF d \in ids THEN n ELSE 0]

PgInit ==
    /\ rows = Empty /\ expired = {}
    /\ call = [p \in Processes |-> None] /\ calls = 0
    /\ wins = [d \in Ids |-> 0]
    /\ put = [d \in Ids |-> 0] /\ stale = FALSE

Having(k) == {d \in Present(rows) : rows[d].key = k}

CanInc(ids) == \A d \in ids : rows[d].n < MaxN

(* A call begins: BEGIN, and its SELECT if it has one.                      *)
Begins(p, kind, ids, adds) ==
    /\ call[p].kind = "none" /\ calls < MaxCalls /\ calls' = calls + 1
    /\ call' = [call EXCEPT ![p] = [None EXCEPT !.kind = kind, !.read = rows,
                                               !.todo = ids, !.adds = adds]]
    /\ UNCHANGED <<rows, expired, wins, put, stale>>

(* The lock of a row that another transaction has written.                  *)
Locked(p, d) == \E q \in Processes \ {p} : d \in call[q].locks

----------------------------------------------------------------------------
(* createManyPg(): no SELECT; createPg() is the case of one document.       *)
CreateManyPg(p, ids) == ids # {} /\ Begins(p, "create", ids, ToEach(ids, 1))

(* runUpdatePg(): $inc of the documents of a key, or of one of them.        *)
RunUpdatePg(p, k, ids) ==
    /\ ids # {} /\ (ids = Having(k) \/ \E d \in Having(k) : ids = {d})
    /\ CanInc(ids)
    /\ Begins(p, "update", ids, ToEach(ids, 1))

(* runDeletePg() *)
RunDeletePg(p, d) == d \in Present(rows) /\ Begins(p, "delete", {d}, ToEach({d}, 0 - rows[d].n))

(* findOneAndUpdatePg() of a document that is not taken.                    *)
FindOneAndUpdatePg(p, d) ==
    d \in Present(rows) /\ ~rows[d].taken /\ Begins(p, "take", {d}, ToEach({d}, 0))

(* upsertPg() of the document of the key "u".                               *)
UpsertPg(p, d) ==
    \/ d \in Having("u") /\ CanInc({d}) /\ Begins(p, "update", {d}, ToEach({d}, 1))
    \/ Having("u") = {} /\ d \notin Present(rows) /\ Begins(p, "seed", {d}, ToEach({d}, 1))

(* bulkWritePg(): one unit from a document to another, an operation at a    *)
(* time, each with its SELECT.                                              *)
BulkWritePg(p, a, b) ==
    /\ a # b /\ {a, b} \subseteq Present(rows) /\ rows[a].n > 0
    /\ call[p].kind = "none" /\ calls < MaxCalls /\ calls' = calls + 1
    /\ call' = [call EXCEPT ![p] = [None EXCEPT !.kind = "take1", !.read = rows, !.todo = {a},
                                               !.adds = ToEach({a}, -1), !.next = b]]
    /\ UNCHANGED <<rows, expired, wins, put, stale>>

BulkNext(p) ==
    LET c == call[p]
        found == {c.next} \cap Present(rows)
    IN /\ c.kind = "take1" /\ c.todo = {} /\ CanInc(found)
       /\ call' = [call EXCEPT ![p].kind = "update", ![p].read = rows, ![p].todo = found,
                               ![p].adds = [d \in Ids |-> @[d] + ToEach(found, 1)[d]]]
       /\ UNCHANGED <<rows, expired, calls, wins, put, stale>>

(* What a statement makes of the document its call has read.                *)
Written(c, d) ==
    CASE c.kind = "create" -> New("c")
      [] c.kind = "seed"   -> New("u")
      [] c.kind = "update" -> [c.read[d] EXCEPT !.n = @ + 1]
      [] c.kind = "take1"  -> [c.read[d] EXCEPT !.n = @ - 1]
      [] c.kind = "take"   -> [c.read[d] EXCEPT !.taken = TRUE]
      [] c.kind = "delete" -> NoDoc

Inserts(c) == c.kind \in {"create", "seed"}

(* A statement: an UPDATE or DELETE of a row that has gone affects none.    *)
Statement(p, d) ==
    LET c == call[p]
        finds == Inserts(c) \/ rows[d] # NoDoc
    IN /\ d \in c.todo /\ ~Locked(p, d)
       /\ Inserts(c) => rows[d] = NoDoc
       /\ call' = [call EXCEPT ![p].todo = @ \ {d},
                               ![p].locks = IF finds THEN @ \cup {d} ELSE @,
                               ![p].own[d] = IF finds THEN Written(c, d) ELSE @]
       /\ stale' = (stale \/ (~Inserts(c) /\ rows[d] # c.read[d]))
       /\ UNCHANGED <<rows, expired, calls, wins, put>>

(* It fails - an INSERT finds the _id, the server ends a deadlock - and the *)
(* transaction is rolled back.                                              *)
Aborts(p) ==
    /\ call[p].kind # "none"
    /\ call' = [call EXCEPT ![p] = None]
    /\ UNCHANGED <<rows, expired, calls, wins, put, stale>>

Commit(p) ==
    LET c == call[p]
    IN /\ c.kind \notin {"none", "take1"} /\ c.todo = {}
       /\ call' = [call EXCEPT ![p] = None]
       /\ rows' = [d \in Ids |-> IF d \in c.locks THEN c.own[d] ELSE rows[d]]
       /\ expired' = expired \ c.locks
       /\ put' = [d \in Ids |-> put[d] + c.adds[d]]
       /\ wins' = [d \in Ids |-> IF rows'[d] = NoDoc THEN 0
                                 ELSE IF c.kind = "take" /\ d \in c.locks THEN wins[d] + 1
                                 ELSE wins[d]]
       /\ UNCHANGED <<calls, stale>>

(* purgeExpiredPg(): one DELETE, which looks at each row as it is. *)
PurgeExpiredPg(p) ==
    /\ call[p].kind = "none" /\ calls < MaxCalls /\ calls' = calls + 1
    /\ expired # {} /\ \A d \in expired : ~Locked(p, d)
    /\ rows' = [d \in Ids |-> IF d \in expired THEN NoDoc ELSE rows[d]] /\ expired' = {}
    /\ put' = [d \in Ids |-> put[d] + Holds(rows')[d] - Holds(rows)[d]]
    /\ wins' = [d \in Ids |-> IF d \in expired THEN 0 ELSE wins[d]]
    /\ UNCHANGED <<call, stale>>

Expires(d) ==
    /\ d \in Present(rows) \ expired
    /\ expired' = expired \cup {d}
    /\ UNCHANGED <<rows, call, calls, wins, put, stale>>

PgNext ==
    \/ \E d \in Ids : Expires(d)
    \/ \E p \in Processes :
          \/ \E ids \in SUBSET Ids : \/ CreateManyPg(p, ids)
                                     \/ \E k \in Keys : RunUpdatePg(p, k, ids)
          \/ \E d \in Ids : \/ RunDeletePg(p, d) \/ FindOneAndUpdatePg(p, d)
                            \/ UpsertPg(p, d) \/ Statement(p, d)
          \/ \E a, b \in Ids : BulkWritePg(p, a, b)
          \/ BulkNext(p) \/ Aborts(p) \/ Commit(p) \/ PurgeExpiredPg(p)

PgSpec == PgInit /\ [][PgNext]_pgVars

----------------------------------------------------------------------------
(* Each document holds what the calls that committed have put in and taken  *)
(* out, as long as none wrote a row that had changed since its SELECT.      *)
PgBalance == ~stale => Holds(rows) = put

(* As README.md has it: "N workers race; exactly one wins".                 *)
PgCasWinsOnce == \A d \in Ids : wins[d] <= 1
=============================================================================
