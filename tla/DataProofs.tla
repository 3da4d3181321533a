----------------------------- MODULE DataProofs -----------------------------
(***************************************************************************)
(* What the stores of DataStores promise, for any processes, documents,    *)
(* watchers, keys, channels and subscribers, and any bounds.  A behaviour  *)
(* is of one part, so the inductive invariant, StoresInv, is one of each:  *)
(*   CollInv     what a call on SQLite has read is the table as long as    *)
(*               nobody commits (CallTimely), and each document is as its  *)
(*               ledger, its wins and its feed say (DocSound);             *)
(*   PgInv       rows that a transaction has written are locked by it      *)
(*               alone, and what it will put in is what these hold more;   *)
(*   CacheInv    a process that still holds a lock finds it live and as    *)
(*               its own, and a counter is what its life has counted;      *)
(*   LiveInv     a watcher that is not current has something that will     *)
(*               tell it: a notification, a flush or a queued re-query;    *)
(*   ChannelInv  what is delivered to a subscriber rises and is passed by  *)
(*               its cursor, and what a drain holds was there to read.     *)
(***************************************************************************)
EXTENDS DataStores, FiniteSetTheorems, WellFoundedInduction, TLAPS

-----------------------------------------------------------------------------
(* Collections on SQLite.                                                    *)

MaybeDocs == Coll!Docs \cup {NoDoc}

CallFound(c) ==
    /\ c.read \in [DocIds -> MaybeDocs]
    /\ c.kind = "update" => /\ c.of \subseteq DocIds
                            /\ \A d \in c.of : c.read[d] # NoDoc /\ c.read[d].n < MaxN
    /\ c.kind = "delete" => c.of \subseteq DocIds /\ \A d \in c.of : c.read[d] # NoDoc
    /\ c.kind = "upsert" => c.of = {d \in DocIds : c.read[d] # NoDoc /\ c.read[d].key = "u"}
    /\ c.kind = "bulk" => /\ c.of.a \in DocIds /\ c.of.b \in DocIds /\ c.of.c \in DocIds
                          /\ c.of.a # c.of.b /\ c.of.c \notin {c.of.a, c.of.b}
                          /\ c.read[c.of.a] # NoDoc /\ c.read[c.of.b] # NoDoc
                          /\ c.read[c.of.a].n > 0 /\ c.read[c.of.b].n < MaxN

CallTimely(c, data, at) ==
    c.at \in Nat /\ c.at <= at /\ (c.at = at /\ c.kind # "none" => c.read = data)

DocSound(row, won, units, last) ==
    /\ won <= 1 /\ (won > 0 => row # NoDoc /\ row.taken)
    /\ units = IF row = NoDoc THEN 0 ELSE row.n
    /\ (last = "upsert" => row # NoDoc) /\ (last = "delete" => row = NoDoc)

UpsertedOnce(data) ==
    \A d, e \in DocIds : /\ data[d] # NoDoc /\ data[d].key = "u"
                            /\ data[e] # NoDoc /\ data[e].key = "u"
                            => d = e

CollShape ==
    /\ rows \in [DocIds -> MaybeDocs] /\ index = rows
    /\ feed = [d \in DocIds |-> feed[d]]
    /\ wins \in [DocIds -> Nat] /\ put \in [DocIds -> Int]
    /\ commits \in Nat /\ stale \in BOOLEAN

CollCalls ==
    /\ call = [p \in Processes |-> call[p]]
    /\ \A p \in Processes : CallFound(call[p]) /\ CallTimely(call[p], rows, commits)

CollSound ==
    ~stale => /\ \A d \in DocIds : DocSound(rows[d], wins[d], put[d], feed[d])
              /\ UpsertedOnce(rows)

CollInv == CollShape /\ CollCalls /\ CollSound

LEMMA DocSets ==
    /\ MaxN \in Nat \ {0} /\ NoDoc \notin Coll!Docs
    /\ \A row \in Coll!Docs : /\ row.key \in {"u", "c"} /\ row.n \in Nat /\ row.n <= MaxN
                              /\ row.taken \in BOOLEAN
    /\ \A row \in Coll!Docs, by \in Int :
          row.n + by \in 0..MaxN => /\ Coll!Inc(row, by) \in Coll!Docs
                                    /\ Coll!Inc(row, by).n = row.n + by
                                    /\ Coll!Inc(row, by).key = row.key
                                    /\ Coll!Inc(row, by).taken = row.taken
<1> USE DEF Coll!CollAssumption, Coll!Docs
<1>1. MaxN \in Nat \ {0} /\ NoDoc \notin Coll!Docs
  BY CollectionAssumption
<1>2. ASSUME NEW row \in Coll!Docs, NEW by \in Int, row.n + by \in 0..MaxN
      PROVE /\ Coll!Inc(row, by) \in Coll!Docs
            /\ Coll!Inc(row, by).n = row.n + by
            /\ Coll!Inc(row, by).key = row.key
            /\ Coll!Inc(row, by).taken = row.taken
  BY <1>2 DEF Coll!Inc
<1>3. ASSUME NEW row \in Coll!Docs
      PROVE /\ row.key \in {"u", "c"} /\ row.n \in Nat /\ row.n <= MaxN
            /\ row.taken \in BOOLEAN
  BY <1>1
<1> HIDE DEF Coll!Docs
<1> QED BY <1>1, <1>2, <1>3

LEMMA NewDocs ==
    \A k \in {"u", "c"} : /\ Coll!New(k).n = 1 /\ Coll!New(k).key = k /\ ~Coll!New(k).taken
                          /\ Coll!New(k) \in Coll!Docs
BY DocSets DEF Coll!New, Coll!Docs

LEMMA CollBegins == Coll!Init => CollInv
<1> SUFFICES ASSUME Coll!Init PROVE CollInv
    OBVIOUS
<1> USE DEF Coll!Init
<1>1. CollShape
  <2>1. feed = [d \in DocIds |-> feed[d]]
    OBVIOUS
  <2>2. rows \in [DocIds -> MaybeDocs] /\ index = rows
    BY DEF MaybeDocs
  <2>3. wins \in [DocIds -> Nat] /\ put \in [DocIds -> Int]
    OBVIOUS
  <2> QED BY <2>1, <2>2, <2>3 DEF CollShape
<1>2. CollCalls
  <2>1. ASSUME NEW p \in Processes
        PROVE CallFound(call[p]) /\ CallTimely(call[p], rows, commits)
    <3>1. /\ call[p].kind = "none" /\ call[p].at = 0
          /\ call[p].read = [d \in DocIds |-> NoDoc]
      BY DEF Coll!None
    <3> QED BY <3>1 DEF CallFound, CallTimely, MaybeDocs
  <2> QED BY <2>1 DEF CollCalls
<1>3. CollSound
  BY DEF CollSound, DocSound, UpsertedOnce
<1> QED BY <1>1, <1>2, <1>3 DEF CollInv

(* Other processes' calls, while a transaction commits or nothing changes,  *)
(* and the call that ends.                                                  *)
LEMMA CollCallsStay ==
    ASSUME CollInv, NEW p \in Processes,
           call' = call \/ call' = [call EXCEPT ![p] = Coll!None],
           commits' = commits + 1 \/ (commits' = commits /\ rows' = rows)
    PROVE  CollCalls'
<1>1. commits \in Nat /\ call = [q \in Processes |-> call[q]]
  BY DEF CollInv, CollShape, CollCalls
<1>2. call' = [q \in Processes |-> call'[q]]
  BY <1>1
<1>3. ASSUME NEW q \in Processes
      PROVE CallFound(call'[q]) /\ CallTimely(call'[q], rows', commits')
  <2>1. CASE call'[q] = call[q]
    BY <1>1, <2>1 DEF CollInv, CollCalls, CallTimely
  <2>2. CASE call'[q] = Coll!None
    <3>1. /\ call'[q].kind = "none" /\ call'[q].at = 0
          /\ call'[q].read = [d \in DocIds |-> NoDoc]
      BY <2>2 DEF Coll!None
    <3> QED BY <1>1, <3>1 DEF CallFound, CallTimely, MaybeDocs
  <2> QED BY <1>1, <2>1, <2>2
<1> QED BY <1>2, <1>3 DEF CollCalls, CallFound, MaybeDocs, CallTimely

(* A call that reads what it has found.                                     *)
LEMMA CollReadsKeep ==
    ASSUME CollInv, NEW p \in Processes, NEW kind, NEW of, Coll!Reads(p, kind, of),
           CallFound([kind |-> kind, of |-> of, read |-> rows, at |-> commits]),
           UNCHANGED <<rows, feed, index, commits, wins, put, stale>>
    PROVE  CollInv'
<1> DEFINE c == [kind |-> kind, of |-> of, read |-> rows, at |-> commits]
<1>1. commits \in Nat /\ call = [q \in Processes |-> call[q]]
  BY DEF CollInv, CollShape, CollCalls
<1>2. call' = [call EXCEPT ![p] = c]
  BY DEF Coll!Reads
<1>3. CallTimely(c, rows, commits)
  BY <1>1 DEF CallTimely
<1> HIDE DEF c
<1>4. ASSUME NEW q \in Processes
      PROVE CallFound(call'[q]) /\ CallTimely(call'[q], rows, commits)
  <2>1. CASE q = p
    BY <1>1, <1>2, <1>3, <2>1 DEF c
  <2>2. CASE q # p
    BY <1>1, <1>2, <2>2 DEF CollInv, CollCalls
  <2> QED BY <2>1, <2>2
<1>5. CollCalls'
  BY <1>1, <1>2, <1>4 DEF CollCalls, CallFound, MaybeDocs, CallTimely
<1>6. CollShape' /\ CollSound'
  BY DEF CollInv, CollShape, CollSound, DocSound, UpsertedOnce, MaybeDocs
<1> QED BY <1>5, <1>6 DEF CollInv

(* The transaction: what it leaves alone, and what the index and the feed   *)
(* make of the rest.                                                        *)
LEMMA Committed ==
    ASSUME CollInv, NEW up, NEW del, NEW new \in [DocIds -> MaybeDocs],
           Coll!Commits(up, del, new),
           \A d \in DocIds : d \notin up /\ d \notin del => new[d] = rows[d]
    PROVE  /\ rows' = new /\ rows' \in [DocIds -> MaybeDocs] /\ index' = rows'
           /\ feed' = [d \in DocIds |-> feed'[d]]
           /\ \A d \in DocIds : feed'[d] = IF d \in del THEN "delete"
                                              ELSE IF d \in up THEN "upsert" ELSE feed[d]
           /\ commits' = commits + 1 /\ commits' \in Nat
<1>1. rows' = new /\ commits' = commits + 1 /\ commits \in Nat /\ index = rows
  BY DEF Coll!Commits, CollInv, CollShape
<1>2. index' = [d \in DocIds |-> IF d \in up \cup del THEN new[d] ELSE index[d]]
  BY DEF Coll!Commits
<1>3. index' = rows'
  BY <1>1, <1>2
<1>4. feed' = [d \in DocIds |-> IF d \in del THEN "delete"
                                   ELSE IF d \in up THEN "upsert" ELSE feed[d]]
  BY DEF Coll!Commits
<1> QED BY <1>1, <1>3, <1>4

LEMMA CommittedUp ==
    ASSUME CollInv, NEW up, NEW new \in [DocIds -> MaybeDocs], Coll!Commits(up, {}, new),
           \A d \in DocIds \ up : new[d] = rows[d]
    PROVE  /\ rows' = new /\ rows' \in [DocIds -> MaybeDocs] /\ index' = rows'
           /\ feed' = [d \in DocIds |-> feed'[d]]
           /\ \A d \in DocIds : feed'[d] = IF d \in up THEN "upsert" ELSE feed[d]
           /\ commits' = commits + 1 /\ commits' \in Nat
<1> DEFINE none == {}
<1>1. Coll!Commits(up, none, new) /\ \A d \in DocIds : d \notin none
  OBVIOUS
<1> HIDE DEF none
<1> QED BY <1>1, Committed

LEMMA CommittedDown ==
    ASSUME CollInv, NEW del, NEW new \in [DocIds -> MaybeDocs], Coll!Commits({}, del, new),
           \A d \in DocIds \ del : new[d] = rows[d]
    PROVE  /\ rows' = new /\ rows' \in [DocIds -> MaybeDocs] /\ index' = rows'
           /\ feed' = [d \in DocIds |-> feed'[d]]
           /\ \A d \in DocIds : feed'[d] = IF d \in del THEN "delete" ELSE feed[d]
           /\ commits' = commits + 1 /\ commits' \in Nat
<1> DEFINE none == {}
<1>1. Coll!Commits(none, del, new) /\ \A d \in DocIds : d \notin none
  OBVIOUS
<1> HIDE DEF none
<1> QED BY <1>1, Committed

(* What is left to show of a step that writes.                              *)
LEMMA CollWrites ==
    ASSUME CollInv, NEW p \in Processes,
           call' = call \/ call' = [call EXCEPT ![p] = Coll!None],
           commits' = commits + 1, commits' \in Nat, index' = rows',
           rows' \in [DocIds -> MaybeDocs], feed' = [d \in DocIds |-> feed'[d]],
           wins' = [d \in DocIds |-> wins'[d]], put' = [d \in DocIds |-> put'[d]],
           \A d \in DocIds : wins'[d] \in Nat /\ put'[d] \in Int,
           stale' \in BOOLEAN, stale => stale',
           ~stale' => /\ \A d \in DocIds : DocSound(rows'[d], wins'[d], put'[d], feed'[d])
                      /\ UpsertedOnce(rows')
    PROVE  CollInv'
<1>1. CollShape'
  BY DEF CollShape, MaybeDocs
<1>2. CollCalls'
  BY CollCallsStay
<1>3. CollSound'
  BY DEF CollSound, DocSound, UpsertedOnce
<1> QED BY <1>1, <1>2, <1>3 DEF CollInv

LEMMA CollData ==
    ASSUME CollInv
    PROVE  /\ rows \in [DocIds -> MaybeDocs] /\ index = rows
           /\ feed = [d \in DocIds |-> feed[d]] /\ commits \in Nat
           /\ wins \in [DocIds -> Nat] /\ wins = [d \in DocIds |-> wins[d]]
           /\ put \in [DocIds -> Int] /\ put = [d \in DocIds |-> put[d]]
           /\ stale \in BOOLEAN
           /\ \A d \in DocIds : rows[d] # NoDoc => rows[d] \in Coll!Docs
           /\ ~stale => /\ \A d \in DocIds : DocSound(rows[d], wins[d], put[d], feed[d])
                        /\ UpsertedOnce(rows)
           /\ call = [q \in Processes |-> call[q]]
           /\ \A q \in Processes : CallFound(call[q]) /\ CallTimely(call[q], rows, commits)
BY DEF CollInv, CollShape, CollSound, CollCalls, MaybeDocs

LEMMA CreateManyKeeps ==
    ASSUME CollInv, NEW p \in Processes, NEW ids \in SUBSET DocIds,
           Coll!CreateMany(p, ids, "c")
    PROVE  CollInv'
<1> DEFINE new == [d \in DocIds |-> IF d \in ids THEN Coll!New("c") ELSE rows[d]]
<1>1. call' = call /\ wins' = wins /\ stale' = stale
  BY DEF Coll!CreateMany
<1>2. CASE ids \cap Coll!Present(rows) = {}
  <2>1. Coll!Commits(ids, {}, new) /\ Coll!PutOne(ids)
    BY <1>2 DEF Coll!CreateMany
  <2>2. new \in [DocIds -> MaybeDocs] /\ \A d \in DocIds \ ids : new[d] = rows[d]
    BY CollData, NewDocs DEF MaybeDocs
  <2>3. /\ rows' = new /\ rows' \in [DocIds -> MaybeDocs] /\ index' = rows'
        /\ feed' = [d \in DocIds |-> feed'[d]]
        /\ \A d \in DocIds : feed'[d] = IF d \in ids THEN "upsert" ELSE feed[d]
        /\ commits' = commits + 1 /\ commits' \in Nat
    <3> HIDE DEF new
    <3> QED BY <2>1, <2>2, CommittedUp
  <2>4. /\ put' = [d \in DocIds |-> put'[d]]
        /\ \A d \in DocIds : put'[d] = IF d \in ids THEN put[d] + 1 ELSE put[d]
    BY <2>1 DEF Coll!PutOne
  <2>5. \A d \in DocIds : wins'[d] \in Nat /\ put'[d] \in Int
    BY <1>1, <2>4, CollData
  <2>6. ASSUME ~stale, NEW d \in DocIds
        PROVE DocSound(rows'[d], wins'[d], put'[d], feed'[d])
    <3>1. DocSound(rows[d], wins[d], put[d], feed[d])
      BY <2>6, CollData
    <3>2. CASE d \in ids
      <4>1. rows[d] = NoDoc
        BY <1>2, <3>2 DEF Coll!Present
      <4>2. rows'[d] # NoDoc /\ rows'[d].n = 1
        BY <2>3, <3>2, NewDocs, DocSets
      <4> QED BY <1>1, <2>3, <2>4, <3>1, <3>2, <4>1, <4>2, CollData DEF DocSound
    <3>3. CASE d \notin ids
      BY <1>1, <2>3, <2>4, <3>1, <3>3
    <3> QED BY <3>2, <3>3
  <2>7. ~stale => UpsertedOnce(rows')
    BY <2>3, CollData, NewDocs DEF UpsertedOnce
  <2> QED BY <1>1, <2>3, <2>4, <2>5, <2>6, <2>7, CollData, CollWrites
<1>3. CASE ids \cap Coll!Present(rows) # {}
  <2>1. UNCHANGED <<rows, feed, index, commits, put>>
    BY <1>3 DEF Coll!CreateMany
  <2> QED BY <1>1, <2>1
       DEF CollInv, CollShape, CollCalls, CollSound, CallFound, CallTimely, DocSound,
           UpsertedOnce, MaybeDocs
<1> QED BY <1>2, <1>3

LEMMA UpdateReadsKeeps ==
    ASSUME CollInv, NEW p \in Processes, NEW k \in {"u", "c"}, NEW ids \in SUBSET DocIds,
           Coll!UpdateReads(p, k, ids)
    PROVE  CollInv'
<1>1. /\ \A d \in ids : rows[d] # NoDoc /\ rows[d].n < MaxN
      /\ Coll!Reads(p, "update", ids)
      /\ UNCHANGED <<rows, feed, index, commits, wins, put, stale>>
  BY DEF Coll!UpdateReads, Coll!Present, Coll!CanInc
<1>2. CallFound([kind |-> "update", of |-> ids, read |-> rows, at |-> commits])
  BY <1>1, CollData DEF CallFound
<1> QED BY <1>1, <1>2, CollReadsKeep

LEMMA DeleteReadsKeeps ==
    ASSUME CollInv, NEW p \in Processes, NEW ids \in SUBSET DocIds, Coll!DeleteReads(p, ids)
    PROVE  CollInv'
<1>1. /\ \A d \in ids : rows[d] # NoDoc
      /\ Coll!Reads(p, "delete", ids)
      /\ UNCHANGED <<rows, feed, index, commits, wins, put, stale>>
  BY DEF Coll!DeleteReads, Coll!Present
<1>2. CallFound([kind |-> "delete", of |-> ids, read |-> rows, at |-> commits])
  BY <1>1, CollData DEF CallFound
<1> QED BY <1>1, <1>2, CollReadsKeep

LEMMA UpsertReadsKeeps ==
    ASSUME CollInv, NEW p \in Processes, Coll!UpsertReads(p)
    PROVE  CollInv'
<1> DEFINE ids == {d \in Coll!Present(rows) : rows[d].key = "u"}
<1>1. /\ Coll!Reads(p, "upsert", ids)
      /\ UNCHANGED <<rows, feed, index, commits, wins, put, stale>>
  BY DEF Coll!UpsertReads
<1>2. ids = {d \in DocIds : rows[d] # NoDoc /\ rows[d].key = "u"}
  BY DEF Coll!Present
<1> HIDE DEF ids
<1>3. CallFound([kind |-> "upsert", of |-> ids, read |-> rows, at |-> commits])
  BY <1>2, CollData DEF CallFound
<1> QED BY <1>1, <1>3, CollReadsKeep

LEMMA BulkReadsKeeps ==
    ASSUME CollInv, NEW p \in Processes, NEW x \in DocIds, NEW y \in DocIds,
           NEW z \in DocIds, NEW op, Coll!BulkReads(p, x, y, z, op)
    PROVE  CollInv'
<1> DEFINE of == [a |-> x, b |-> y, c |-> z, op |-> op]
<1>1. /\ x # y /\ z \notin {x, y} /\ rows[x] # NoDoc /\ rows[y] # NoDoc
      /\ rows[x].n > 0 /\ rows[y].n < MaxN
      /\ Coll!Reads(p, "bulk", of)
      /\ UNCHANGED <<rows, feed, index, commits, wins, put, stale>>
  BY DEF Coll!BulkReads, Coll!Present, Coll!CanInc
<1>2. of.a = x /\ of.b = y /\ of.c = z
  OBVIOUS
<1> HIDE DEF of
<1>3. CallFound([kind |-> "bulk", of |-> of, read |-> rows, at |-> commits])
  BY <1>1, <1>2, CollData DEF CallFound
<1> QED BY <1>1, <1>3, CollReadsKeep

LEMMA FailsKeeps ==
    ASSUME CollInv, NEW p \in Processes, Coll!Fails(p)
    PROVE  CollInv'
<1>1. /\ call' = [call EXCEPT ![p] = Coll!None]
      /\ UNCHANGED <<rows, feed, index, commits, wins, put, stale>>
  BY DEF Coll!Fails, Coll!Returns
<1>2. CollCalls'
  BY <1>1, CollCallsStay
<1> QED BY <1>1, <1>2 DEF CollInv, CollShape, CollSound, DocSound, UpsertedOnce, MaybeDocs

(* update() writes whole documents: those it read, with one unit more. It   *)
(* is sound if they have not changed; if they have it is stale.             *)
LEMMA UpdateWritesKeeps ==
    ASSUME CollInv, NEW p \in Processes, Coll!UpdateWrites(p)
    PROVE  CollInv'
<1> DEFINE ids == call[p].of
           read == call[p].read
           new == [d \in DocIds |-> IF d \in ids \cap Coll!Present(rows)
                                       THEN Coll!Increased(read, ids)[d] ELSE rows[d]]
<1>1. /\ call[p].kind = "update" /\ call' = [call EXCEPT ![p] = Coll!None]
      /\ Coll!Commits(ids, {}, new) /\ Coll!PutOne(ids) /\ wins' = wins
      /\ stale' = (stale \/ ids \cap Coll!Changed(p) # {})
  BY DEF Coll!UpdateWrites, Coll!Returns
<1>2. /\ ids \subseteq DocIds /\ read \in [DocIds -> MaybeDocs]
      /\ \A d \in ids : read[d] \in Coll!Docs /\ read[d] # NoDoc /\ read[d].n < MaxN
  BY <1>1, CollData DEF CallFound, MaybeDocs
<1>3. \A d \in DocIds : d \in ids => /\ Coll!Inc(read[d], 1) \in Coll!Docs
                                        /\ Coll!Inc(read[d], 1).n = read[d].n + 1
                                        /\ Coll!Inc(read[d], 1).key = read[d].key
                                        /\ Coll!Inc(read[d], 1).taken = read[d].taken
  BY <1>2, DocSets
<1>4. \A d \in DocIds : new[d] = IF d \in ids /\ rows[d] # NoDoc
                                    THEN Coll!Inc(read[d], 1) ELSE rows[d]
  BY <1>2 DEF Coll!Increased, Coll!Present
<1>5. new \in [DocIds -> MaybeDocs] /\ \A d \in DocIds \ ids : new[d] = rows[d]
  BY <1>3, <1>4, CollData DEF MaybeDocs
<1>6. /\ rows' = new /\ rows' \in [DocIds -> MaybeDocs] /\ index' = rows'
      /\ feed' = [d \in DocIds |-> feed'[d]]
      /\ \A d \in DocIds : feed'[d] = IF d \in ids THEN "upsert" ELSE feed[d]
      /\ commits' = commits + 1 /\ commits' \in Nat
  <2> HIDE DEF new, ids, read
  <2> QED BY <1>1, <1>2, <1>5, CommittedUp
<1>7. /\ put' = [d \in DocIds |-> put'[d]]
      /\ \A d \in DocIds : put'[d] = IF d \in ids THEN put[d] + 1 ELSE put[d]
  BY <1>1 DEF Coll!PutOne
<1>8. /\ \A d \in DocIds : wins'[d] \in Nat /\ put'[d] \in Int
      /\ wins' = [d \in DocIds |-> wins'[d]] /\ stale' \in BOOLEAN /\ (stale => stale')
  BY <1>1, <1>7, CollData
<1>9. ASSUME ~stale' PROVE ~stale /\ \A d \in ids : rows[d] = read[d]
  BY <1>1, <1>2, <1>9 DEF Coll!Changed
<1>10. ASSUME ~stale', NEW d \in DocIds
       PROVE DocSound(rows'[d], wins'[d], put'[d], feed'[d])
  <2>1. DocSound(rows[d], wins[d], put[d], feed[d])
    BY <1>9, <1>10, CollData
  <2>2. CASE d \in ids
    <3>1. /\ rows[d] = read[d] /\ rows[d] # NoDoc /\ rows'[d] = Coll!Inc(read[d], 1)
          /\ rows'[d] # NoDoc
      BY <1>2, <1>3, <1>4, <1>6, <1>9, <1>10, <2>2, DocSets
    <3> QED BY <1>1, <1>3, <1>6, <1>7, <2>1, <2>2, <3>1 DEF DocSound
  <2>3. CASE d \notin ids
    BY <1>1, <1>4, <1>6, <1>7, <2>1, <2>3
  <2> QED BY <2>2, <2>3
<1>11. ASSUME ~stale' PROVE UpsertedOnce(rows')
  <2>1. \A d \in DocIds : rows'[d] # NoDoc => rows[d] # NoDoc /\ rows[d].key = rows'[d].key
    BY <1>2, <1>3, <1>4, <1>6, <1>9, <1>11
  <2> QED BY <1>9, <1>11, <2>1, CollData DEF UpsertedOnce
<1> HIDE DEF new, ids, read
<1> QED BY <1>1, <1>6, <1>7, <1>8, <1>10, <1>11, CollWrites

LEMMA DeleteWritesKeeps ==
    ASSUME CollInv, NEW p \in Processes, Coll!DeleteWrites(p)
    PROVE  CollInv'
<1> DEFINE ids == call[p].of
           read == call[p].read
           new == [d \in DocIds |-> IF d \in ids THEN NoDoc ELSE rows[d]]
<1>1. /\ call[p].kind = "delete" /\ call' = [call EXCEPT ![p] = Coll!None]
      /\ Coll!Commits({}, ids, new)
      /\ put' = [d \in DocIds |-> IF d \in ids THEN put[d] - Coll!Holds(read)[d] ELSE put[d]]
      /\ wins' = [d \in DocIds |-> IF d \in ids THEN 0 ELSE wins[d]]
      /\ stale' = (stale \/ ids \cap Coll!Changed(p) # {})
  BY DEF Coll!DeleteWrites, Coll!Returns
<1>2. /\ ids \subseteq DocIds /\ read \in [DocIds -> MaybeDocs]
      /\ \A d \in ids : read[d] \in Coll!Docs /\ read[d] # NoDoc
  BY <1>1, CollData DEF CallFound, MaybeDocs
<1>3. \A d \in DocIds : d \in ids => Coll!Holds(read)[d] = read[d].n /\ read[d].n \in Int
  BY <1>2, DocSets DEF Coll!Holds
<1>4. new \in [DocIds -> MaybeDocs] /\ \A d \in DocIds \ ids : new[d] = rows[d]
  BY CollData DEF MaybeDocs
<1>5. /\ rows' = new /\ rows' \in [DocIds -> MaybeDocs] /\ index' = rows'
      /\ feed' = [d \in DocIds |-> feed'[d]]
      /\ \A d \in DocIds : feed'[d] = IF d \in ids THEN "delete" ELSE feed[d]
      /\ commits' = commits + 1 /\ commits' \in Nat
  <2> HIDE DEF new, ids, read
  <2> QED BY <1>1, <1>2, <1>4, CommittedDown
<1>6. /\ \A d \in DocIds : wins'[d] \in Nat /\ put'[d] \in Int
      /\ wins' = [d \in DocIds |-> wins'[d]] /\ put' = [d \in DocIds |-> put'[d]]
      /\ stale' \in BOOLEAN /\ (stale => stale')
  BY <1>1, <1>3, CollData
<1>7. ASSUME ~stale' PROVE ~stale /\ \A d \in ids : rows[d] = read[d]
  BY <1>1, <1>2, <1>7 DEF Coll!Changed
<1>8. ASSUME ~stale', NEW d \in DocIds
      PROVE DocSound(rows'[d], wins'[d], put'[d], feed'[d])
  <2>1. DocSound(rows[d], wins[d], put[d], feed[d])
    BY <1>7, <1>8, CollData
  <2>2. CASE d \in ids
    <3>1. /\ rows[d] = read[d] /\ rows[d] # NoDoc /\ rows'[d] = NoDoc /\ wins'[d] = 0
          /\ put'[d] = put[d] - read[d].n
      BY <1>1, <1>2, <1>3, <1>5, <1>7, <1>8, <2>2
    <3> QED BY <1>3, <1>5, <2>1, <2>2, <3>1 DEF DocSound
  <2>3. CASE d \notin ids
    BY <1>1, <1>5, <2>1, <2>3
  <2> QED BY <2>2, <2>3
<1>9. ~stale' => UpsertedOnce(rows')
  BY <1>5, <1>7, CollData DEF UpsertedOnce
<1> HIDE DEF new, ids, read
<1> QED BY <1>1, <1>5, <1>6, <1>8, <1>9, CollWrites

(* upsert() writes only if nothing has committed since it read: if it found *)
(* no document of the key there is none, and it inserts the only one.       *)
LEMMA UpsertsKeeps ==
    ASSUME CollInv, NEW p \in Processes, Coll!UpsertWrites(p)
    PROVE  CollInv'
<1> DEFINE ids == call[p].of
<1>1. /\ call[p].kind = "upsert" /\ call' = [call EXCEPT ![p] = Coll!None]
      /\ wins' = wins /\ stale' = stale /\ call[p].at = commits
  BY DEF Coll!UpsertWrites, Coll!Upserts, Coll!Returns, Coll!Unchanged
<1>2. ids = {d \in DocIds : rows[d] # NoDoc /\ rows[d].key = "u"}
  BY <1>1, CollData DEF CallFound, CallTimely
<1>3. ASSUME NEW d \in ids \cap Coll!Present(rows), Coll!CanInc(rows, {d}),
             Coll!Commits({d}, {}, Coll!Increased(rows, {d})), Coll!PutOne({d})
      PROVE CollInv'
  <2> DEFINE new == Coll!Increased(rows, {d})
  <2>1. d \in DocIds /\ rows[d] # NoDoc /\ rows[d] \in Coll!Docs /\ rows[d].n < MaxN
    BY <1>3, CollData DEF Coll!Present, Coll!CanInc
  <2>2. /\ Coll!Inc(rows[d], 1) \in Coll!Docs
        /\ Coll!Inc(rows[d], 1).n = rows[d].n + 1
        /\ Coll!Inc(rows[d], 1).key = rows[d].key
        /\ Coll!Inc(rows[d], 1).taken = rows[d].taken
    BY <2>1, DocSets
  <2>3. /\ new = [e \in DocIds |-> IF e = d THEN Coll!Inc(rows[d], 1) ELSE rows[e]]
        /\ new \in [DocIds -> MaybeDocs]
    BY <2>1, <2>2, CollData DEF Coll!Increased, MaybeDocs
  <2>4. /\ rows' = new /\ rows' \in [DocIds -> MaybeDocs] /\ index' = rows'
        /\ feed' = [e \in DocIds |-> feed'[e]]
        /\ \A e \in DocIds : feed'[e] = IF e \in {d} THEN "upsert" ELSE feed[e]
        /\ commits' = commits + 1 /\ commits' \in Nat
    <3>1. \A e \in DocIds \ {d} : new[e] = rows[e]
      BY <2>3
    <3> HIDE DEF new
    <3> QED BY <1>3, <2>3, <3>1, CommittedUp DEF new
  <2>5. /\ put' = [e \in DocIds |-> put'[e]]
        /\ \A e \in DocIds : put'[e] = IF e = d THEN put[e] + 1 ELSE put[e]
    BY <1>3 DEF Coll!PutOne
  <2>6. \A e \in DocIds : wins'[e] \in Nat /\ put'[e] \in Int
    BY <1>1, <2>5, CollData
  <2>7. ASSUME ~stale, NEW e \in DocIds
        PROVE DocSound(rows'[e], wins'[e], put'[e], feed'[e])
    <3>1. DocSound(rows[e], wins[e], put[e], feed[e])
      BY <2>7, CollData
    <3>2. CASE e = d
      <4>1. rows'[e] = Coll!Inc(rows[d], 1) /\ rows'[e] # NoDoc
        BY <2>2, <2>3, <2>4, <3>2, DocSets
      <4> QED BY <1>1, <2>1, <2>2, <2>4, <2>5, <3>1, <3>2, <4>1 DEF DocSound
    <3>3. CASE e # d
      BY <1>1, <2>3, <2>4, <2>5, <3>1, <3>3
    <3> QED BY <3>2, <3>3
  <2>8. ~stale => UpsertedOnce(rows')
    <3>1. \A e \in DocIds : rows'[e] # NoDoc => rows[e] # NoDoc /\ rows[e].key = rows'[e].key
      BY <2>1, <2>2, <2>3, <2>4
    <3> QED BY <3>1, CollData DEF UpsertedOnce
  <2> HIDE DEF new
  <2> QED BY <1>1, <2>4, <2>5, <2>6, <2>7, <2>8, CollData, CollWrites
<1>4. ASSUME ids = {}, NEW d \in DocIds \ Coll!Present(rows),
             Coll!Commits({d}, {}, [rows EXCEPT ![d] = Coll!New("u")]), Coll!PutOne({d})
      PROVE CollInv'
  <2> DEFINE new == [rows EXCEPT ![d] = Coll!New("u")]
  <2>1. d \in DocIds /\ rows[d] = NoDoc
    BY DEF Coll!Present
  <2>2. /\ new = [e \in DocIds |-> IF e = d THEN Coll!New("u") ELSE rows[e]]
        /\ new \in [DocIds -> MaybeDocs]
    BY <2>1, CollData, NewDocs DEF MaybeDocs
  <2>3. /\ rows' = new /\ rows' \in [DocIds -> MaybeDocs] /\ index' = rows'
        /\ feed' = [e \in DocIds |-> feed'[e]]
        /\ \A e \in DocIds : feed'[e] = IF e \in {d} THEN "upsert" ELSE feed[e]
        /\ commits' = commits + 1 /\ commits' \in Nat
    <3>1. \A e \in DocIds \ {d} : new[e] = rows[e]
      BY <2>2
    <3> HIDE DEF new
    <3> QED BY <1>4, <2>2, <3>1, CommittedUp DEF new
  <2>4. /\ put' = [e \in DocIds |-> put'[e]]
        /\ \A e \in DocIds : put'[e] = IF e = d THEN put[e] + 1 ELSE put[e]
    BY <1>4 DEF Coll!PutOne
  <2>5. \A e \in DocIds : wins'[e] \in Nat /\ put'[e] \in Int
    BY <1>1, <2>4, CollData
  <2>6. ASSUME ~stale, NEW e \in DocIds
        PROVE DocSound(rows'[e], wins'[e], put'[e], feed'[e])
    <3>1. DocSound(rows[e], wins[e], put[e], feed[e])
      BY <2>6, CollData
    <3>2. CASE e = d
      <4>1. rows'[e] # NoDoc /\ rows'[e].n = 1
        BY <2>2, <2>3, <3>2, NewDocs, DocSets
      <4> QED BY <1>1, <2>1, <2>3, <2>4, <3>1, <3>2, <4>1, CollData DEF DocSound
    <3>3. CASE e # d
      BY <1>1, <2>2, <2>3, <2>4, <3>1, <3>3
    <3> QED BY <3>2, <3>3
  <2>7. UpsertedOnce(rows')
    <3>1. \A e \in DocIds : rows'[e] # NoDoc /\ rows'[e].key = "u" => e = d
      BY <1>2, <1>4, <2>2, <2>3
    <3> QED BY <3>1 DEF UpsertedOnce
  <2> HIDE DEF new
  <2> QED BY <1>1, <2>3, <2>4, <2>5, <2>6, <2>7, CollData, CollWrites
<1> QED BY <1>3, <1>4 DEF Coll!UpsertWrites, Coll!Upserts

(* findOneAndUpdate() looks at the document under the lock of its write.    *)
LEMMA FindOneAndUpdateKeeps ==
    ASSUME CollInv, NEW p \in Processes, NEW d \in DocIds, Coll!FindOneAndUpdate(p, d)
    PROVE  CollInv'
<1> DEFINE new == [rows EXCEPT ![d].taken = TRUE]
<1>1. /\ rows[d] # NoDoc /\ ~rows[d].taken /\ Coll!Commits({d}, {}, new)
      /\ wins' = [wins EXCEPT ![d] = @ + 1]
      /\ call' = call /\ put' = put /\ stale' = stale
  BY DEF Coll!FindOneAndUpdate, Coll!Present
<1>2. /\ [rows[d] EXCEPT !.taken = TRUE] \in Coll!Docs
      /\ [rows[d] EXCEPT !.taken = TRUE].n = rows[d].n
      /\ [rows[d] EXCEPT !.taken = TRUE].key = rows[d].key
      /\ [rows[d] EXCEPT !.taken = TRUE].taken
  <2>1. rows[d] \in Coll!Docs
    BY <1>1, CollData
  <2> QED BY <2>1 DEF Coll!Docs
<1>3. /\ new \in [DocIds -> MaybeDocs]
      /\ \A e \in DocIds : new[e] = IF e = d THEN [rows[d] EXCEPT !.taken = TRUE] ELSE rows[e]
  BY <1>2, CollData DEF MaybeDocs
<1>4. /\ rows' = new /\ rows' \in [DocIds -> MaybeDocs] /\ index' = rows'
      /\ feed' = [e \in DocIds |-> feed'[e]]
      /\ \A e \in DocIds : feed'[e] = IF e \in {d} THEN "upsert" ELSE feed[e]
      /\ commits' = commits + 1 /\ commits' \in Nat
  <2>1. \A e \in DocIds \ {d} : new[e] = rows[e]
    BY <1>3
  <2> HIDE DEF new
  <2> QED BY <1>1, <1>3, <2>1, CommittedUp
<1>5. /\ wins' = [e \in DocIds |-> wins'[e]]
      /\ \A e \in DocIds : wins'[e] \in Nat /\ wins'[e] = IF e = d THEN wins[e] + 1 ELSE wins[e]
      /\ put' = [e \in DocIds |-> put'[e]] /\ \A e \in DocIds : put'[e] \in Int
  <2>1. wins' = [e \in DocIds |-> IF e = d THEN wins[e] + 1 ELSE wins[e]]
    BY <1>1, CollData
  <2>2. \A e \in DocIds : wins[e] \in Nat /\ put[e] \in Int
    BY CollData
  <2>3. put' = put /\ put = [e \in DocIds |-> put[e]]
    BY <1>1, CollData
  <2>4. \A e \in DocIds : wins'[e] \in Nat /\ wins'[e] = IF e = d THEN wins[e] + 1 ELSE wins[e]
    BY <2>1, <2>2
  <2>5. wins' = [e \in DocIds |-> wins'[e]]
    BY <2>1
  <2> QED BY <2>2, <2>3, <2>4, <2>5
<1>6. ASSUME ~stale, NEW e \in DocIds
      PROVE DocSound(rows'[e], wins'[e], put'[e], feed'[e])
  <2>1. DocSound(rows[e], wins[e], put[e], feed[e])
    BY <1>6, CollData
  <2>2. CASE e = d
    <3>1. rows'[e] = [rows[d] EXCEPT !.taken = TRUE] /\ rows'[e] # NoDoc
      BY <1>2, <1>3, <1>4, <2>2, DocSets
    <3> QED BY <1>1, <1>2, <1>4, <1>5, <2>1, <2>2, <3>1, CollData DEF DocSound
  <2>3. CASE e # d
    BY <1>1, <1>3, <1>4, <1>5, <2>1, <2>3
  <2> QED BY <2>2, <2>3
<1>7. ~stale => UpsertedOnce(rows')
  <2>1. \A e \in DocIds : rows'[e] # NoDoc => rows[e] # NoDoc /\ rows[e].key = rows'[e].key
    BY <1>1, <1>2, <1>3, <1>4
  <2> QED BY <2>1, CollData DEF UpsertedOnce
<1> HIDE DEF new
<1> QED BY <1>1, <1>4, <1>5, <1>6, <1>7, CollData, CollWrites

(* applyRemoteWrite() of one document; what it brings counts as put in.     *)
LEMMA ApplyRemoteWriteKeeps ==
    ASSUME CollInv, NEW p \in Processes, NEW d \in DocIds,
           NEW doc1 \in {NoDoc, Coll!New("c")}, Coll!ApplyRemoteWrite(p, d, doc1)
    PROVE  CollInv'
<1>1. /\ rows' = [rows EXCEPT ![d] = doc1] /\ index' = [index EXCEPT ![d] = doc1]
      /\ feed' = [feed EXCEPT ![d] = "none"] /\ commits' = commits + 1
      /\ put' = [put EXCEPT ![d] = @ + Coll!Holds(rows')[d] - Coll!Holds(rows)[d]]
      /\ wins' = [wins EXCEPT ![d] = 0] /\ call' = call /\ stale' = stale
  BY DEF Coll!ApplyRemoteWrite
<1>2. doc1 \in MaybeDocs /\ (doc1 # NoDoc => doc1.key = "c" /\ doc1.n = 1)
  BY NewDocs DEF MaybeDocs
<1>3. /\ rows' \in [DocIds -> MaybeDocs] /\ index' = rows'
      /\ \A e \in DocIds : rows'[e] = IF e = d THEN doc1 ELSE rows[e]
  BY <1>1, <1>2, CollData
<1>4. /\ feed' = [e \in DocIds |-> feed'[e]]
      /\ \A e \in DocIds : feed'[e] = IF e = d THEN "none" ELSE feed[e]
      /\ wins' = [e \in DocIds |-> wins'[e]]
      /\ \A e \in DocIds : wins'[e] \in Nat /\ wins'[e] = IF e = d THEN 0 ELSE wins[e]
      /\ commits' \in Nat
  <2>1. feed' = [e \in DocIds |-> IF e = d THEN "none" ELSE feed[e]]
    BY <1>1, CollData
  <2>2. wins' = [e \in DocIds |-> IF e = d THEN 0 ELSE wins[e]]
    BY <1>1, CollData
  <2>3. commits' \in Nat /\ \A e \in DocIds : wins[e] \in Nat
    BY <1>1, CollData
  <2>4. feed' = [e \in DocIds |-> feed'[e]] /\ wins' = [e \in DocIds |-> wins'[e]]
    BY <2>1, <2>2
  <2>5. \A e \in DocIds : feed'[e] = IF e = d THEN "none" ELSE feed[e]
    BY <2>1
  <2>6. \A e \in DocIds : wins'[e] \in Nat /\ wins'[e] = IF e = d THEN 0 ELSE wins[e]
    BY <2>2, <2>3
  <2> QED BY <2>3, <2>4, <2>5, <2>6
<1>5. /\ Coll!Holds(rows)[d] = IF rows[d] = NoDoc THEN 0 ELSE rows[d].n
      /\ Coll!Holds(rows')[d] = IF rows'[d] = NoDoc THEN 0 ELSE rows'[d].n
      /\ Coll!Holds(rows)[d] \in Int /\ Coll!Holds(rows')[d] \in Int
  BY <1>2, <1>3, CollData, DocSets DEF Coll!Holds
<1>6. /\ put' = [e \in DocIds |-> put'[e]]
      /\ \A e \in DocIds :
            /\ put'[e] \in Int
            /\ put'[e] = IF e = d THEN put[e] + Coll!Holds(rows')[d] - Coll!Holds(rows)[d]
                         ELSE put[e]
  <2>1. put' = [e \in DocIds |-> IF e = d THEN put[e] + Coll!Holds(rows')[d] - Coll!Holds(rows)[d]
                                    ELSE put[e]]
    BY <1>1, CollData
  <2>2. \A e \in DocIds : put[e] \in Int
    BY CollData
  <2> QED BY <1>5, <2>1, <2>2
<1>7. ASSUME ~stale, NEW e \in DocIds
      PROVE DocSound(rows'[e], wins'[e], put'[e], feed'[e])
  <2>1. DocSound(rows[e], wins[e], put[e], feed[e])
    BY <1>7, CollData
  <2>2. CASE e = d
    BY <1>4, <1>5, <1>6, <2>1, <2>2 DEF DocSound
  <2>3. CASE e # d
    BY <1>3, <1>4, <1>6, <2>1, <2>3
  <2> QED BY <2>2, <2>3
<1>8. ~stale => UpsertedOnce(rows')
  BY <1>2, <1>3, CollData DEF UpsertedOnce
<1> QED BY <1>1, <1>3, <1>4, <1>6, <1>7, <1>8, CollData, CollWrites

(* bulkWrite(): nothing has committed since it read, so the documents are   *)
(* those it found; one unit moves, and the third document comes or goes.    *)
LEMMA BulkWritesKeeps ==
    ASSUME CollInv, NEW p \in Processes, Coll!BulkWrites(p)
    PROVE  CollInv'
<1> DEFINE o == call[p].of
           x == o.a
           y == o.b
           z == o.c
           moved(d) == IF d = x THEN Coll!Inc(rows[x], -1)
                       ELSE IF d = y THEN Coll!Inc(rows[y], 1) ELSE rows[d]
           units(d) == IF d = x THEN put[d] - 1 ELSE IF d = y THEN put[d] + 1 ELSE put[d]
<1>1. /\ call[p].kind = "bulk" /\ call' = [call EXCEPT ![p] = Coll!None]
      /\ stale' = stale /\ call[p].at = commits
  BY DEF Coll!BulkWrites, Coll!Returns, Coll!Unchanged
<1>2. /\ x \in DocIds /\ y \in DocIds /\ z \in DocIds /\ x # y /\ z # x /\ z # y
      /\ rows[x] # NoDoc /\ rows[y] # NoDoc /\ rows[x].n > 0 /\ rows[y].n < MaxN
      /\ rows[x] \in Coll!Docs /\ rows[y] \in Coll!Docs
  <2>1. CallFound(call[p]) /\ call[p].read = rows
    BY <1>1, CollData DEF CallTimely
  <2> QED BY <1>1, <2>1, CollData DEF CallFound
<1>3. /\ Coll!Inc(rows[x], -1) \in Coll!Docs /\ Coll!Inc(rows[x], -1).n = rows[x].n - 1
      /\ Coll!Inc(rows[x], -1).key = rows[x].key /\ Coll!Inc(rows[x], -1).taken = rows[x].taken
  <2>1. -1 \in Int /\ rows[x].n + (-1) \in 0..MaxN /\ rows[x].n + (-1) = rows[x].n - 1
    BY <1>2, DocSets
  <2> QED BY <1>2, <2>1, DocSets
<1>4. /\ Coll!Inc(rows[y], 1) \in Coll!Docs /\ Coll!Inc(rows[y], 1).n = rows[y].n + 1
      /\ Coll!Inc(rows[y], 1).key = rows[y].key /\ Coll!Inc(rows[y], 1).taken = rows[y].taken
  BY <1>2, DocSets
<1>5. Coll!Moved(o) = [d \in DocIds |-> moved(d)]
  BY <1>2, CollData DEF Coll!Moved
<1>6. \A d \in DocIds : moved(d) \in MaybeDocs
  BY <1>3, <1>4, CollData DEF MaybeDocs
<1>7. \A d \in DocIds : moved(d) # NoDoc => rows[d] # NoDoc /\ rows[d].key = moved(d).key
  BY <1>2, <1>3, <1>4
<1>8. \A d \in DocIds : rows[d] # NoDoc => moved(d) # NoDoc
  BY <1>3, <1>4, DocSets
<1>9. \A d \in DocIds : units(d) \in Int /\ put[d] \in Int
  BY CollData
<1>10. ASSUME ~stale, NEW d \in DocIds, d # z
       PROVE DocSound(moved(d), wins[d], units(d), IF d \in {x, y} THEN "upsert" ELSE feed[d])
  <2>1. DocSound(rows[d], wins[d], put[d], feed[d])
    BY <1>10, CollData
  <2>2. CASE d = x
    BY <1>2, <1>3, <1>8, <2>1, <2>2, DocSets DEF DocSound
  <2>3. CASE d = y
    BY <1>2, <1>4, <1>8, <2>1, <2>3, DocSets DEF DocSound
  <2>4. CASE d \notin {x, y}
    BY <2>1, <2>4
  <2> QED BY <2>2, <2>3, <2>4
<1>11. CASE /\ z \notin Coll!Present(rows)
            /\ Coll!Commits({x, y, z}, {}, [Coll!Moved(o) EXCEPT ![z] = Coll!New("c")])
            /\ put' = [put EXCEPT ![x] = @ - 1, ![y] = @ + 1, ![z] = @ + 1]
            /\ wins' = wins
  <2> DEFINE new == [Coll!Moved(o) EXCEPT ![z] = Coll!New("c")]
             up == {x, y, z}
  <2>1. rows[z] = NoDoc
    BY <1>2, <1>11 DEF Coll!Present
  <2>2. new = [d \in DocIds |-> IF d = z THEN Coll!New("c") ELSE moved(d)]
    BY <1>2, <1>5
  <2>3. new \in [DocIds -> MaybeDocs] /\ \A d \in DocIds \ up : new[d] = rows[d]
    BY <1>6, <2>2, NewDocs DEF MaybeDocs
  <2>4. /\ rows' = new /\ rows' \in [DocIds -> MaybeDocs] /\ index' = rows'
        /\ feed' = [d \in DocIds |-> feed'[d]]
        /\ \A d \in DocIds : feed'[d] = IF d \in up THEN "upsert" ELSE feed[d]
        /\ commits' = commits + 1 /\ commits' \in Nat
    <3>1. Coll!Commits(up, {}, new)
      BY <1>11
    <3> HIDE DEF new, up
    <3> QED BY <2>3, <3>1, CommittedUp
  <2>5. put' = [d \in DocIds |-> IF d = z THEN put[d] + 1 ELSE units(d)]
    BY <1>2, <1>11, CollData
  <2>6. /\ wins' = [d \in DocIds |-> wins'[d]] /\ put' = [d \in DocIds |-> put'[d]]
        /\ \A d \in DocIds : wins'[d] \in Nat /\ wins'[d] = wins[d]
    BY <1>11, <2>5, CollData
  <2>7. \A d \in DocIds : /\ put'[d] \in Int
                             /\ put'[d] = IF d = z THEN put[d] + 1 ELSE units(d)
    BY <1>9, <2>5
  <2>8. ASSUME ~stale, NEW d \in DocIds
        PROVE DocSound(rows'[d], wins'[d], put'[d], feed'[d])
    <3>1. CASE d = z
      <4>1. DocSound(rows[z], wins[z], put[z], feed[z])
        BY <1>2, <2>8, CollData
      <4>2. rows'[z] # NoDoc /\ rows'[z].n = 1
        BY <1>2, <2>2, <2>4, NewDocs, DocSets
      <4> QED BY <1>2, <2>1, <2>4, <2>6, <2>7, <3>1, <4>1, <4>2, CollData DEF DocSound
    <3>2. CASE d # z
      <4>1. /\ rows'[d] = moved(d) /\ wins'[d] = wins[d] /\ put'[d] = units(d)
            /\ feed'[d] = IF d \in {x, y} THEN "upsert" ELSE feed[d]
        BY <2>2, <2>4, <2>6, <2>7, <3>2
      <4> HIDE DEF x, y, z, o, moved, units
      <4> QED BY <1>10, <2>8, <3>2, <4>1
    <3> QED BY <3>1, <3>2
  <2>9. ~stale => UpsertedOnce(rows')
    <3>1. \A d \in DocIds : rows'[d] = IF d = z THEN Coll!New("c") ELSE moved(d)
      BY <2>2, <2>4
    <3>2. \A d \in DocIds : rows'[d] # NoDoc /\ rows'[d].key = "u"
                               => rows[d] # NoDoc /\ rows[d].key = "u"
      BY <1>7, <3>1, NewDocs
    <3> QED BY <3>2, CollData DEF UpsertedOnce
  <2> HIDE DEF new, up
  <2> QED BY <1>1, <2>4, <2>6, <2>7, <2>8, <2>9, CollData, CollWrites
<1>12. CASE /\ Coll!Commits({x, y}, {z} \cap Coll!Present(rows),
                            [Coll!Moved(o) EXCEPT ![z] = NoDoc])
            /\ put' = [put EXCEPT ![x] = @ - 1, ![y] = @ + 1, ![z] = @ - Coll!Holds(rows)[z]]
            /\ wins' = [wins EXCEPT ![z] = 0]
  <2> DEFINE new == [Coll!Moved(o) EXCEPT ![z] = NoDoc]
             up == {x, y}
             del == {z} \cap Coll!Present(rows)
             held == Coll!Holds(rows)[z]
  <2>1. held = (IF rows[z] = NoDoc THEN 0 ELSE rows[z].n) /\ held \in Int
    BY <1>2, CollData, DocSets DEF Coll!Holds
  <2>2. new = [d \in DocIds |-> IF d = z THEN NoDoc ELSE moved(d)]
    BY <1>2, <1>5
  <2>3. /\ new \in [DocIds -> MaybeDocs]
        /\ \A d \in DocIds : d \notin up /\ d \notin del => new[d] = rows[d]
    BY <1>6, <2>2 DEF MaybeDocs, Coll!Present
  <2>4. /\ rows' = new /\ rows' \in [DocIds -> MaybeDocs] /\ index' = rows'
        /\ feed' = [d \in DocIds |-> feed'[d]]
        /\ \A d \in DocIds : feed'[d] = IF d \in del THEN "delete"
                                           ELSE IF d \in up THEN "upsert" ELSE feed[d]
        /\ commits' = commits + 1 /\ commits' \in Nat
    <3>1. Coll!Commits(up, del, new)
      BY <1>12
    <3> HIDE DEF new, up, del
    <3> QED BY <2>3, <3>1, Committed
  <2> HIDE DEF held
  <2>5. put' = [d \in DocIds |-> IF d = z THEN put[d] - held ELSE units(d)]
    BY <1>2, <1>12, CollData DEF held
  <2>6. wins' = [d \in DocIds |-> IF d = z THEN 0 ELSE wins[d]]
    BY <1>2, <1>12, CollData
  <2>7. /\ wins' = [d \in DocIds |-> wins'[d]] /\ put' = [d \in DocIds |-> put'[d]]
        /\ \A d \in DocIds : wins'[d] \in Nat /\ wins'[d] = IF d = z THEN 0 ELSE wins[d]
    BY <2>5, <2>6, CollData
  <2>8. \A d \in DocIds : /\ put'[d] \in Int
                             /\ put'[d] = IF d = z THEN put[d] - held ELSE units(d)
    BY <1>9, <2>1, <2>5
  <2>9. ASSUME ~stale, NEW d \in DocIds
        PROVE DocSound(rows'[d], wins'[d], put'[d], feed'[d])
    <3>1. CASE d = z
      <4>1. DocSound(rows[z], wins[z], put[z], feed[z])
        BY <1>2, <2>9, CollData
      <4>2. rows'[z] = NoDoc /\ wins'[z] = 0 /\ put'[z] = 0
        BY <1>2, <2>1, <2>2, <2>4, <2>7, <2>8, <4>1 DEF DocSound
      <4>3. feed'[z] # "upsert"
        <5>1. CASE rows[z] = NoDoc
          BY <1>2, <2>4, <4>1, <5>1 DEF DocSound
        <5>2. CASE rows[z] # NoDoc
          BY <1>2, <2>4, <5>2 DEF Coll!Present
        <5> QED BY <5>1, <5>2
      <4> QED BY <3>1, <4>2, <4>3 DEF DocSound
    <3>2. CASE d # z
      <4>1. /\ rows'[d] = moved(d) /\ wins'[d] = wins[d] /\ put'[d] = units(d)
            /\ feed'[d] = IF d \in {x, y} THEN "upsert" ELSE feed[d]
        BY <2>2, <2>4, <2>7, <2>8, <3>2
      <4> HIDE DEF x, y, z, o, moved, units
      <4> QED BY <1>10, <2>9, <3>2, <4>1
    <3> QED BY <3>1, <3>2
  <2>10. ~stale => UpsertedOnce(rows')
    <3>1. \A d \in DocIds : rows'[d] = IF d = z THEN NoDoc ELSE moved(d)
      BY <2>2, <2>4
    <3>2. \A d \in DocIds : rows'[d] # NoDoc /\ rows'[d].key = "u"
                               => rows[d] # NoDoc /\ rows[d].key = "u"
      BY <1>7, <3>1
    <3> QED BY <3>2, CollData DEF UpsertedOnce
  <2> HIDE DEF new, up, del
  <2> QED BY <1>1, <2>4, <2>7, <2>8, <2>9, <2>10, CollData, CollWrites
<1> QED BY <1>11, <1>12 DEF Coll!BulkWrites

LEMMA CollGoesOn == CollInv /\ [Coll!Next]_collVars => CollInv'
<1> SUFFICES ASSUME CollInv, [Coll!Next]_collVars PROVE CollInv'
    OBVIOUS
<1>1. ASSUME UNCHANGED <<rows, feed, index, commits, call, wins, put, stale>> PROVE CollInv'
  BY <1>1 DEF CollInv, CollShape, CollCalls, CollSound, CallFound, CallTimely, DocSound,
              UpsertedOnce, MaybeDocs
<1>2. CASE UNCHANGED collVars
  BY <1>1, <1>2 DEF collVars, collRest
<1>3. ASSUME NEW d \in DocIds, Coll!Expires(d) PROVE CollInv'
  BY <1>1, <1>3 DEF Coll!Expires
<1>4. ASSUME NEW p \in Processes, NEW ids \in SUBSET DocIds,
             \/ Coll!DeleteReads(p, ids) \/ Coll!CreateMany(p, ids, "c")
             \/ \E k \in {"u", "c"} : Coll!UpdateReads(p, k, ids)
      PROVE CollInv'
  BY <1>4, DeleteReadsKeeps, CreateManyKeeps, UpdateReadsKeeps
<1>5. ASSUME NEW p \in Processes, NEW x \in DocIds, NEW y \in DocIds, NEW z \in DocIds,
             NEW op, Coll!BulkReads(p, x, y, z, op)
      PROVE CollInv'
  BY <1>5, BulkReadsKeeps
<1> QED BY <1>2, <1>3, <1>4, <1>5, ApplyRemoteWriteKeeps, UpdateWritesKeeps, DeleteWritesKeeps,
           FailsKeeps, UpsertReadsKeeps, UpsertsKeeps, BulkWritesKeeps, FindOneAndUpdateKeeps
        DEF Coll!Next

LEMMA CollHolds ==
    ASSUME CollInv
    PROVE  /\ Coll!CasWinsOnce /\ Coll!UpsertsDontDuplicate
           /\ Coll!RowsIndexAndFeedAgree /\ Coll!BalanceIsAcknowledged
<1>1. Coll!CasWinsOnce
  BY CollData DEF Coll!CasWinsOnce, DocSound
<1>2. Coll!UpsertsDontDuplicate
  BY CollData DEF Coll!UpsertsDontDuplicate, UpsertedOnce, Coll!Present
<1>3. Coll!RowsIndexAndFeedAgree
  BY CollData DEF Coll!RowsIndexAndFeedAgree, DocSound, Coll!Present
<1>4. Coll!BalanceIsAcknowledged
  <2>1. SUFFICES ASSUME ~stale PROVE Coll!Holds(rows) = put
    BY DEF Coll!BalanceIsAcknowledged
  <2>2. \A d \in DocIds : put[d] = IF rows[d] = NoDoc THEN 0 ELSE rows[d].n
    BY <2>1, CollData DEF DocSound
  <2>3. put = [d \in DocIds |-> put[d]]
    BY CollData
  <2> QED BY <2>2, <2>3 DEF Coll!Holds
<1> QED BY <1>1, <1>2, <1>3, <1>4

-----------------------------------------------------------------------------
(* Collections on Postgres.                                                  *)

PgUnits(row) == IF row = NoDoc THEN 0 ELSE row.n

PgCalls == [kind : {"none", "create", "seed", "update", "take1", "take", "delete"},
            read : [PgDocIds -> MaybeDocs], todo : SUBSET PgDocIds,
            locks : SUBSET PgDocIds, own : [PgDocIds -> MaybeDocs],
            adds : [PgDocIds -> Int], next : PgDocIds \cup {NoDoc}]

(* A statement that is yet to come makes of the document that was read what *)
(* the call adds to it.                                                     *)
PgAsks(c, d) ==
    /\ PgColl!Written(c, d) \in MaybeDocs
    /\ PgUnits(PgColl!Written(c, d))
         = c.adds[d] + (IF PgColl!Inserts(c) THEN 0 ELSE PgUnits(c.read[d]))
    /\ ~PgColl!Inserts(c) => c.read[d] # NoDoc

PgCallSound(c, data) ==
    /\ c \in PgCalls
    /\ c.todo \cap c.locks = {}
    /\ c.kind = "none" => c.todo = {} /\ c.locks = {}
    /\ c.kind = "take1" => c.next \in PgDocIds /\ c.next \notin c.todo \cup c.locks
    /\ \A d \in PgDocIds :
          /\ d \in c.todo => PgAsks(c, d)
          /\ d \in c.locks => PgUnits(c.own[d]) = PgUnits(data[d]) + c.adds[d]
          /\ d \notin c.todo \cup c.locks => c.adds[d] = 0

PgSound ==
    /\ rows \in [PgDocIds -> MaybeDocs] /\ put \in [PgDocIds -> Int]
    /\ \A d \in PgDocIds : put[d] = PgUnits(rows[d])
    /\ call = [p \in Processes |-> call[p]]
    /\ \A p \in Processes : PgCallSound(call[p], rows)
    /\ \A p, q \in Processes : p # q => call[p].locks \cap call[q].locks = {}

PgInv == stale \in BOOLEAN /\ (~stale => PgSound)

LEMMA PgDocSets ==
    /\ \A k \in {"u", "c"} : PgColl!New(k) \in Coll!Docs /\ PgColl!New(k).n = 1
    /\ \A row \in Coll!Docs :
          /\ row.n < MaxN => /\ [row EXCEPT !.n = @ + 1] \in Coll!Docs
                             /\ [row EXCEPT !.n = @ + 1].n = row.n + 1
          /\ row.n > 0 => /\ [row EXCEPT !.n = @ - 1] \in Coll!Docs
                          /\ [row EXCEPT !.n = @ - 1].n = row.n - 1
          /\ [row EXCEPT !.taken = TRUE] \in Coll!Docs
          /\ [row EXCEPT !.taken = TRUE].n = row.n
<1> USE DEF Coll!Docs
<1>1. MaxN \in Nat \ {0}
  BY DocSets
<1>2. \A k \in {"u", "c"} : PgColl!New(k) \in Coll!Docs /\ PgColl!New(k).n = 1
  BY <1>1 DEF PgColl!New
<1>3. ASSUME NEW row \in Coll!Docs, row.n < MaxN
      PROVE [row EXCEPT !.n = @ + 1] \in Coll!Docs /\ [row EXCEPT !.n = @ + 1].n = row.n + 1
  BY <1>1, <1>3
<1>4. ASSUME NEW row \in Coll!Docs, row.n > 0
      PROVE [row EXCEPT !.n = @ - 1] \in Coll!Docs /\ [row EXCEPT !.n = @ - 1].n = row.n - 1
  BY <1>1, <1>4
<1>5. ASSUME NEW row \in Coll!Docs
      PROVE [row EXCEPT !.taken = TRUE] \in Coll!Docs /\ [row EXCEPT !.taken = TRUE].n = row.n
  BY <1>1
<1> HIDE DEF Coll!Docs
<1> QED BY <1>2, <1>3, <1>4, <1>5

LEMMA PgNone == PgColl!None \in PgCalls /\ \A data : PgCallSound(PgColl!None, data)
<1>1. PgColl!None \in PgCalls
  BY DEF PgColl!None, PgColl!Empty, PgCalls, MaybeDocs
<1>2. /\ PgColl!None.kind = "none" /\ PgColl!None.todo = {} /\ PgColl!None.locks = {}
      /\ \A d \in PgDocIds : PgColl!None.adds[d] = 0
  BY DEF PgColl!None
<1> QED BY <1>1, <1>2 DEF PgCallSound

LEMMA PgBegins == PgColl!PgInit => PgInv
<1> SUFFICES ASSUME PgColl!PgInit PROVE PgInv
    OBVIOUS
<1> USE DEF PgColl!PgInit
<1>1. rows = [d \in PgDocIds |-> NoDoc] /\ put = [d \in PgDocIds |-> 0]
  BY DEF PgColl!Empty
<1>2. call = [p \in Processes |-> PgColl!None] /\ PgColl!None.locks = {}
  BY DEF PgColl!None
<1>3. call = [p \in Processes |-> call[p]] /\ \A p \in Processes : call[p] = PgColl!None
  BY <1>2
<1>4. rows \in [PgDocIds -> MaybeDocs] /\ put \in [PgDocIds -> Int]
  BY <1>1 DEF MaybeDocs
<1>5. \A d \in PgDocIds : put[d] = PgUnits(rows[d])
  BY <1>1 DEF PgUnits
<1>6. \A p, q \in Processes : p # q => call[p].locks \cap call[q].locks = {}
  BY <1>2, <1>3
<1>7. PgSound
  BY <1>3, <1>4, <1>5, <1>6, PgNone DEF PgSound
<1> QED BY <1>7 DEF PgInv

(* A step that changes one call, and no row.                                *)
LEMMA PgCallMoves ==
    ASSUME PgSound, NEW p \in Processes, NEW c, call' = [call EXCEPT ![p] = c],
           UNCHANGED <<rows, put>>, PgCallSound(c, rows), stale' \in BOOLEAN,
           \A q \in Processes \ {p} : c.locks \cap call[q].locks = {}
    PROVE  PgInv'
<1>1. call = [q \in Processes |-> call[q]]
  BY DEF PgSound
<1>2. call' = [q \in Processes |-> IF q = p THEN c ELSE call[q]]
  BY <1>1
<1>3. call' = [q \in Processes |-> call'[q]]
  BY <1>2
<1>4. \A q \in Processes : call'[q] = IF q = p THEN c ELSE call[q]
  BY <1>2
<1>5. \A q \in Processes : PgCallSound(call'[q], rows')
  BY <1>4 DEF PgSound
<1>6. ASSUME NEW q \in Processes, NEW r \in Processes, q # r
      PROVE call'[q].locks \cap call'[r].locks = {}
  BY <1>4, <1>6 DEF PgSound
<1>7. rows' \in [PgDocIds -> MaybeDocs] /\ put' \in [PgDocIds -> Int]
      /\ \A d \in PgDocIds : put'[d] = PgUnits(rows'[d])
  BY DEF PgSound
<1>8. \A q \in Processes : PgCallSound(call[q], rows)'
  BY <1>5 DEF PgCallSound, PgAsks, PgColl!Written, PgColl!Inserts, PgCalls, PgUnits, MaybeDocs,
              PgColl!New
<1>9. PgSound'
  BY <1>3, <1>6, <1>7, <1>8 DEF PgSound, PgUnits, MaybeDocs
<1> QED BY <1>9 DEF PgInv

(* A call begins: what it asks for is what it adds to the documents read.   *)
LEMMA PgStarts ==
    ASSUME PgSound, stale \in BOOLEAN, NEW p \in Processes,
           NEW kind \in {"create", "seed", "update", "take", "delete"},
           NEW ids \in SUBSET PgDocIds, NEW adds \in [PgDocIds -> Int],
           PgColl!Begins(p, kind, ids, adds),
           \A d \in PgDocIds \ ids : adds[d] = 0,
           \A c \in PgCalls, d \in ids :
              c.kind = kind /\ c.read = rows /\ c.adds = adds => PgAsks(c, d)
    PROVE  PgInv'
<1> DEFINE none == PgColl!None
           c == [none EXCEPT !.kind = kind, !.read = rows, !.todo = ids, !.adds = adds]
<1>1. call' = [call EXCEPT ![p] = c] /\ UNCHANGED <<rows, put, stale>>
  BY DEF PgColl!Begins
<1>2. none \in PgCalls /\ none.locks = {}
  BY PgNone DEF PgColl!None
<1> HIDE DEF none
<1>3. c \in PgCalls
  BY <1>2 DEF PgCalls, PgSound
<1>4. c.locks = {} /\ c.kind = kind /\ c.todo = ids /\ c.adds = adds /\ c.read = rows
  BY <1>2 DEF PgCalls
<1> HIDE DEF c
<1>5. \A d \in c.todo : PgAsks(c, d)
  BY <1>3, <1>4
<1>6. PgCallSound(c, rows)
  BY <1>3, <1>4, <1>5 DEF PgCallSound
<1> QED BY <1>1, <1>4, <1>6, PgCallMoves

LEMMA PgStartsOnRows ==
    ASSUME PgSound, stale \in BOOLEAN, NEW p \in Processes,
           NEW kind \in {"update", "take"}, NEW by \in Int, NEW ids \in SUBSET PgDocIds,
           \A d \in ids : rows[d] # NoDoc,
           kind = "update" => by = 1 /\ \A d \in ids : rows[d].n < MaxN,
           kind = "take" => by = 0,
           PgColl!Begins(p, kind, ids, PgColl!ToEach(ids, by))
    PROVE  PgInv'
<1> DEFINE adds == PgColl!ToEach(ids, by)
<1>1. adds \in [PgDocIds -> Int] /\ \A d \in PgDocIds : adds[d] = IF d \in ids THEN by ELSE 0
  BY DEF PgColl!ToEach
<1> HIDE DEF adds
<1>2. ASSUME NEW c \in PgCalls, NEW d \in ids, c.kind = kind, c.read = rows, c.adds = adds
      PROVE  PgAsks(c, d)
  <2>1. rows[d] \in Coll!Docs /\ d \in PgDocIds
    BY <1>2 DEF PgSound, MaybeDocs
  <2>2. c.kind = kind /\ c.adds[d] = by /\ c.read[d] = rows[d]
    BY <1>1, <1>2, <2>1
  <2>3. ~PgColl!Inserts(c)
    BY <2>2 DEF PgColl!Inserts
  <2>4. PgColl!Written(c, d) \in Coll!Docs /\ PgColl!Written(c, d).n = rows[d].n + by
    <3>1. CASE kind = "update"
      <4>1. PgColl!Written(c, d) = [rows[d] EXCEPT !.n = @ + 1]
        BY <2>2, <3>1 DEF PgColl!Written
      <4> QED BY <2>1, <3>1, <4>1, PgDocSets
    <3>2. CASE kind = "take"
      <4>1. PgColl!Written(c, d) = [rows[d] EXCEPT !.taken = TRUE]
        BY <2>2, <3>2 DEF PgColl!Written
      <4>2. by = 0 /\ rows[d].n \in Int
        BY <2>1, <3>2, DocSets
      <4>3. [rows[d] EXCEPT !.taken = TRUE] \in Coll!Docs
            /\ [rows[d] EXCEPT !.taken = TRUE].n = rows[d].n
        BY <2>1, PgDocSets
      <4> QED BY <4>1, <4>2, <4>3
    <3> QED BY <3>1, <3>2
  <2> QED BY <1>2, <2>1, <2>2, <2>3, <2>4, DocSets DEF PgAsks, PgUnits, MaybeDocs
<1> QED BY <1>1, <1>2, PgStarts DEF adds

LEMMA PgInserts ==
    ASSUME PgSound, stale \in BOOLEAN, NEW p \in Processes, NEW kind \in {"create", "seed"},
           NEW ids \in SUBSET PgDocIds,
           PgColl!Begins(p, kind, ids, PgColl!ToEach(ids, 1))
    PROVE  PgInv'
<1> DEFINE adds == PgColl!ToEach(ids, 1)
<1>1. adds \in [PgDocIds -> Int] /\ \A d \in PgDocIds : adds[d] = IF d \in ids THEN 1 ELSE 0
  BY DEF PgColl!ToEach
<1> HIDE DEF adds
<1>2. ASSUME NEW c \in PgCalls, NEW d \in ids, c.kind = kind, c.read = rows, c.adds = adds
      PROVE  PgAsks(c, d)
  <2>1. c.kind = kind /\ c.adds[d] = 1
    BY <1>1, <1>2
  <2>2. PgColl!Inserts(c)
    BY <2>1 DEF PgColl!Inserts
  <2>3. PgColl!Written(c, d) = PgColl!New("c") \/ PgColl!Written(c, d) = PgColl!New("u")
    BY <2>1 DEF PgColl!Written
  <2>4. PgColl!Written(c, d) \in Coll!Docs /\ PgColl!Written(c, d).n = 1
    BY <2>3, PgDocSets
  <2> QED BY <2>1, <2>2, <2>4, DocSets DEF PgAsks, PgUnits, MaybeDocs
<1> QED BY <1>1, <1>2, PgStarts DEF adds

LEMMA PgDeletes ==
    ASSUME PgSound, stale \in BOOLEAN, NEW p \in Processes, NEW d \in PgDocIds,
           PgColl!RunDeletePg(p, d)
    PROVE  PgInv'
<1> DEFINE units == rows[d].n
           ids == {d}
           adds == PgColl!ToEach(ids, 0 - units)
<1>1. rows[d] # NoDoc /\ rows[d] \in Coll!Docs /\ units \in Int
  BY DocSets DEF PgColl!RunDeletePg, PgColl!Present, PgSound, MaybeDocs
<1>2. /\ adds \in [PgDocIds -> Int]
      /\ \A e \in PgDocIds : adds[e] = IF e \in ids THEN 0 - units ELSE 0
  BY <1>1 DEF PgColl!ToEach
<1>3. PgColl!Begins(p, "delete", ids, adds)
  BY DEF PgColl!RunDeletePg
<1>4. ASSUME NEW c \in PgCalls, NEW e \in ids, c.kind = "delete", c.read = rows, c.adds = adds
      PROVE  PgAsks(c, e)
  <2>1. e = d /\ c.kind = "delete" /\ c.adds[e] = 0 - units /\ c.read[e] = rows[e]
    BY <1>2, <1>4
  <2>2. ~PgColl!Inserts(c) /\ PgColl!Written(c, e) = NoDoc
    BY <2>1 DEF PgColl!Inserts, PgColl!Written
  <2> QED BY <1>1, <2>1, <2>2 DEF PgAsks, PgUnits, MaybeDocs
<1> HIDE DEF adds, ids
<1>5. ids \in SUBSET PgDocIds
  BY DEF ids
<1> QED BY <1>2, <1>3, <1>4, <1>5, PgStarts

LEMMA PgBulkBegins ==
    ASSUME PgSound, stale \in BOOLEAN, NEW p \in Processes, NEW x \in PgDocIds,
           NEW y \in PgDocIds, PgColl!BulkWritePg(p, x, y)
    PROVE  PgInv'
<1> DEFINE ids == {x}
           adds == PgColl!ToEach(ids, -1)
           none == PgColl!None
           c == [none EXCEPT !.kind = "take1", !.read = rows, !.todo = ids, !.adds = adds,
                             !.next = y]
<1>1. /\ call' = [call EXCEPT ![p] = c] /\ UNCHANGED <<rows, put, stale>>
  BY DEF PgColl!BulkWritePg
<1>2. x # y /\ rows[x] # NoDoc /\ rows[x] \in Coll!Docs /\ rows[x].n > 0
  BY DEF PgColl!BulkWritePg, PgColl!Present, PgSound, MaybeDocs
<1>3. /\ adds \in [PgDocIds -> Int]
      /\ \A e \in PgDocIds : adds[e] = IF e \in ids THEN -1 ELSE 0
  BY DEF PgColl!ToEach
<1>4. none \in PgCalls /\ none.locks = {}
  BY PgNone DEF PgColl!None
<1> HIDE DEF none, adds, ids
<1>5. c \in PgCalls
  <2>1. ids \in SUBSET PgDocIds
    BY DEF ids
  <2> QED BY <1>3, <1>4, <2>1 DEF PgCalls, PgSound
<1>6. /\ c.locks = {} /\ c.kind = "take1" /\ c.todo = ids /\ c.adds = adds /\ c.read = rows
      /\ c.next = y
  BY <1>4 DEF PgCalls
<1> HIDE DEF c
<1>7. ASSUME NEW e \in ids PROVE PgAsks(c, e)
  <2>1. e = x /\ e \in PgDocIds
    BY DEF ids
  <2>2. c.adds[e] = -1 /\ c.read[e] = rows[e]
    BY <1>3, <1>6, <2>1
  <2>3. ~PgColl!Inserts(c) /\ PgColl!Written(c, e) = [rows[e] EXCEPT !.n = @ - 1]
    BY <1>6, <2>2 DEF PgColl!Inserts, PgColl!Written
  <2>4. PgColl!Written(c, e) \in Coll!Docs /\ PgColl!Written(c, e).n = rows[e].n - 1
    BY <1>2, <2>1, <2>3, PgDocSets
  <2> QED BY <1>2, <2>1, <2>2, <2>3, <2>4, DocSets DEF PgAsks, PgUnits, MaybeDocs
<1>8. y \notin ids
  BY <1>2 DEF ids
<1>9. PgCallSound(c, rows)
  BY <1>3, <1>5, <1>6, <1>7, <1>8 DEF PgCallSound
<1> QED BY <1>1, <1>6, <1>9, PgCallMoves

LEMMA PgBulkNext ==
    ASSUME PgSound, stale \in BOOLEAN, NEW p \in Processes, PgColl!BulkNext(p)
    PROVE  PgInv'
<1> DEFINE c == call[p]
           found == {c.next} \cap PgColl!Present(rows)
           adds == [d \in PgDocIds |-> c.adds[d] + PgColl!ToEach(found, 1)[d]]
           c1 == [c EXCEPT !.kind = "update", !.read = rows, !.todo = found, !.adds = adds]
<1>1. PgCallSound(c, rows) /\ c \in PgCalls
  BY DEF PgSound, PgCallSound
<1>2. /\ c.kind = "take1" /\ c.todo = {} /\ \A d \in found : rows[d].n < MaxN
      /\ UNCHANGED <<rows, put, stale>>
  BY DEF PgColl!BulkNext, PgColl!CanInc
<1>3. c.next \in PgDocIds /\ c.next \notin c.locks
  BY <1>1, <1>2 DEF PgCallSound
<1>4. \A d \in PgDocIds : c.adds[d] \in Int
  BY <1>1 DEF PgCalls
<1>5. call' = [call EXCEPT ![p] = c1]
  <2>1. call' = [call EXCEPT ![p].kind = "update", ![p].read = rows, ![p].todo = found,
                             ![p].adds = adds]
    BY DEF PgColl!BulkNext
  <2>2. call = [q \in Processes |-> call[q]]
    BY DEF PgSound
  <2> HIDE DEF adds, found
  <2> QED BY <2>1, <2>2
<1>6. \A d \in PgDocIds : PgColl!ToEach(found, 1)[d] = IF d \in found THEN 1 ELSE 0
  BY DEF PgColl!ToEach
<1>7. /\ adds \in [PgDocIds -> Int]
      /\ \A d \in PgDocIds : adds[d] = IF d \in found THEN c.adds[d] + 1 ELSE c.adds[d]
  <2> HIDE DEF found, c
  <2>1. \A d \in PgDocIds : PgColl!ToEach(found, 1)[d] \in Int
    BY <1>6
  <2>2. \A d \in PgDocIds : adds[d] = c.adds[d] + PgColl!ToEach(found, 1)[d]
    OBVIOUS
  <2>3. adds \in [PgDocIds -> Int]
    BY <1>4, <2>1
  <2> HIDE DEF adds
  <2> QED BY <1>4, <1>6, <2>2, <2>3
<1>8. found \subseteq PgDocIds /\ found \cap c.locks = {}
  BY <1>3
<1> HIDE DEF adds
<1> HIDE DEF c, found
<1>9. c1 \in PgCalls
  BY <1>1, <1>7, <1>8 DEF PgCalls, PgSound
<1>11. /\ c1.todo = found /\ c1.locks = c.locks /\ c1.kind = "update" /\ c1.adds = adds
       /\ c1.own = c.own /\ c1.read = rows
  BY <1>1 DEF PgCalls
<1> HIDE DEF c1
<1>10. ASSUME NEW d \in found PROVE PgAsks(c1, d)
  <2>1. d = c.next /\ d \in PgDocIds /\ c.adds[d] = 0 /\ rows[d] \in Coll!Docs
    BY <1>1, <1>2, <1>3 DEF PgCallSound, PgColl!Present, PgSound, MaybeDocs, found
  <2>2. c1.kind = "update" /\ c1.adds[d] = 1 /\ c1.read[d] = rows[d]
    BY <1>7, <1>11, <2>1
  <2>3. ~PgColl!Inserts(c1) /\ PgColl!Written(c1, d) = [rows[d] EXCEPT !.n = @ + 1]
    BY <2>2 DEF PgColl!Inserts, PgColl!Written
  <2>4. PgColl!Written(c1, d) \in Coll!Docs /\ PgColl!Written(c1, d).n = rows[d].n + 1
    BY <1>2, <2>1, <2>3, PgDocSets
  <2>5. rows[d] # NoDoc
    BY DEF PgColl!Present, found
  <2> QED BY <2>1, <2>2, <2>3, <2>4, <2>5, DocSets DEF PgAsks, PgUnits, MaybeDocs
<1>12. ASSUME NEW d \in PgDocIds, d \in c1.locks
       PROVE PgUnits(c1.own[d]) = PgUnits(rows[d]) + c1.adds[d]
  BY <1>1, <1>7, <1>8, <1>11, <1>12 DEF PgCallSound
<1>13. ASSUME NEW d \in PgDocIds, d \notin c1.todo \cup c1.locks PROVE c1.adds[d] = 0
  BY <1>1, <1>2, <1>7, <1>11, <1>13 DEF PgCallSound
<1>14. PgCallSound(c1, rows)
  BY <1>8, <1>9, <1>10, <1>11, <1>12, <1>13 DEF PgCallSound
<1>15. \A q \in Processes \ {p} : c1.locks \cap call[q].locks = {}
  BY <1>11 DEF PgSound, c
<1> QED BY <1>2, <1>5, <1>14, <1>15, PgCallMoves

(* A statement finds the row as its call has read it, or the history is     *)
(* stale.                                                                   *)
LEMMA PgStatement ==
    ASSUME PgSound, stale \in BOOLEAN, ~stale, ~stale', NEW p \in Processes,
           NEW d \in PgDocIds, PgColl!Statement(p, d)
    PROVE  PgInv'
<1> DEFINE c == call[p]
           own == [c.own EXCEPT ![d] = PgColl!Written(c, d)]
           c1 == [c EXCEPT !.todo = @ \ {d}, !.locks = @ \cup {d}, !.own = own]
<1>1. PgCallSound(c, rows) /\ c \in PgCalls
  BY DEF PgSound, PgCallSound
<1>2. /\ d \in c.todo /\ ~PgColl!Locked(p, d) /\ (PgColl!Inserts(c) => rows[d] = NoDoc)
      /\ UNCHANGED <<rows, put>> /\ stale' = (stale \/ (~PgColl!Inserts(c) /\ rows[d] # c.read[d]))
  BY DEF PgColl!Statement
<1>3. PgAsks(c, d) /\ d \notin c.locks
  BY <1>1, <1>2 DEF PgCallSound
<1>4. ~PgColl!Inserts(c) => rows[d] = c.read[d] /\ rows[d] # NoDoc
  BY <1>2, <1>3 DEF PgAsks
<1>5. call' = [call EXCEPT ![p] = c1]
  <2>1. call' = [call EXCEPT ![p].todo = @ \ {d}, ![p].locks = @ \cup {d},
                             ![p].own[d] = PgColl!Written(c, d)]
    BY <1>4 DEF PgColl!Statement
  <2>2. call = [q \in Processes |-> call[q]]
    BY DEF PgSound
  <2> DEFINE made == PgColl!Written(c, d)
  <2> HIDE DEF made
  <2>3. call' = [call EXCEPT ![p].todo = @ \ {d}, ![p].locks = @ \cup {d}, ![p].own[d] = made]
    BY <2>1 DEF made
  <2>4. own = [c.own EXCEPT ![d] = made]
    BY DEF made
  <2> QED BY <2>2, <2>3, <2>4
<1>6. /\ own \in [PgDocIds -> MaybeDocs]
      /\ \A e \in PgDocIds : own[e] = IF e = d THEN PgColl!Written(c, d) ELSE c.own[e]
  BY <1>1, <1>3 DEF PgCalls, PgAsks
<1> HIDE DEF own, c
<1>7. c1 \in PgCalls
  BY <1>1, <1>6 DEF PgCalls
<1>8. /\ c1.kind = c.kind /\ c1.read = c.read /\ c1.todo = c.todo \ {d}
      /\ c1.locks = c.locks \cup {d} /\ c1.own = own /\ c1.adds = c.adds /\ c1.next = c.next
  BY <1>1 DEF PgCalls
<1> HIDE DEF c1
<1>9. PgColl!Inserts(c1) = PgColl!Inserts(c)
      /\ \A e \in PgDocIds : PgColl!Written(c1, e) = PgColl!Written(c, e)
  BY <1>8 DEF PgColl!Inserts, PgColl!Written
<1>10. \A e \in c1.todo : PgAsks(c1, e)
  <2>1. \A e \in c1.todo : e \in PgDocIds /\ PgAsks(c, e)
    BY <1>1, <1>8 DEF PgCallSound, PgCalls
  <2> QED BY <1>8, <1>9, <2>1 DEF PgAsks
<1>11. PgUnits(own[d]) = PgUnits(rows[d]) + c.adds[d]
  <2>1. c.adds[d] \in Int
    BY <1>1 DEF PgCalls
  <2>2. CASE PgColl!Inserts(c)
    <3>1. PgUnits(own[d]) = c.adds[d] + 0
      BY <1>3, <1>6, <2>2 DEF PgAsks
    <3>2. PgUnits(rows[d]) = 0
      BY <1>2, <2>2 DEF PgUnits
    <3> QED BY <2>1, <3>1, <3>2
  <2>3. CASE ~PgColl!Inserts(c)
    <3>1. PgUnits(own[d]) = c.adds[d] + PgUnits(rows[d])
      BY <1>3, <1>4, <1>6, <2>3 DEF PgAsks
    <3>2. PgUnits(rows[d]) \in Int
      BY DocSets DEF PgUnits, PgSound, MaybeDocs
    <3> QED BY <2>1, <3>1, <3>2
  <2> QED BY <2>2, <2>3
<1>12. ASSUME NEW e \in PgDocIds, e \in c1.locks
       PROVE PgUnits(c1.own[e]) = PgUnits(rows[e]) + c1.adds[e]
  <2>1. CASE e = d
    BY <1>8, <1>11, <2>1
  <2>2. CASE e # d
    BY <1>1, <1>6, <1>8, <1>12, <2>2 DEF PgCallSound
  <2> QED BY <2>1, <2>2
<1>13. PgCallSound(c1, rows)
  <2>1. c1.todo \cap c1.locks = {} /\ (c1.kind = "none" => c1.todo = {} /\ c1.locks = {})
    BY <1>1, <1>2, <1>8 DEF PgCallSound
  <2>2. c1.kind = "take1" => c1.next \in PgDocIds /\ c1.next \notin c1.todo \cup c1.locks
    BY <1>1, <1>2, <1>8 DEF PgCallSound
  <2>3. \A e \in PgDocIds : e \notin c1.todo \cup c1.locks => c1.adds[e] = 0
    BY <1>1, <1>8 DEF PgCallSound
  <2> QED BY <1>7, <1>10, <1>12, <2>1, <2>2, <2>3 DEF PgCallSound
<1>14. \A q \in Processes \ {p} : c1.locks \cap call[q].locks = {}
  BY <1>2, <1>8 DEF PgSound, PgColl!Locked, c
<1> QED BY <1>2, <1>5, <1>13, <1>14, PgCallMoves

(* Rows that no other call has locked change, with what is put in.          *)
LEMMA PgRowsChange ==
    ASSUME PgSound, NEW p \in Processes, stale' \in BOOLEAN,
           call' = call \/ call' = [call EXCEPT ![p] = PgColl!None],
           call' = call => call[p].locks = {},
           rows' \in [PgDocIds -> MaybeDocs], put' \in [PgDocIds -> Int],
           \A d \in PgDocIds : put'[d] = PgUnits(rows'[d]),
           \A q \in Processes \ {p}, d \in PgDocIds : d \in call[q].locks => rows'[d] = rows[d]
    PROVE  PgInv'
<1>1. call = [q \in Processes |-> call[q]]
  BY DEF PgSound
<1>2. call' = [q \in Processes |-> call'[q]]
  BY <1>1
<1>3. \A q \in Processes : call'[q] = call[q] \/ (q = p /\ call'[q] = PgColl!None)
  BY <1>1
<1>4. PgColl!None.locks = {}
  BY DEF PgColl!None
<1>5. ASSUME NEW q \in Processes PROVE PgCallSound(call'[q], rows')
  <2>1. CASE call'[q] = PgColl!None
    BY <2>1, PgNone
  <2>2. CASE call'[q] = call[q] /\ call'[q] # PgColl!None
    <3>1. \A d \in PgDocIds : d \in call[q].locks => rows'[d] = rows[d]
      <4>1. CASE q = p
        <5>1. call' = call
          BY <1>1, <2>2, <4>1
        <5> QED BY <4>1, <5>1
      <4>2. CASE q # p
        BY <4>2
      <4> QED BY <4>1, <4>2
    <3>2. PgCallSound(call[q], rows)
      BY DEF PgSound
    <3> QED BY <2>2, <3>1, <3>2 DEF PgCallSound
  <2> QED BY <1>3, <2>1, <2>2
<1>6. ASSUME NEW q \in Processes, NEW r \in Processes, q # r
      PROVE call'[q].locks \cap call'[r].locks = {}
  BY <1>3, <1>4, <1>6 DEF PgSound
<1>8. \A q \in Processes : PgCallSound(call[q], rows)'
  BY <1>5 DEF PgCallSound, PgAsks, PgColl!Written, PgColl!Inserts, PgCalls, PgUnits, MaybeDocs,
              PgColl!New
<1>9. PgSound'
  BY <1>2, <1>6, <1>8 DEF PgSound, PgUnits, MaybeDocs
<1> QED BY <1>9 DEF PgInv

LEMMA PgCommits ==
    ASSUME PgSound, stale \in BOOLEAN, NEW p \in Processes, PgColl!Commit(p)
    PROVE  PgInv'
<1> DEFINE c == call[p]
<1>1. /\ c.todo = {} /\ call' = [call EXCEPT ![p] = PgColl!None] /\ stale' = stale
      /\ rows' = [d \in PgDocIds |-> IF d \in c.locks THEN c.own[d] ELSE rows[d]]
      /\ put' = [d \in PgDocIds |-> put[d] + c.adds[d]]
  BY DEF PgColl!Commit
<1>2. PgCallSound(c, rows) /\ c \in PgCalls
  BY DEF PgSound, PgCallSound
<1>3. rows' \in [PgDocIds -> MaybeDocs] /\ put' \in [PgDocIds -> Int]
  BY <1>1, <1>2 DEF PgSound, PgCalls
<1>4. ASSUME NEW d \in PgDocIds PROVE put'[d] = PgUnits(rows'[d])
  <2>1. put'[d] = put[d] + c.adds[d] /\ put[d] = PgUnits(rows[d]) /\ put[d] \in Int
    BY <1>1 DEF PgSound
  <2>2. CASE d \in c.locks
    BY <1>1, <1>2, <2>1, <2>2 DEF PgCallSound
  <2>3. CASE d \notin c.locks
    BY <1>1, <1>2, <2>1, <2>3 DEF PgCallSound
  <2> QED BY <2>2, <2>3
<1>5. \A q \in Processes \ {p}, d \in PgDocIds : d \in call[q].locks => rows'[d] = rows[d]
  BY <1>1 DEF PgSound
<1>6. call' = call => c.locks = {}
  <2>1. call'[p] = PgColl!None /\ PgColl!None.locks = {}
    BY <1>1 DEF PgSound, PgColl!None
  <2> QED BY <2>1
<1> QED BY <1>1, <1>3, <1>4, <1>5, <1>6, PgRowsChange

LEMMA PgPurges ==
    ASSUME PgSound, stale \in BOOLEAN, NEW p \in Processes, PgColl!PurgeExpiredPg(p)
    PROVE  PgInv'
<1>1. /\ call[p].kind = "none" /\ \A d \in expired : ~PgColl!Locked(p, d)
      /\ rows' = [d \in PgDocIds |-> IF d \in expired THEN NoDoc ELSE rows[d]]
      /\ put' = [d \in PgDocIds |->
                   put[d] + PgColl!Holds(rows')[d] - PgColl!Holds(rows)[d]]
      /\ call' = call /\ stale' = stale
  BY DEF PgColl!PurgeExpiredPg
<1>2. call[p].locks = {}
  BY <1>1 DEF PgSound, PgCallSound
<1>3. rows' \in [PgDocIds -> MaybeDocs]
  BY <1>1 DEF PgSound, MaybeDocs
<1>4. \A d \in PgDocIds : /\ PgColl!Holds(rows)[d] = PgUnits(rows[d])
                             /\ PgColl!Holds(rows')[d] = PgUnits(rows'[d])
  BY DEF PgColl!Holds, PgUnits
<1>5. \A d \in PgDocIds : PgUnits(rows[d]) \in Int /\ PgUnits(rows'[d]) \in Int
  BY <1>3, DocSets DEF PgUnits, PgSound, MaybeDocs
<1>6. \A d \in PgDocIds : put'[d] = PgUnits(rows'[d])
  BY <1>1, <1>4, <1>5 DEF PgSound
<1>7. put' \in [PgDocIds -> Int]
  <2>1. put' = [d \in PgDocIds |-> put'[d]]
    BY <1>1
  <2> QED BY <1>5, <1>6, <2>1
<1>8. \A q \in Processes \ {p}, d \in PgDocIds : d \in call[q].locks => rows'[d] = rows[d]
  BY <1>1 DEF PgColl!Locked
<1> QED BY <1>1, <1>2, <1>3, <1>6, <1>7, <1>8, PgRowsChange

LEMMA PgStales ==
    ASSUME PgColl!PgNext, stale \in BOOLEAN
    PROVE  (stale => stale') /\ stale' \in BOOLEAN
<1>1. ASSUME NEW p, NEW kind, NEW ids, NEW adds, PgColl!Begins(p, kind, ids, adds)
      PROVE stale' = stale
  BY <1>1 DEF PgColl!Begins
<1>2. ASSUME NEW p, NEW d, PgColl!Statement(p, d) PROVE (stale => stale') /\ stale' \in BOOLEAN
  <2> DEFINE moved == ~PgColl!Inserts(call[p]) /\ rows[d] # call[p].read[d]
  <2>1. stale' = (stale \/ moved)
    BY <1>2 DEF PgColl!Statement
  <2> HIDE DEF moved
  <2> QED BY <2>1
<1>3. ASSUME NEW p,
             \/ \E d : \/ PgColl!RunDeletePg(p, d) \/ PgColl!FindOneAndUpdatePg(p, d)
                       \/ PgColl!UpsertPg(p, d)
             \/ \E ids : \/ PgColl!CreateManyPg(p, ids)
                         \/ \E k : PgColl!RunUpdatePg(p, k, ids)
             \/ \E x, y : PgColl!BulkWritePg(p, x, y)
             \/ PgColl!BulkNext(p) \/ PgColl!Aborts(p) \/ PgColl!Commit(p)
             \/ PgColl!PurgeExpiredPg(p) \/ \E d : PgColl!Expires(d)
      PROVE stale' = stale
  BY <1>1, <1>3 DEF PgColl!CreateManyPg, PgColl!RunUpdatePg, PgColl!RunDeletePg,
                    PgColl!FindOneAndUpdatePg, PgColl!UpsertPg, PgColl!BulkWritePg,
                    PgColl!BulkNext, PgColl!Aborts, PgColl!Commit, PgColl!PurgeExpiredPg,
                    PgColl!Expires
<1> HIDE DEF PgColl!Statement
<1>4. CASE \E p \in Processes, d \in PgDocIds : PgColl!Statement(p, d)
  BY <1>2, <1>4
<1>5. CASE ~\E p \in Processes, d \in PgDocIds : PgColl!Statement(p, d)
  <2>1. stale' = stale
    <3>1. CASE \E d \in PgDocIds : PgColl!Expires(d)
      BY <3>1 DEF PgColl!Expires
    <3>2. CASE ~\E d \in PgDocIds : PgColl!Expires(d)
      BY <1>3, <1>5, <3>2 DEF PgColl!PgNext
    <3> QED BY <3>1, <3>2
  <2> QED BY <2>1
<1> QED BY <1>4, <1>5

LEMMA PgGoesOn == PgInv /\ [PgColl!PgNext]_<<rows, call, put, stale>> => PgInv'
<1> SUFFICES ASSUME PgInv, [PgColl!PgNext]_<<rows, call, put, stale>> PROVE PgInv'
    OBVIOUS
<1>1. CASE UNCHANGED <<rows, call, put, stale>>
  <2>1. ASSUME PgSound PROVE PgSound'
    <3>1. \A p \in Processes : PgCallSound(call'[p], rows')
      BY <1>1, <2>1 DEF PgSound
    <3>2. \A p \in Processes : PgCallSound(call[p], rows)'
      BY <3>1 DEF PgCallSound, PgAsks, PgColl!Written, PgColl!Inserts, PgCalls, PgUnits,
                  MaybeDocs, PgColl!New
    <3> QED BY <1>1, <2>1, <3>2 DEF PgSound, PgUnits, MaybeDocs
  <2> QED BY <1>1, <2>1 DEF PgInv
<1>2. CASE PgColl!PgNext
  <2>1. stale \in BOOLEAN /\ (~stale => PgSound)
    BY DEF PgInv
  <2>2. CASE UNCHANGED <<rows, call, put, stale>>
    BY <1>1, <2>2
  <2>4. CASE ~stale /\ ~stale' /\ ~UNCHANGED <<rows, call, put, stale>>
    <3>1. PgSound
      BY <2>1, <2>4
    <3>2. ASSUME NEW d \in PgDocIds, PgColl!Expires(d) PROVE PgInv'
      BY <2>4, <3>2 DEF PgColl!Expires
    <3>3. ASSUME NEW p \in Processes, NEW ids \in SUBSET PgDocIds,
                 PgColl!CreateManyPg(p, ids)
          PROVE PgInv'
      BY <2>1, <3>1, <3>3, PgInserts DEF PgColl!CreateManyPg
    <3>4. ASSUME NEW p \in Processes, NEW ids \in SUBSET PgDocIds, NEW k \in {"u", "c"},
                 PgColl!RunUpdatePg(p, k, ids)
          PROVE PgInv'
      <4>1. \A d \in ids : rows[d] # NoDoc /\ rows[d].n < MaxN
        BY <3>4 DEF PgColl!RunUpdatePg, PgColl!Having, PgColl!Present, PgColl!CanInc
      <4>2. PgColl!Begins(p, "update", ids, PgColl!ToEach(ids, 1))
        BY <3>4 DEF PgColl!RunUpdatePg
      <4> QED BY <2>1, <3>1, <4>1, <4>2, PgStartsOnRows
    <3>5. ASSUME NEW p \in Processes, NEW d \in PgDocIds, PgColl!FindOneAndUpdatePg(p, d)
          PROVE PgInv'
      <4> DEFINE ids == {d}
      <4>1. PgColl!Begins(p, "take", ids, PgColl!ToEach(ids, 0)) /\ ids \in SUBSET PgDocIds
        BY <3>5 DEF PgColl!FindOneAndUpdatePg
      <4>2. \A e \in ids : rows[e] # NoDoc
        BY <3>5 DEF PgColl!FindOneAndUpdatePg, PgColl!Present
      <4> HIDE DEF ids
      <4> QED BY <2>1, <3>1, <4>1, <4>2, PgStartsOnRows
    <3>6. ASSUME NEW p \in Processes, NEW d \in PgDocIds, PgColl!UpsertPg(p, d)
          PROVE PgInv'
      <4> DEFINE ids == {d}
      <4>1. ids \in SUBSET PgDocIds
        OBVIOUS
      <4>2. CASE PgColl!Begins(p, "seed", ids, PgColl!ToEach(ids, 1))
        <5> HIDE DEF ids
        <5> QED BY <2>1, <3>1, <4>1, <4>2, PgInserts
      <4>3. CASE /\ d \in PgColl!Having("u") /\ PgColl!CanInc({d})
                 /\ PgColl!Begins(p, "update", ids, PgColl!ToEach(ids, 1))
        <5>1. \A e \in ids : rows[e] # NoDoc /\ rows[e].n < MaxN
          BY <4>3 DEF PgColl!Having, PgColl!Present, PgColl!CanInc
        <5> HIDE DEF ids
        <5> QED BY <2>1, <3>1, <4>1, <4>3, <5>1, PgStartsOnRows
      <4> QED BY <3>6, <4>2, <4>3 DEF PgColl!UpsertPg
    <3>7. ASSUME NEW p \in Processes, PgColl!Aborts(p) PROVE PgInv'
      <4>1. /\ call' = [call EXCEPT ![p] = PgColl!None] /\ UNCHANGED <<rows, put, stale>>
            /\ PgColl!None.locks = {}
        BY <3>7 DEF PgColl!Aborts, PgColl!None
      <4> QED BY <2>1, <3>1, <4>1, PgNone, PgCallMoves
    <3> QED BY <1>2, <2>1, <2>4, <3>1, <3>2, <3>3, <3>4, <3>5, <3>6, <3>7, PgDeletes, PgStatement,
               PgBulkBegins, PgBulkNext, PgCommits, PgPurges
            DEF PgColl!PgNext
  <2>5. (stale => stale') /\ stale' \in BOOLEAN
    BY <1>2, <2>1, PgStales
  <2>7. CASE stale'
    BY <2>5, <2>7 DEF PgInv
  <2> QED BY <2>2, <2>4, <2>5, <2>7
<1> QED BY <1>1, <1>2

LEMMA PgHolds == PgInv => PgColl!PgBalance
<1> SUFFICES ASSUME PgInv, ~stale PROVE PgColl!Holds(rows) = put
    BY DEF PgColl!PgBalance
<1>1. put = [d \in PgDocIds |-> IF rows[d] = NoDoc THEN 0 ELSE rows[d].n]
  BY DEF PgInv, PgSound, PgUnits
<1> QED BY <1>1 DEF PgColl!Holds

-----------------------------------------------------------------------------
(* Keys of a cache.                                                          *)

RowOf(k) == [v : IF k \in Locks THEN Processes ELSE Nat, exp : Cache!Expiries]

CallFits(c) ==
    /\ c \in Cache!Calls /\ c.at <= now
    /\ c.row \in RowOf(c.key) \cup {NoRow}
    /\ c.op = "expire" /\ c.step = "write" => c.row # NoRow /\ c.exp # Never
    /\ c.op = "setNX" => c.key \in Locks
    /\ c.op \in {"incr", "set"} => c.key \in Counters

CacheTypes ==
    /\ now \in Nat
    /\ kvRows \in [Cache!Keys -> Cache!Rows \cup {NoRow}]
    /\ \A k \in Cache!Keys : kvRows[k] \in RowOf(k) \cup {NoRow}
    /\ kvCalls \in [Processes -> Cache!Calls \cup {NoCall}]
    /\ \A p \in Processes : kvCalls[p] = NoCall \/ CallFits(kvCalls[p])
    /\ holds \in [Locks -> SUBSET [by : Processes, exp : Cache!Expiries]]
    /\ kvTorn \in [Locks -> BOOLEAN]
    /\ counted \in [Counters -> Nat]

RowsAreHeld ==
    \A k \in Locks : kvTorn[k] \/ \A h \in Cache!Holding(k) : kvRows[k] = Cache!Row(h.by, h.exp)

CacheInv == CacheTypes /\ RowsAreHeld /\ Cache!CountsItsLife

LEMMA CacheBegins == Cache!Init => CacheInv
<1> SUFFICES ASSUME Cache!Init PROVE CacheInv
    OBVIOUS
<1> USE DEF Cache!Init
<1>1. CacheTypes
  BY DEF CacheTypes
<1>2. RowsAreHeld
  BY DEF RowsAreHeld, Cache!Holding
<1>3. Cache!CountsItsLife
  BY DEF Cache!CountsItsLife, Cache!Keys
<1> QED BY <1>1, <1>2, <1>3 DEF CacheInv

LEMMA CacheSets ==
    /\ Locks \cap Counters = {} /\ Ttls \subseteq Nat /\ Never \notin Int
    /\ NoRow \notin Cache!Rows /\ NoCall \notin Cache!Calls
    /\ Cache!Expiries = Nat \cup {Never}
    /\ Cache!Keys = Locks \cup Counters
    /\ \A k \in Cache!Keys : NoRow \notin RowOf(k) /\ RowOf(k) \subseteq Cache!Rows
BY CacheAssumption
   DEF Cache!KvAssumption, Cache!Expiries, Cache!Keys, Cache!Rows, RowOf

(* A row that a process may write for a lock, and for a counter.            *)
LEMMA NewRows ==
    /\ \A k \in Locks, p \in Processes, e \in Cache!Expiries :
          Cache!Row(p, e) \in RowOf(k) /\ Cache!Row(p, e).v = p /\ Cache!Row(p, e).exp = e
    /\ \A k \in Counters, n \in Nat, e \in Cache!Expiries :
          Cache!Row(n, e) \in RowOf(k) /\ Cache!Row(n, e).v = n /\ Cache!Row(n, e).exp = e
BY CacheSets DEF Cache!Row, RowOf

(* Who holds a lock of which torn says nothing has its row, which lives.    *)
LEMMA HeldIsLive ==
    ASSUME CacheInv, NEW k \in Locks, ~kvTorn[k], NEW h \in Cache!Holding(k)
    PROVE  /\ kvRows[k] = Cache!Row(h.by, h.exp) /\ kvRows[k].v = h.by /\ kvRows[k].exp = h.exp
           /\ kvRows[k] # NoRow /\ h \in holds[k]
           /\ \A t \in Nat : t <= now => Cache!Live(kvRows[k], t)
<1>1. /\ kvRows[k] = Cache!Row(h.by, h.exp) /\ h \in holds[k]
      /\ ~(h.exp # Never /\ h.exp <= now)
  BY DEF CacheInv, RowsAreHeld, Cache!Holding
<1>2. h.by \in Processes /\ h.exp \in Cache!Expiries
  BY <1>1 DEF CacheInv, CacheTypes
<1>3. kvRows[k].v = h.by /\ kvRows[k].exp = h.exp /\ kvRows[k] # NoRow
  <2>1. k \in Cache!Keys
    BY CacheSets
  <2>2. kvRows[k] \in RowOf(k)
    BY <1>1, <1>2, NewRows
  <2>3. kvRows[k] # NoRow
    BY <2>1, <2>2, CacheSets
  <2>4. kvRows[k].v = h.by /\ kvRows[k].exp = h.exp
    BY <1>1, <1>2, NewRows
  <2> QED BY <2>3, <2>4
<1>4. ASSUME NEW t \in Nat, t <= now PROVE ~(h.exp # Never /\ h.exp <= t)
  BY <1>1, <1>2, <1>4, CacheSets DEF CacheInv, CacheTypes
<1> QED BY <1>1, <1>3, <1>4 DEF Cache!Live

LEMMA CacheTicks == CacheInv /\ Cache!Tick => CacheInv'
<1> SUFFICES ASSUME CacheInv, Cache!Tick PROVE CacheInv'
    OBVIOUS
<1> USE DEF Cache!Tick
<1>1. CacheTypes'
  <2>1. ASSUME NEW p \in Processes PROVE kvCalls'[p] = NoCall \/ CallFits(kvCalls[p])'
    <3>1. CASE kvCalls[p] = NoCall
      BY <3>1
    <3>2. CASE CallFits(kvCalls[p])
      <4>1. kvCalls[p].at \in Nat
        BY <3>2 DEF CallFits, Cache!Calls
      <4> QED BY <3>2, <4>1 DEF CallFits, RowOf, CacheInv, CacheTypes
    <3> QED BY <3>1, <3>2 DEF CacheInv, CacheTypes
  <2>2. \A k \in Cache!Keys : kvRows'[k] \in RowOf(k)' \cup {NoRow}
    BY DEF CacheInv, CacheTypes, RowOf
  <2> QED BY <2>1, <2>2 DEF CacheInv, CacheTypes
<1>2. ASSUME NEW k \in Locks, ~kvTorn'[k], NEW h \in Cache!Holding(k)'
      PROVE kvRows'[k] = Cache!Row(h.by, h.exp)
  <2>1. h \in Cache!Holding(k)
    BY <1>2, CacheSets DEF CacheInv, CacheTypes, Cache!Holding
  <2> QED BY <1>2, <2>1, HeldIsLive
<1>3. Cache!CountsItsLife'
  BY DEF CacheInv, Cache!CountsItsLife
<1> QED BY <1>1, <1>2, <1>3 DEF CacheInv, RowsAreHeld

(* A call's row: from Idle, and back to it.                                 *)
LEMMA CallsBegin ==
    ASSUME CacheInv, NEW p \in Processes, NEW k \in Cache!Keys,
           NEW op \in {"get", "expire", "setNX", "incr", "set"}, NEW step \in {"read", "write", "sent"},
           NEW row \in RowOf(k) \cup {NoRow}, NEW exp \in Cache!Expiries,
           op = "expire" /\ step = "write" => row # NoRow /\ exp # Never,
           op = "setNX" => k \in Locks,
           op \in {"incr", "set"} => k \in Counters,
           kvCalls' = [kvCalls EXCEPT ![p] = Cache!Call(op, k, row, exp, step)],
           now' = now
    PROVE  /\ kvCalls' \in [Processes -> Cache!Calls \cup {NoCall}]
           /\ \A q \in Processes : kvCalls'[q] = NoCall \/ CallFits(kvCalls[q])'
<1> DEFINE c == Cache!Call(op, k, row, exp, step)
<1>1. row \in Cache!Rows \cup {NoRow}
  BY CacheSets
<1>2. c \in Cache!Calls
  BY <1>1, CacheSets DEF Cache!Call, Cache!Calls, CacheInv, CacheTypes
<1>3. CallFits(c)
  BY <1>2 DEF CallFits, Cache!Call, CacheInv, CacheTypes
<1>4. kvCalls \in [Processes -> Cache!Calls \cup {NoCall}]
  BY DEF CacheInv, CacheTypes
<1>5. kvCalls' \in [Processes -> Cache!Calls \cup {NoCall}]
  BY <1>2, <1>4
<1>6. ASSUME NEW q \in Processes PROVE kvCalls'[q] = NoCall \/ CallFits(kvCalls[q])'
  <2>1. kvCalls'[q] = NoCall \/ CallFits(kvCalls'[q])
    BY <1>3, <1>4 DEF CacheInv, CacheTypes
  <2> QED BY <2>1 DEF CallFits, RowOf
<1> QED BY <1>5, <1>6

LEMMA CallsEnd ==
    ASSUME CacheInv, NEW p \in Processes, now' = now,
           kvCalls' = [kvCalls EXCEPT ![p] = NoCall] \/ kvCalls' = kvCalls
    PROVE  /\ kvCalls' \in [Processes -> Cache!Calls \cup {NoCall}]
           /\ \A q \in Processes : kvCalls'[q] = NoCall \/ CallFits(kvCalls[q])'
<1>1. kvCalls \in [Processes -> Cache!Calls \cup {NoCall}]
  BY DEF CacheInv, CacheTypes
<1>2. kvCalls' \in [Processes -> Cache!Calls \cup {NoCall}]
  BY <1>1
<1>3. ASSUME NEW q \in Processes PROVE kvCalls'[q] = NoCall \/ CallFits(kvCalls[q])'
  <2>1. kvCalls'[q] = NoCall \/ CallFits(kvCalls'[q])
    BY <1>1 DEF CacheInv, CacheTypes
  <2> QED BY <2>1 DEF CallFits, RowOf
<1> QED BY <1>2, <1>3

(* A lock that a step does not change.                                      *)
LEMMA LockStays ==
    ASSUME CacheInv, now' = now, NEW k \in Locks, holds'[k] = holds[k],
           kvRows'[k] = kvRows[k], kvTorn[k] => kvTorn'[k]
    PROVE  kvTorn'[k] \/ \A h \in Cache!Holding(k)' : kvRows'[k] = Cache!Row(h.by, h.exp)
<1>1. Cache!Holding(k)' = Cache!Holding(k)
  BY DEF Cache!Holding
<1> QED BY <1>1 DEF CacheInv, RowsAreHeld

(* What is left to show of a step that leaves the clock and most keys.      *)
LEMMA CacheStays ==
    ASSUME CacheInv, now' = now,
           kvCalls' \in [Processes -> Cache!Calls \cup {NoCall}],
           \A q \in Processes : kvCalls'[q] = NoCall \/ CallFits(kvCalls[q])',
           DOMAIN kvRows' = Cache!Keys,
           \A k \in Cache!Keys : kvRows'[k] \in RowOf(k) \cup {NoRow},
           holds' \in [Locks -> SUBSET [by : Processes, exp : Cache!Expiries]],
           kvTorn' \in [Locks -> BOOLEAN],
           kvRows' = [k \in Cache!Keys |-> kvRows'[k]],
           \A k \in Locks : kvTorn'[k] \/ \A h \in Cache!Holding(k)' :
                                             kvRows'[k] = Cache!Row(h.by, h.exp),
           DOMAIN counted' = Counters, counted' = [k \in Counters |-> counted'[k]],
           \A k \in Counters : /\ counted'[k] \in Nat
                               /\ kvRows'[k] # NoRow => kvRows'[k].v = counted'[k]
    PROVE  CacheInv'
<1>1. kvRows' \in [Cache!Keys -> Cache!Rows \cup {NoRow}]
  BY CacheSets
<1>2. \A k \in Cache!Keys : kvRows'[k] \in RowOf(k)' \cup {NoRow}
  BY DEF RowOf
<1>3. counted' \in [Counters -> Nat]
  OBVIOUS
<1>4. CacheTypes'
  BY <1>1, <1>2, <1>3 DEF CacheInv, CacheTypes
<1> QED BY <1>4 DEF CacheInv, RowsAreHeld, Cache!CountsItsLife

LEMMA CacheShape ==
    ASSUME CacheInv
    PROVE  /\ now \in Nat
           /\ kvRows = [k \in Cache!Keys |-> kvRows[k]] /\ DOMAIN kvRows = Cache!Keys
           /\ \A k \in Cache!Keys : kvRows[k] \in RowOf(k) \cup {NoRow}
           /\ kvTorn \in [Locks -> BOOLEAN]
           /\ holds \in [Locks -> SUBSET [by : Processes, exp : Cache!Expiries]]
           /\ counted = [k \in Counters |-> counted[k]] /\ DOMAIN counted = Counters
           /\ \A k \in Counters : /\ counted[k] \in Nat
                                  /\ kvRows[k] # NoRow =>
                                        kvRows[k].v = counted[k] /\ kvRows[k] \in RowOf(k)
<1>1. \A k \in Counters : k \in Cache!Keys
  BY CacheSets
<1> QED BY <1>1 DEF CacheInv, CacheTypes, Cache!CountsItsLife

(* A step that changes the calls only.                                      *)
LEMMA OnlyCalls ==
    ASSUME CacheInv, now' = now,
           kvCalls' \in [Processes -> Cache!Calls \cup {NoCall}],
           \A q \in Processes : kvCalls'[q] = NoCall \/ CallFits(kvCalls[q])',
           UNCHANGED <<kvRows, holds, kvTorn, counted>>
    PROVE  CacheInv'
<1>1. \A k \in Locks : kvTorn'[k] \/ \A h \in Cache!Holding(k)' :
                                        kvRows'[k] = Cache!Row(h.by, h.exp)
  BY LockStays
<1> QED BY <1>1, CacheShape, CacheStays

LEMMA GetReadsKeeps ==
    ASSUME CacheInv, NEW p \in Processes, NEW k \in Cache!Keys, Cache!GetReads(p, k)
    PROVE  CacheInv'
<1> USE DEF Cache!GetReads
<1>1. Never \in Cache!Expiries /\ kvRows[k] \in RowOf(k) \cup {NoRow}
  BY CacheSets, CacheShape
<1>2. /\ kvCalls' \in [Processes -> Cache!Calls \cup {NoCall}]
      /\ \A q \in Processes : kvCalls'[q] = NoCall \/ CallFits(kvCalls[q])'
  BY <1>1, CallsBegin
<1> QED BY <1>2, OnlyCalls

LEMMA GetReturnsKeeps ==
    ASSUME CacheInv, NEW p \in Processes, Cache!GetReturns(p)
    PROVE  CacheInv'
BY CallsEnd, OnlyCalls DEF Cache!GetReturns

(* A call under way, of an operation at a step.                             *)
LEMMA CallUnderWay ==
    ASSUME CacheInv, NEW p \in Processes, NEW op, NEW step, Cache!At(p, op, step)
    PROVE  /\ CallFits(kvCalls[p]) /\ kvCalls[p].op = op /\ kvCalls[p].step = step
           /\ kvCalls[p].key \in Cache!Keys /\ kvCalls[p].at \in Nat /\ kvCalls[p].at <= now
           /\ kvCalls[p].exp \in Cache!Expiries
           /\ kvCalls[p].row \in RowOf(kvCalls[p].key) \cup {NoRow}
<1>1. kvCalls[p] # NoCall /\ kvCalls[p].op = op /\ kvCalls[p].step = step
  BY DEF Cache!At
<1>2. CallFits(kvCalls[p])
  BY <1>1 DEF CacheInv, CacheTypes
<1> QED BY <1>1, <1>2 DEF CallFits, Cache!Calls

(* The delete of get() hits the row that it has read and found too old, and *)
(* then nobody held the lock; or it tears.                                  *)
LEMMA GetDeletesKeeps ==
    ASSUME CacheInv, NEW p \in Processes, Cache!GetDeletes(p)
    PROVE  CacheInv'
<1> DEFINE c == kvCalls[p]
<1>1. /\ c.row # NoRow /\ ~Cache!Live(c.row, now) /\ now' = now /\ holds' = holds
      /\ kvRows' = [kvRows EXCEPT ![c.key] = NoRow]
      /\ kvCalls' = [kvCalls EXCEPT ![p] = NoCall]
      /\ Cache!Tears(c.key, kvRows[c.key] \in {c.row, NoRow})
      /\ Cache!Restarts(c.key)
      /\ c.key \in Cache!Keys
  BY CallUnderWay DEF Cache!GetDeletes
<1>2. /\ kvCalls' \in [Processes -> Cache!Calls \cup {NoCall}]
      /\ \A q \in Processes : kvCalls'[q] = NoCall \/ CallFits(kvCalls[q])'
  BY <1>1, CallsEnd
<1>3. kvTorn' \in [Locks -> BOOLEAN] /\ \A k \in Locks : kvTorn[k] => kvTorn'[k]
  BY <1>1, CacheShape DEF Cache!Tears
<1>4. ASSUME NEW k \in Locks
      PROVE kvTorn'[k] \/ \A h \in Cache!Holding(k)' : kvRows'[k] = Cache!Row(h.by, h.exp)
  <2>1. CASE k # c.key
    <3>1. k \in Cache!Keys /\ kvRows'[k] = kvRows[k]
      BY <1>1, <2>1, CacheSets, CacheShape
    <3> QED BY <1>1, <1>3, <3>1, LockStays
  <2>2. CASE k = c.key /\ ~kvTorn'[k]
    <3>1. kvRows[k] \in {c.row, NoRow}
      BY <1>1, <2>2, CacheShape DEF Cache!Tears
    <3>2. ASSUME NEW h \in Cache!Holding(k) PROVE FALSE
      <4>1. kvRows[k] # NoRow /\ Cache!Live(kvRows[k], now)
        BY <1>3, <2>2, HeldIsLive, CacheShape
      <4> QED BY <1>1, <3>1, <4>1
    <3>3. Cache!Holding(k)' = Cache!Holding(k)
      BY <1>1 DEF Cache!Holding
    <3> QED BY <3>2, <3>3
  <2> QED BY <2>1, <2>2
<1>5. /\ DOMAIN kvRows' = Cache!Keys /\ kvRows' = [k \in Cache!Keys |-> kvRows'[k]]
      /\ \A k \in Cache!Keys : /\ kvRows'[k] \in RowOf(k) \cup {NoRow}
                               /\ kvRows'[k] = IF k = c.key THEN NoRow ELSE kvRows[k]
  BY <1>1, CacheShape
<1>6. /\ DOMAIN counted' = Counters /\ counted' = [k \in Counters |-> counted'[k]]
      /\ \A k \in Counters : /\ counted'[k] \in Nat
                             /\ kvRows'[k] # NoRow => kvRows'[k].v = counted'[k]
  <2>1. \A k \in Counters : k \in Cache!Keys
    BY CacheSets
  <2> QED BY <1>1, <1>5, <2>1, CacheShape DEF Cache!Restarts
<1> QED BY <1>1, <1>2, <1>3, <1>4, <1>5, <1>6, CacheShape, CacheStays

(* A step that writes the row of one lock, and one that writes a counter.   *)
LEMMA OneLock ==
    ASSUME CacheInv, now' = now, counted' = counted, NEW k \in Locks,
           kvCalls' \in [Processes -> Cache!Calls \cup {NoCall}],
           \A q \in Processes : kvCalls'[q] = NoCall \/ CallFits(kvCalls[q])',
           kvRows' = [kvRows EXCEPT ![k] = kvRows'[k]],
           kvRows'[k] \in RowOf(k) \cup {NoRow},
           holds' = [holds EXCEPT ![k] = holds'[k]],
           holds'[k] \subseteq [by : Processes, exp : Cache!Expiries],
           kvTorn' = [kvTorn EXCEPT ![k] = kvTorn'[k]], kvTorn'[k] \in BOOLEAN,
           kvTorn'[k] \/ \A h \in holds'[k] : \/ h.exp # Never /\ h.exp <= now
                                              \/ kvRows'[k] = Cache!Row(h.by, h.exp)
    PROVE  CacheInv'
<1> DEFINE row == kvRows'[k]
           hs == holds'[k]
           torn_k == kvTorn'[k]
<1>1. k \in Cache!Keys /\ k \notin Counters
  BY CacheSets
<1>2. kvTorn' \in [Locks -> BOOLEAN] /\ kvTorn'[k] = torn_k
  BY CacheShape
<1>3. /\ holds' \in [Locks -> SUBSET [by : Processes, exp : Cache!Expiries]] /\ holds'[k] = hs
      /\ \A j \in Locks : j # k => holds'[j] = holds[j] /\ kvTorn'[j] = kvTorn[j]
  BY CacheShape
<1>4. /\ DOMAIN kvRows' = Cache!Keys /\ kvRows' = [j \in Cache!Keys |-> kvRows'[j]]
      /\ \A j \in Cache!Keys : /\ kvRows'[j] \in RowOf(j) \cup {NoRow}
                               /\ kvRows'[j] = IF j = k THEN row ELSE kvRows[j]
  BY <1>1, CacheShape
<1>5. ASSUME NEW j \in Locks
      PROVE kvTorn'[j] \/ \A h \in Cache!Holding(j)' : kvRows'[j] = Cache!Row(h.by, h.exp)
  <2>1. j \in Cache!Keys
    BY CacheSets
  <2>2. CASE j # k
    BY <1>3, <1>4, <2>1, <2>2, LockStays
  <2>3. CASE j = k
    <3>1. \A h \in Cache!Holding(k)' : h \in hs /\ ~(h.exp # Never /\ h.exp <= now)
      BY <1>3 DEF Cache!Holding
    <3> QED BY <1>2, <1>4, <2>1, <2>3, <3>1
  <2> QED BY <2>2, <2>3
<1>6. \A j \in Counters : j \in Cache!Keys /\ kvRows'[j] = kvRows[j]
  BY <1>1, <1>4, CacheSets
<1> QED BY <1>2, <1>3, <1>4, <1>5, <1>6, CacheShape, CacheStays

LEMMA OneCounter ==
    ASSUME CacheInv, now' = now, NEW k \in Counters, NEW row \in RowOf(k) \cup {NoRow},
           kvCalls' \in [Processes -> Cache!Calls \cup {NoCall}],
           \A q \in Processes : kvCalls'[q] = NoCall \/ CallFits(kvCalls[q])',
           kvRows' = [kvRows EXCEPT ![k] = row],
           UNCHANGED <<holds, kvTorn>>,
           NEW n \in Nat, counted' = [counted EXCEPT ![k] = n],
           row # NoRow => row.v = n
    PROVE  CacheInv'
<1>1. k \in Cache!Keys /\ k \notin Locks
  BY CacheSets
<1>2. /\ DOMAIN kvRows' = Cache!Keys /\ kvRows' = [j \in Cache!Keys |-> kvRows'[j]]
      /\ \A j \in Cache!Keys : /\ kvRows'[j] \in RowOf(j) \cup {NoRow}
                               /\ kvRows'[j] = IF j = k THEN row ELSE kvRows[j]
  BY <1>1, CacheShape
<1>3. ASSUME NEW j \in Locks
      PROVE kvTorn'[j] \/ \A h \in Cache!Holding(j)' : kvRows'[j] = Cache!Row(h.by, h.exp)
  <2>1. j \in Cache!Keys /\ j # k
    BY <1>1, CacheSets
  <2> QED BY <1>2, <2>1, LockStays
<1>4. /\ DOMAIN counted' = Counters /\ counted' = [j \in Counters |-> counted'[j]]
      /\ \A j \in Counters : /\ counted'[j] \in Nat
                             /\ kvRows'[j] # NoRow => kvRows'[j].v = counted'[j]
  <2>1. \A j \in Counters : j \in Cache!Keys
    BY CacheSets
  <2> QED BY <1>2, <2>1, CacheShape
<1> QED BY <1>2, <1>3, <1>4, CacheShape, CacheStays

LEMMA ExpireReadsKeeps ==
    ASSUME CacheInv, NEW p \in Processes, NEW k \in Cache!Keys, Cache!ExpireReads(p, k)
    PROVE  CacheInv'
<1> USE DEF Cache!ExpireReads
<1>1. Never \in Cache!Expiries /\ kvRows[k] \in RowOf(k) \cup {NoRow}
  BY CacheSets, CacheShape
<1>2. /\ kvCalls' \in [Processes -> Cache!Calls \cup {NoCall}]
      /\ \A q \in Processes : kvCalls'[q] = NoCall \/ CallFits(kvCalls[q])'
  BY <1>1, CallsBegin
<1> QED BY <1>2, OnlyCalls

LEMMA ExpireChecksKeeps ==
    ASSUME CacheInv, NEW p \in Processes, Cache!ExpireChecks(p)
    PROVE  CacheInv'
<1> DEFINE c == kvCalls[p]
<1>1. /\ Cache!At(p, "expire", "read") /\ now' = now
      /\ UNCHANGED <<kvRows, holds, kvTorn, counted>>
  BY DEF Cache!ExpireChecks
<1>2. CASE Cache!Live(c.row, now)
  <2>1. PICK ttl \in Ttls :
           kvCalls' = [kvCalls EXCEPT ![p] = Cache!Call("expire", c.key, c.row, now + ttl, "write")]
    BY <1>2, CacheShape DEF Cache!ExpireChecks, CacheInv, CacheTypes
  <2>2. now + ttl \in Cache!Expiries /\ now + ttl # Never /\ c.row # NoRow
    BY <1>2, CacheShape, CacheSets DEF Cache!Live
  <2>3. c.key \in Cache!Keys /\ c.row \in RowOf(c.key) \cup {NoRow}
    BY <1>1, CallUnderWay
  <2>4. /\ kvCalls' \in [Processes -> Cache!Calls \cup {NoCall}]
        /\ \A q \in Processes : kvCalls'[q] = NoCall \/ CallFits(kvCalls[q])'
    BY <1>1, <2>1, <2>2, <2>3, CallsBegin
  <2> QED BY <1>1, <2>4, OnlyCalls
<1>3. CASE ~Cache!Live(c.row, now)
  <2>1. kvCalls' = [kvCalls EXCEPT ![p] = NoCall]
    BY <1>3 DEF Cache!ExpireChecks
  <2> QED BY <1>1, <2>1, CallsEnd, OnlyCalls
<1> QED BY <1>2, <1>3

(* The update of expire() hits the row its process has, or it tears.        *)
LEMMA ExpireWritesKeeps ==
    ASSUME CacheInv, NEW p \in Processes, Cache!ExpireWrites(p)
    PROVE  CacheInv'
<1> DEFINE c == kvCalls[p]
           old == kvRows[c.key]
           row == IF old = NoRow THEN NoRow ELSE Cache!Row(old.v, c.exp)
<1>1. /\ Cache!At(p, "expire", "write") /\ now' = now /\ counted' = counted
      /\ kvRows' = [kvRows EXCEPT ![c.key] = IF @ = NoRow THEN @ ELSE Cache!Row(@.v, c.exp)]
      /\ kvCalls' = [kvCalls EXCEPT ![p] = NoCall]
      /\ Cache!Tears(c.key, old = c.row /\ c.row.v = p)
      /\ holds' = IF c.key \in Locks
                  THEN [holds EXCEPT ![c.key] =
                           {h \in @ : h.by # p} \cup {[by |-> p, exp |-> c.exp]}]
                  ELSE holds
  BY DEF Cache!ExpireWrites
<1>2. /\ c.key \in Cache!Keys /\ c.exp \in Cache!Expiries /\ CallFits(c)
      /\ c.row # NoRow /\ c.exp # Never
  BY <1>1, CallUnderWay DEF CallFits
<1>3. /\ kvCalls' \in [Processes -> Cache!Calls \cup {NoCall}]
      /\ \A q \in Processes : kvCalls'[q] = NoCall \/ CallFits(kvCalls[q])'
  BY <1>1, CallsEnd
<1>4. kvRows' = [kvRows EXCEPT ![c.key] = row] /\ old \in RowOf(c.key) \cup {NoRow}
  BY <1>1, <1>2, CacheShape
<1>5. row \in RowOf(c.key) \cup {NoRow} /\ (row # NoRow => row.v = old.v /\ old # NoRow)
  BY <1>2, <1>4 DEF Cache!Row, RowOf
<1>6. CASE c.key \in Locks
  <2> DEFINE k == c.key
             hs == {h \in holds[k] : h.by # p} \cup {[by |-> p, exp |-> c.exp]}
             t == IF old = c.row /\ c.row.v = p THEN kvTorn[k] ELSE TRUE
  <2>1. /\ holds' = [holds EXCEPT ![k] = hs]
        /\ hs \in SUBSET [by : Processes, exp : Cache!Expiries]
    BY <1>1, <1>2, <1>6, CacheShape
  <2>2. kvTorn' = [kvTorn EXCEPT ![k] = t] /\ t \in BOOLEAN
    BY <1>1, <1>6, CacheShape DEF Cache!Tears
  <2>3. ASSUME ~t, NEW h \in hs
        PROVE (h.exp # Never /\ h.exp <= now) \/ row = Cache!Row(h.by, h.exp)
    <3>1. old = c.row /\ c.row.v = p /\ ~kvTorn[k]
      BY <2>2, <2>3
    <3>2. CASE h \in holds[k] /\ h.by # p
      <4>1. CASE h \in Cache!Holding(k)
        BY <1>6, <3>1, <3>2, <4>1, HeldIsLive
      <4>2. CASE h \notin Cache!Holding(k)
        BY <3>2, <4>2 DEF Cache!Holding
      <4> QED BY <4>1, <4>2
    <3>3. CASE h = [by |-> p, exp |-> c.exp]
      BY <1>2, <3>1, <3>3
    <3> QED BY <2>3, <3>2, <3>3
  <2>4. t \/ \A h \in hs : (h.exp # Never /\ h.exp <= now) \/ row = Cache!Row(h.by, h.exp)
    BY <2>3
  <2>5. kvRows'[k] = row /\ holds'[k] = hs /\ kvTorn'[k] = t
    BY <1>2, <1>4, <1>6, <2>1, <2>2, CacheShape
  <2> HIDE DEF hs, t, row, k
  <2>6. k \in Locks /\ row \in RowOf(k) \cup {NoRow} /\ kvRows' = [kvRows EXCEPT ![k] = row]
    BY <1>4, <1>5, <1>6 DEF k
  <2> QED BY <1>1, <1>3, <2>1, <2>2, <2>4, <2>5, <2>6, OneLock
<1>7. CASE c.key \notin Locks
  <2>1. c.key \in Counters
    BY <1>2, <1>7, CacheSets
  <2>2. /\ counted' = [counted EXCEPT ![c.key] = counted[c.key]] /\ counted[c.key] \in Nat
        /\ row # NoRow => row.v = counted[c.key]
    BY <1>1, <1>5, <2>1, CacheShape
  <2>3. holds' = holds /\ kvTorn' = kvTorn
    BY <1>1, <1>7 DEF Cache!Tears
  <2> HIDE DEF row
  <2> QED BY <1>1, <1>3, <1>4, <1>5, <2>1, <2>2, <2>3, OneCounter
<1> QED BY <1>6, <1>7

(* A release of a row that is another's tears; otherwise nobody holds the   *)
(* lock any more.                                                           *)
LEMMA DeleteKeeps ==
    ASSUME CacheInv, NEW p \in Processes, NEW k \in Cache!Keys, Cache!Delete(p, k)
    PROVE  CacheInv'
<1>1. /\ now' = now /\ kvCalls' = kvCalls
      /\ kvRows' = [kvRows EXCEPT ![k] = NoRow]
      /\ Cache!Tears(k, kvRows[k] = NoRow \/ kvRows[k].v = p)
      /\ holds' = IF k \in Locks THEN [holds EXCEPT ![k] = {h \in @ : h.by # p}] ELSE holds
      /\ Cache!Restarts(k)
  BY DEF Cache!Delete
<1>2. /\ kvCalls' \in [Processes -> Cache!Calls \cup {NoCall}]
      /\ \A q \in Processes : kvCalls'[q] = NoCall \/ CallFits(kvCalls[q])'
  BY <1>1, CallsEnd
<1>3. CASE k \in Locks
  <2> DEFINE hs == {h \in holds[k] : h.by # p}
             t == IF kvRows[k] = NoRow \/ kvRows[k].v = p THEN kvTorn[k] ELSE TRUE
  <2>1. holds' = [holds EXCEPT ![k] = hs] /\ hs \in SUBSET [by : Processes, exp : Cache!Expiries]
    BY <1>1, <1>3, CacheShape
  <2>2. kvTorn' = [kvTorn EXCEPT ![k] = t] /\ t \in BOOLEAN
    BY <1>1, <1>3, CacheShape DEF Cache!Tears
  <2>3. ASSUME ~t, NEW h \in hs PROVE h.exp # Never /\ h.exp <= now
    <3>1. ~kvTorn[k] /\ (kvRows[k] = NoRow \/ kvRows[k].v = p)
      BY <2>2, <2>3
    <3>2. h \notin Cache!Holding(k)
      BY <1>3, <2>3, <3>1, HeldIsLive
    <3> QED BY <2>3, <3>2 DEF Cache!Holding
  <2> DEFINE row == NoRow
  <2>4. t \/ \A h \in hs : (h.exp # Never /\ h.exp <= now) \/ row = Cache!Row(h.by, h.exp)
    BY <2>3
  <2>5. counted' = counted /\ row \in RowOf(k) \cup {NoRow} /\ kvRows' = [kvRows EXCEPT ![k] = row]
    BY <1>1, <1>3, CacheSets DEF Cache!Restarts
  <2>6. kvRows'[k] = row /\ holds'[k] = hs /\ kvTorn'[k] = t
    BY <1>3, <2>1, <2>2, <2>5, CacheShape
  <2> HIDE DEF hs, t, row
  <2> QED BY <1>1, <1>2, <1>3, <2>1, <2>2, <2>4, <2>5, <2>6, OneLock
<1>4. CASE k \notin Locks
  <2>1. k \in Counters
    BY <1>4, CacheSets
  <2>2. holds' = holds /\ kvTorn' = kvTorn /\ counted' = [counted EXCEPT ![k] = 0]
    BY <1>1, <1>4, <2>1 DEF Cache!Tears, Cache!Restarts
  <2> QED BY <1>1, <1>2, <2>1, <2>2, OneCounter
<1> QED BY <1>3, <1>4

LEMMA FlushKeeps ==
    ASSUME CacheInv, NEW p \in Processes, Cache!Flush(p)
    PROVE  CacheInv'
<1> USE DEF Cache!Flush
<1>1. /\ kvCalls' \in [Processes -> Cache!Calls \cup {NoCall}]
      /\ \A q \in Processes : kvCalls'[q] = NoCall \/ CallFits(kvCalls[q])'
  BY CallsEnd
<1>2. \A k \in Counters : k \in Cache!Keys
  BY CacheSets
<1> QED BY <1>1, <1>2, CacheShape, CacheStays

(* The sweep leaves what lives, so every row that a holder has.             *)
LEMMA SweepKeeps ==
    ASSUME CacheInv, Cache!Sweep
    PROVE  CacheInv'
<1> USE DEF Cache!Sweep
<1>1. /\ kvCalls' \in [Processes -> Cache!Calls \cup {NoCall}]
      /\ \A q \in Processes : kvCalls'[q] = NoCall \/ CallFits(kvCalls[q])'
  <2>1. ASSUME NEW q \in Processes PROVE kvCalls'[q] = NoCall \/ CallFits(kvCalls[q])'
    BY DEF CacheInv, CacheTypes, CallFits, RowOf
  <2> QED BY <2>1 DEF CacheInv, CacheTypes
<1>2. /\ DOMAIN kvRows' = Cache!Keys /\ kvRows' = [k \in Cache!Keys |-> kvRows'[k]]
      /\ \A k \in Cache!Keys :
            /\ kvRows'[k] \in RowOf(k) \cup {NoRow}
            /\ kvRows'[k] = IF Cache!Live(kvRows[k], now) THEN kvRows[k] ELSE NoRow
  BY CacheShape
<1>3. ASSUME NEW k \in Locks
      PROVE kvTorn'[k] \/ \A h \in Cache!Holding(k)' : kvRows'[k] = Cache!Row(h.by, h.exp)
  <2>1. Cache!Holding(k)' = Cache!Holding(k) /\ k \in Cache!Keys
    BY CacheSets DEF Cache!Holding
  <2>2. ASSUME ~kvTorn[k], NEW h \in Cache!Holding(k)
        PROVE kvRows'[k] = Cache!Row(h.by, h.exp)
    BY <1>2, <2>1, <2>2, HeldIsLive, CacheShape
  <2> QED BY <2>1, <2>2
<1>4. /\ DOMAIN counted' = Counters /\ counted' = [k \in Counters |-> counted'[k]]
      /\ \A k \in Counters : /\ counted'[k] \in Nat
                             /\ kvRows'[k] # NoRow => kvRows'[k].v = counted'[k]
  <2>1. \A k \in Counters : k \in Cache!Keys
    BY CacheSets
  <2> QED BY <1>2, <2>1, CacheShape DEF Cache!Live
<1> QED BY <1>1, <1>2, <1>3, <1>4, CacheShape, CacheStays

(* setNX() on either engine: it gives the lock by a row that was dead when  *)
(* the clock was read, at or before now; then nobody holds it.              *)
LEMMA GivesLock ==
    ASSUME CacheInv, NEW p \in Processes, NEW k \in Locks, NEW exp \in Cache!Expiries,
           NEW t \in Nat, t <= now, ~Cache!Live(kvRows[k], t), now' = now, counted' = counted,
           kvCalls' \in [Processes -> Cache!Calls \cup {NoCall}],
           \A q \in Processes : kvCalls'[q] = NoCall \/ CallFits(kvCalls[q])',
           kvRows' = [kvRows EXCEPT ![k] = Cache!Row(p, exp)],
           Cache!Takes(p, k, exp)
    PROVE  CacheInv'
<1> DEFINE hs == Cache!Holding(k) \cup {[by |-> p, exp |-> exp]}
           tk == kvTorn[k] /\ Cache!Holding(k) # {}
           row == Cache!Row(p, exp)
<1>1. holds' = [holds EXCEPT ![k] = hs] /\ hs \in SUBSET [by : Processes, exp : Cache!Expiries]
  BY CacheShape DEF Cache!Takes, Cache!Holding
<1>2. kvTorn' = [kvTorn EXCEPT ![k] = tk] /\ tk \in BOOLEAN
  BY CacheShape DEF Cache!Takes
<1>3. ~kvTorn[k] => Cache!Holding(k) = {}
  BY HeldIsLive
<1>4. tk \/ \A h \in hs : (h.exp # Never /\ h.exp <= now) \/ row = Cache!Row(h.by, h.exp)
  BY <1>2, <1>3, CacheShape
<1>5. row \in RowOf(k) \cup {NoRow}
  BY NewRows
<1>6. kvRows' = [kvRows EXCEPT ![k] = row] /\ k \in Cache!Keys
  BY CacheSets
<1>7. kvRows'[k] = row /\ holds'[k] = hs /\ kvTorn'[k] = tk
  BY <1>1, <1>2, <1>6, CacheShape
<1> HIDE DEF hs, tk, row
<1> QED BY <1>1, <1>2, <1>4, <1>5, <1>6, <1>7, OneLock

LEMMA ExpiryFits ==
    ASSUME CacheInv, NEW ttl \in Ttls \cup {Never}
    PROVE  Cache!Expiry(ttl) \in Cache!Expiries
BY CacheSets, CacheShape DEF Cache!Expiry

LEMMA SetNXKeeps ==
    ASSUME CacheInv, NEW p \in Processes, NEW k \in Locks, NEW ttl \in Ttls \cup {Never},
           Cache!SetNX(p, k, ttl)
    PROVE  CacheInv'
<1> USE DEF Cache!SetNX
<1>1. /\ kvCalls' \in [Processes -> Cache!Calls \cup {NoCall}]
      /\ \A q \in Processes : kvCalls'[q] = NoCall \/ CallFits(kvCalls[q])'
  BY CallsEnd
<1>2. CASE Cache!Live(kvRows[k], now)
  BY <1>1, <1>2, OnlyCalls
<1>3. CASE ~Cache!Live(kvRows[k], now)
  BY <1>1, <1>3, GivesLock, ExpiryFits, CacheShape
<1> QED BY <1>2, <1>3

(* incr() on either engine: the row lives and has one more, or starts again.*)
LEMMA CountsOne ==
    ASSUME CacheInv, NEW k \in Counters, NEW lives \in BOOLEAN, lives => kvRows[k] # NoRow,
           now' = now, UNCHANGED <<holds, kvTorn>>,
           kvCalls' \in [Processes -> Cache!Calls \cup {NoCall}],
           \A q \in Processes : kvCalls'[q] = NoCall \/ CallFits(kvCalls[q])',
           kvRows' = [kvRows EXCEPT ![k] = IF lives THEN Cache!Row(@.v + 1, @.exp)
                                           ELSE Cache!Row(1, Never)],
           Cache!Counts(k, lives)
    PROVE  CacheInv'
<1> DEFINE row == IF lives THEN Cache!Row(kvRows[k].v + 1, kvRows[k].exp) ELSE Cache!Row(1, Never)
           n == IF lives THEN counted[k] + 1 ELSE 1
<1>1. k \in Cache!Keys /\ Never \in Cache!Expiries
  BY CacheSets
<1>2. counted[k] \in Nat /\ (lives => /\ kvRows[k] \in RowOf(k) /\ kvRows[k].v = counted[k]
                                      /\ kvRows[k].exp \in Cache!Expiries)
  BY CacheShape DEF RowOf
<1>3. row \in RowOf(k) \cup {NoRow} /\ row.v = n /\ n \in Nat
  <2>1. CASE lives
    BY <1>2, <2>1, NewRows
  <2>2. CASE ~lives
    BY <1>1, <2>2, NewRows
  <2> QED BY <2>1, <2>2
<1>4. kvRows' = [kvRows EXCEPT ![k] = row] /\ counted' = [counted EXCEPT ![k] = n]
  BY <1>1, CacheShape DEF Cache!Counts
<1> HIDE DEF row, n
<1> QED BY <1>3, <1>4, OneCounter

LEMMA IncrKeeps ==
    ASSUME CacheInv, NEW p \in Processes, NEW k \in Counters, Cache!Incr(p, k)
    PROVE  CacheInv'
<1>1. /\ kvCalls' \in [Processes -> Cache!Calls \cup {NoCall}]
      /\ \A q \in Processes : kvCalls'[q] = NoCall \/ CallFits(kvCalls[q])'
  BY CallsEnd DEF Cache!Incr
<1> DEFINE lives == Cache!Live(kvRows[k], now)
<1>2. /\ lives \in BOOLEAN /\ (lives => kvRows[k] # NoRow)
      /\ kvRows' = [kvRows EXCEPT ![k] = IF lives THEN Cache!Row(@.v + 1, @.exp)
                                         ELSE Cache!Row(1, Never)]
      /\ Cache!Counts(k, lives) /\ now' = now /\ UNCHANGED <<holds, kvTorn>>
  <2>1. k \in Cache!Keys
    BY CacheSets
  <2> QED BY <2>1, CacheShape DEF Cache!Incr, Cache!Live
<1> HIDE DEF lives
<1> QED BY <1>1, <1>2, CountsOne

LEMMA SetKeeps ==
    ASSUME CacheInv, NEW p \in Processes, NEW k \in Counters, NEW ttl \in Ttls \cup {Never},
           Cache!Set(p, k, ttl)
    PROVE  CacheInv'
<1> DEFINE row == Cache!Row(0, Cache!Expiry(ttl))
           n == 0
<1>1. /\ kvCalls' \in [Processes -> Cache!Calls \cup {NoCall}]
      /\ \A q \in Processes : kvCalls'[q] = NoCall \/ CallFits(kvCalls[q])'
  BY CallsEnd DEF Cache!Set
<1>2. row \in RowOf(k) \cup {NoRow} /\ row.v = n /\ n \in Nat
  BY NewRows, ExpiryFits
<1>3. /\ kvRows' = [kvRows EXCEPT ![k] = row] /\ counted' = [counted EXCEPT ![k] = n]
      /\ now' = now /\ UNCHANGED <<holds, kvTorn>>
  BY DEF Cache!Set, Cache!Restarts
<1> HIDE DEF row, n
<1> QED BY <1>1, <1>2, <1>3, OneCounter

----------------------------------------------------------------------------
(* The calls of pgKv().                                                     *)

LEMMA PgSendsKeeps ==
    ASSUME CacheInv, NEW p \in Processes, NEW k \in Cache!Keys, NEW ttl \in Ttls \cup {Never},
           NEW op \in {"setNX", "incr", "set"}, op = "setNX" => k \in Locks,
           op \in {"incr", "set"} => k \in Counters, Cache!PgSends(p, op, k, ttl)
    PROVE  CacheInv'
<1>1. kvCalls' = [kvCalls EXCEPT ![p] = Cache!Call(op, k, NoRow, Cache!Expiry(ttl), "sent")]
  BY DEF Cache!PgSends
<1>2. now' = now /\ UNCHANGED <<kvRows, holds, kvTorn, counted>>
  BY DEF Cache!PgSends
<1>3. /\ kvCalls' \in [Processes -> Cache!Calls \cup {NoCall}]
      /\ \A q \in Processes : kvCalls'[q] = NoCall \/ CallFits(kvCalls[q])'
  BY <1>1, <1>2, ExpiryFits, CallsBegin
<1> QED BY <1>2, <1>3, OnlyCalls

LEMMA PgSetNXKeeps ==
    ASSUME CacheInv, NEW p \in Processes, Cache!PgSetNX(p)
    PROVE  CacheInv'
<1> DEFINE c == kvCalls[p]
<1>1. /\ Cache!At(p, "setNX", "sent") /\ now' = now /\ counted' = counted
      /\ kvCalls' = [kvCalls EXCEPT ![p] = NoCall]
      /\ IF Cache!Live(kvRows[c.key], c.at)
         THEN UNCHANGED <<kvRows, holds, kvTorn>>
         ELSE /\ kvRows' = [kvRows EXCEPT ![c.key] = Cache!Row(p, c.exp)]
              /\ Cache!Takes(p, c.key, c.exp)
  BY DEF Cache!PgSetNX
<1>2. c.key \in Locks /\ c.exp \in Cache!Expiries /\ c.at \in Nat /\ c.at <= now
  BY <1>1, CallUnderWay DEF CallFits
<1>3. /\ kvCalls' \in [Processes -> Cache!Calls \cup {NoCall}]
      /\ \A q \in Processes : kvCalls'[q] = NoCall \/ CallFits(kvCalls[q])'
  BY <1>1, CallsEnd
<1> HIDE DEF c
<1>4. CASE Cache!Live(kvRows[c.key], c.at)
  BY <1>1, <1>3, <1>4, OnlyCalls
<1>5. CASE ~Cache!Live(kvRows[c.key], c.at)
  BY <1>1, <1>2, <1>3, <1>5, GivesLock
<1> QED BY <1>4, <1>5

LEMMA PgIncrKeeps ==
    ASSUME CacheInv, NEW p \in Processes, Cache!PgIncr(p)
    PROVE  CacheInv'
<1> DEFINE c == kvCalls[p]
           lives == Cache!Live(kvRows[c.key], c.at)
<1>1. Cache!At(p, "incr", "sent") /\ kvCalls' = [kvCalls EXCEPT ![p] = NoCall] /\ now' = now
  BY DEF Cache!PgIncr
<1>2. c.key \in Counters /\ c.key \in Cache!Keys
  BY <1>1, CallUnderWay DEF CallFits
<1>3. /\ kvCalls' \in [Processes -> Cache!Calls \cup {NoCall}]
      /\ \A q \in Processes : kvCalls'[q] = NoCall \/ CallFits(kvCalls[q])'
  BY <1>1, CallsEnd
<1>4. /\ lives \in BOOLEAN /\ (lives => kvRows[c.key] # NoRow)
      /\ kvRows' = [kvRows EXCEPT ![c.key] = IF lives THEN Cache!Row(@.v + 1, @.exp)
                                             ELSE Cache!Row(1, Never)]
      /\ Cache!Counts(c.key, lives) /\ UNCHANGED <<holds, kvTorn>>
  BY <1>2, CacheShape DEF Cache!PgIncr, Cache!Live
<1> HIDE DEF c, lives
<1> QED BY <1>1, <1>2, <1>3, <1>4, CountsOne

LEMMA PgSetKeeps ==
    ASSUME CacheInv, NEW p \in Processes, Cache!PgSet(p)
    PROVE  CacheInv'
<1> DEFINE c == kvCalls[p]
           row == Cache!Row(0, c.exp)
           n == 0
<1>1. Cache!At(p, "set", "sent") /\ kvCalls' = [kvCalls EXCEPT ![p] = NoCall] /\ now' = now
  BY DEF Cache!PgSet
<1>2. c.key \in Counters /\ c.exp \in Cache!Expiries
  BY <1>1, CallUnderWay DEF CallFits
<1>3. /\ kvCalls' \in [Processes -> Cache!Calls \cup {NoCall}]
      /\ \A q \in Processes : kvCalls'[q] = NoCall \/ CallFits(kvCalls[q])'
  BY <1>1, CallsEnd
<1>4. row \in RowOf(c.key) \cup {NoRow} /\ row.v = n /\ n \in Nat
  BY <1>2, NewRows
<1>5. /\ kvRows' = [kvRows EXCEPT ![c.key] = row] /\ counted' = [counted EXCEPT ![c.key] = n]
      /\ UNCHANGED <<holds, kvTorn>>
  BY <1>2 DEF Cache!PgSet, Cache!Restarts
<1> HIDE DEF c, row, n
<1> QED BY <1>1, <1>2, <1>3, <1>4, <1>5, OneCounter

LEMMA CacheGoesOn == CacheInv /\ [Cache!Next]_cacheVars => CacheInv'
<1> SUFFICES ASSUME CacheInv, [Cache!Next]_cacheVars PROVE CacheInv'
    OBVIOUS
<1>1. CASE UNCHANGED cacheVars
  <2>1. now' = now /\ kvCalls' = kvCalls /\ UNCHANGED <<kvRows, holds, kvTorn, counted>>
    BY <1>1 DEF cacheVars
  <2>2. /\ kvCalls' \in [Processes -> Cache!Calls \cup {NoCall}]
        /\ \A q \in Processes : kvCalls'[q] = NoCall \/ CallFits(kvCalls[q])'
    BY <2>1 DEF CacheInv, CacheTypes, CallFits, RowOf
  <2> QED BY <2>1, <2>2, OnlyCalls
<1>2. CASE Cache!Tick
  BY <1>2, CacheTicks
<1>3. CASE Cache!Sweep
  BY <1>3, SweepKeeps
<1>4. ASSUME NEW p \in Processes, Cache!SqliteCalls(p) PROVE CacheInv'
  <2>1. ASSUME NEW k \in Cache!Keys,
               Cache!GetReads(p, k) \/ Cache!ExpireReads(p, k) \/ Cache!Delete(p, k)
        PROVE CacheInv'
    BY <2>1, GetReadsKeeps, ExpireReadsKeeps, DeleteKeeps
  <2>2. ASSUME NEW k \in Counters, NEW ttl \in Ttls \cup {Never},
               Cache!Incr(p, k) \/ Cache!Set(p, k, ttl)
        PROVE CacheInv'
    BY <2>2, IncrKeeps, SetKeeps
  <2> QED BY <1>4, <2>1, <2>2, GetReturnsKeeps, GetDeletesKeeps, ExpireChecksKeeps,
             ExpireWritesKeeps, FlushKeeps, SetNXKeeps
          DEF Cache!SqliteCalls
<1>5. ASSUME NEW p \in Processes, Cache!PostgresCalls(p) PROVE CacheInv'
  <2>1. ASSUME NEW k \in Cache!Keys,
               Cache!GetReads(p, k) \/ Cache!ExpireReads(p, k) \/ Cache!Delete(p, k)
        PROVE CacheInv'
    BY <2>1, GetReadsKeeps, ExpireReadsKeeps, DeleteKeeps
  <2>2. ASSUME NEW k \in Counters, NEW ttl \in Ttls \cup {Never},
               Cache!PgSends(p, "incr", k, Never) \/ Cache!PgSends(p, "set", k, ttl)
        PROVE CacheInv'
    BY <2>2, PgSendsKeeps, CacheSets
  <2>3. ASSUME NEW k \in Locks, NEW ttl \in Ttls \cup {Never}, Cache!PgSends(p, "setNX", k, ttl)
        PROVE CacheInv'
    BY <2>3, PgSendsKeeps, CacheSets
  <2> QED BY <1>5, <2>1, <2>2, <2>3, GetReturnsKeeps, GetDeletesKeeps, ExpireChecksKeeps,
             ExpireWritesKeeps, FlushKeeps, PgSetNXKeeps, PgIncrKeeps, PgSetKeeps
          DEF Cache!PostgresCalls, Cache!PgGet, Cache!PgExpire
<1> QED BY <1>1, <1>2, <1>3, <1>4, <1>5 DEF Cache!Next

LEMMA CacheHolds == CacheInv => Cache!OneHolder /\ Cache!CountsItsLife
<1> SUFFICES ASSUME CacheInv, NEW k \in Locks, ~kvTorn[k],
                    NEW g \in Cache!Holding(k), NEW h \in Cache!Holding(k)
             PROVE g = h
    BY DEF Cache!OneHolder, CacheInv
<1>1. kvRows[k].v = g.by /\ kvRows[k].exp = g.exp /\ g \in holds[k]
  BY HeldIsLive
<1>2. kvRows[k].v = h.by /\ kvRows[k].exp = h.exp /\ h \in holds[k]
  BY HeldIsLive
<1>3. g \in [by : Processes, exp : Cache!Expiries] /\ h \in [by : Processes, exp : Cache!Expiries]
  BY <1>1, <1>2, CacheShape
<1>4. g = [by |-> g.by, exp |-> g.exp] /\ h = [by |-> h.by, exp |-> h.exp]
  BY <1>3
<1> QED BY <1>1, <1>2, <1>4

-----------------------------------------------------------------------------
(* Watchers on Postgres.                                                     *)

Recompute == [by : Int, read : Int]

Steps == {"off", "listens", "reads", "on", "failed", "gone"}

WatchType == [at : Steps, set : Int, stopped : BOOLEAN, held : Nat, tail : Seq(Recompute)]

(* Only the first recompute in a query's queue may have read, and what it    *)
(* has read is no older than what the query holds.                           *)
Queued(q, v) ==
    /\ q \in WatchType /\ q.held <= v
    /\ \A i \in DOMAIN q.tail :
          q.tail[i].read # -1 => i = 1 /\ q.held <= q.tail[i].read /\ q.tail[i].read <= v

(* What the query is to end with is the table as it is.                      *)
CatchesUp(q, v) ==
    IF q.tail = << >> THEN q.held = v ELSE q.tail[Len(q.tail)].read \in {-1, v}

LiveTypes ==
    /\ version \in Nat /\ sets \in Nat /\ current \in Live!Sets \cup {0}
    /\ members \in [Live!Sets -> SUBSET Processes]
    /\ conn \in [Live!Sets -> {"none", "opening", "listening", "lost", "closed"}]
    /\ notes \in [Live!Sets -> BOOLEAN]
    /\ flushes \subseteq [id : Int, todo : SUBSET Processes]
    /\ watch \in [Processes -> WatchType]
    /\ ending \in {"no", "waits", "ended"}

(* News is under way to a watcher, or it has it.                             *)
Informed(w) ==
    \/ notes[watch[w].set] \/ timer
    \/ \E fl \in flushes : w \in fl.todo
    \/ CatchesUp(watch[w], version)

Joined(w) ==
    /\ ending = "no" /\ current \in Live!Sets /\ watch[w].set = current
    /\ w \in members[current] /\ conn[current] = "listening"
    /\ Informed(w)

LiveInv ==
    /\ LiveTypes
    /\ \A w \in Processes : Queued(watch[w], version)
    /\ \A w \in Processes : watch[w].at = "listens" => watch[w].set \in Live!Sets
    /\ \A w \in Processes \ exempt :
          /\ watch[w].at = "listens" => ending = "no"
          /\ watch[w].at \in {"reads", "on"} /\ ~watch[w].stopped => Joined(w)

LEMMA LiveBegins == Live!PgLiveInit => LiveInv
<1> SUFFICES ASSUME Live!PgLiveInit PROVE LiveInv
    OBVIOUS
<1>1. Live!Idle \in WatchType /\ Live!Idle.at = "off" /\ Live!Idle.tail = << >> /\ Live!Idle.held = 0
  <2>1. << >> \in Seq(Recompute)
    OBVIOUS
  <2> QED BY <2>1 DEF Live!Idle, WatchType, Steps
<1>2. \A w \in Processes : watch[w] = Live!Idle
  BY DEF Live!PgLiveInit
<1>3. LiveTypes
  <2> USE DEF Live!PgLiveInit
  <2>1. watch \in [Processes -> WatchType]
    BY <1>1
  <2>2. conn \in [Live!Sets -> {"none", "opening", "listening", "lost", "closed"}]
    OBVIOUS
  <2>3. /\ members \in [Live!Sets -> SUBSET Processes]
        /\ notes \in [Live!Sets -> BOOLEAN]
    OBVIOUS
  <2> QED BY <2>1, <2>2, <2>3 DEF LiveTypes
<1>4. \A w \in Processes : Queued(watch[w], version)
  BY <1>1, <1>2 DEF Live!PgLiveInit, Queued
<1> QED BY <1>1, <1>2, <1>3, <1>4 DEF LiveInv

----------------------------------------------------------------------------
(* What becomes of one query.                                                *)

LEMMA AsksAgain ==
    ASSUME NEW q, NEW v \in Nat, Queued(q, v), NEW by \in Int
    PROVE  /\ Queued(Live!Asks(q, by), v) /\ CatchesUp(Live!Asks(q, by), v)
           /\ Live!Asks(q, by).at = q.at /\ Live!Asks(q, by).set = q.set
           /\ Live!Asks(q, by).stopped = q.stopped /\ Live!Asks(q, by).held = q.held
<1> DEFINE r == Live!Asks(q, by)
<1>0. Live!Ask(by) \in Recompute /\ Live!Ask(by).read = -1
  BY DEF Live!Ask, Recompute
<1>1. q \in WatchType /\ q.tail \in Seq(Recompute)
  BY DEF Queued, WatchType
<1>2. r = [q EXCEPT !.tail = Append(q.tail, Live!Ask(by))]
  BY DEF Live!Asks
<1> DEFINE t == Append(q.tail, Live!Ask(by))
<1>3. /\ t \in Seq(Recompute) /\ Len(t) = Len(q.tail) + 1 /\ Len(q.tail) \in Nat /\ t # << >>
      /\ DOMAIN t = 1..Len(t) /\ DOMAIN q.tail = 1..Len(q.tail)
      /\ t[Len(t)].read = -1
      /\ \A i \in 1..Len(q.tail) : t[i] = q.tail[i]
  BY <1>0, <1>1
<1> HIDE DEF t
<1>4. /\ r \in WatchType /\ r.tail = t /\ r.at = q.at /\ r.set = q.set
      /\ r.stopped = q.stopped /\ r.held = q.held
  BY <1>1, <1>2, <1>3 DEF WatchType, t
<1> HIDE DEF r
<1>5. Queued(r, v)
  <2>1. ASSUME NEW i \in DOMAIN t, t[i].read # -1
        PROVE i = 1 /\ q.held <= t[i].read /\ t[i].read <= v
    <3>1. i \in DOMAIN q.tail /\ t[i] = q.tail[i]
      BY <2>1, <1>3
    <3> QED BY <2>1, <3>1 DEF Queued
  <2> QED BY <1>4, <2>1 DEF Queued
<1>6. CatchesUp(r, v)
  BY <1>3, <1>4 DEF CatchesUp
<1> QED BY <1>4, <1>5, <1>6 DEF r

Entered(q, at, s) == [q EXCEPT !.at = at, !.set = s]

LEMMA Joining ==
    ASSUME NEW q, NEW v \in Nat, Queued(q, v), NEW at \in Steps, NEW s \in Int
    PROVE  /\ Queued(Entered(q, at, s), v)
           /\ Entered(q, at, s).at = at /\ Entered(q, at, s).set = s
<1> DEFINE r == Entered(q, at, s)
<1>1. q \in WatchType
  BY DEF Queued
<1>2. /\ r \in WatchType /\ r.at = at /\ r.set = s
      /\ r.held = q.held /\ r.tail = q.tail
  BY <1>1 DEF WatchType, Entered
<1> HIDE DEF r
<1>3. Queued(r, v)
  BY <1>2 DEF Queued
<1> QED BY <1>2, <1>3 DEF r

LEMMA Moving ==
    ASSUME NEW q, NEW v \in Nat, Queued(q, v), NEW at \in Steps
    PROVE  /\ Queued([q EXCEPT !.at = at], v)
           /\ [q EXCEPT !.at = at].at = at /\ [q EXCEPT !.at = at].set = q.set
           /\ [q EXCEPT !.at = at].stopped = q.stopped /\ [q EXCEPT !.at = at].held = q.held
           /\ [q EXCEPT !.at = at].tail = q.tail
<1> DEFINE r == [q EXCEPT !.at = at]
<1>1. q \in WatchType
  BY DEF Queued
<1>2. /\ r \in WatchType /\ r.at = at /\ r.set = q.set /\ r.stopped = q.stopped
      /\ r.held = q.held /\ r.tail = q.tail
  BY <1>1 DEF WatchType
<1> HIDE DEF r
<1>3. Queued(r, v)
  BY <1>2 DEF Queued
<1> QED BY <1>2, <1>3 DEF r

LEMMA StoppingOne ==
    ASSUME NEW q, NEW v \in Nat, Queued(q, v)
    PROVE  /\ Queued([q EXCEPT !.stopped = TRUE], v)
           /\ [q EXCEPT !.stopped = TRUE].at = q.at /\ [q EXCEPT !.stopped = TRUE].set = q.set
           /\ [q EXCEPT !.stopped = TRUE].stopped /\ [q EXCEPT !.stopped = TRUE].held = q.held
<1> DEFINE r == [q EXCEPT !.stopped = TRUE]
<1>1. q \in WatchType
  BY DEF Queued
<1>2. /\ r \in WatchType /\ r.at = q.at /\ r.set = q.set /\ r.stopped
      /\ r.held = q.held /\ r.tail = q.tail
  BY <1>1 DEF WatchType
<1> HIDE DEF r
<1>3. Queued(r, v)
  BY <1>2 DEF Queued
<1> QED BY <1>2, <1>3 DEF r

Delivered(q, i) ==
    [q EXCEPT !.tail = Live!RemoveAt(q.tail, i),
              !.held = IF q.stopped THEN q.held ELSE q.tail[i].read]

LEMMA Delivering ==
    ASSUME NEW q, NEW v \in Nat, Queued(q, v), NEW i \in DOMAIN q.tail, q.tail[i].read # -1
    PROVE  /\ Queued(Delivered(q, i), v) /\ Delivered(q, i).held >= q.held
           /\ (CatchesUp(q, v) /\ ~q.stopped => CatchesUp(Delivered(q, i), v))
           /\ Delivered(q, i).at = q.at /\ Delivered(q, i).set = q.set
           /\ Delivered(q, i).stopped = q.stopped
<1> DEFINE t == q.tail
           r == Delivered(q, i)
<1>1. /\ q \in WatchType /\ t \in Seq(Recompute) /\ q.held \in Nat /\ q.stopped \in BOOLEAN
      /\ q.at \in Steps /\ q.set \in Int
  BY DEF Queued, WatchType
<1>2. i = 1 /\ t[1].read \in Nat /\ q.held <= t[1].read /\ t[1].read <= v /\ q.held <= v
  <2>1. t[i] \in Recompute
    BY <1>1
  <2> QED BY <2>1, <1>1 DEF Queued, Recompute
<1> DEFINE left == Live!RemoveAt(t, i)
           front == SubSeq(t, 1, 0)
           back == SubSeq(t, 2, Len(t))
<1>3. /\ DOMAIN t = 1..Len(t) /\ Len(t) \in Nat /\ Len(t) >= 1
  BY <1>1, <1>2
<1>4. front \in Seq(Recompute) /\ Len(front) = 0
  BY <1>1
<1>5. /\ back \in Seq(Recompute) /\ Len(back) = Len(t) - 1
      /\ \A j \in 1..Len(t) - 1 : back[j] = t[j + 1]
  BY <1>1, <1>3
<1>6. left = front \o back
  BY <1>2 DEF Live!RemoveAt
<1> HIDE DEF front, back, left
<1>7. /\ left \in Seq(Recompute) /\ Len(left) = Len(t) - 1 /\ DOMAIN left = 1..Len(t) - 1
      /\ \A j \in 1..Len(t) - 1 : left[j] = t[j + 1]
  BY <1>3, <1>4, <1>5, <1>6
<1> DEFINE new == IF q.stopped THEN q.held ELSE t[i].read
<1>8. new \in Nat /\ q.held <= new /\ new <= v /\ (~q.stopped => new = t[1].read)
  BY <1>1, <1>2
<1>9. r = [q EXCEPT !.tail = left, !.held = new]
  BY DEF left, Delivered
<1> HIDE DEF new, r
<1>10. /\ r \in WatchType /\ r.tail = left /\ r.held = new
       /\ r.at = q.at /\ r.set = q.set /\ r.stopped = q.stopped
  BY <1>1, <1>7, <1>8, <1>9 DEF WatchType
<1>11. \A j \in DOMAIN left : left[j].read = -1
  BY <1>3, <1>7 DEF Queued
<1>12. Queued(r, v)
  BY <1>8, <1>10, <1>11 DEF Queued
<1>13. ASSUME CatchesUp(q, v), ~q.stopped PROVE CatchesUp(r, v)
  <2>1. CASE Len(t) = 1
    <3>1. left = << >>
      BY <2>1, <1>7
    <3>2. t[1].read = v
      BY <1>13, <1>2, <1>3, <2>1 DEF CatchesUp
    <3> QED BY <3>1, <3>2, <1>13, <1>8, <1>10 DEF CatchesUp
  <2>2. CASE Len(t) > 1
    <3>1. left # << >> /\ Len(left) \in DOMAIN left
      BY <2>2, <1>3, <1>7
    <3> QED BY <3>1, <1>10, <1>11 DEF CatchesUp
  <2>3. Len(t) = 1 \/ Len(t) > 1
    <3>1. ASSUME NEW n \in Nat, n >= 1 PROVE n = 1 \/ n > 1
      BY <3>1
    <3> HIDE DEF t
    <3> QED BY <1>3, <3>1
  <2> QED BY <2>1, <2>2, <2>3
<1> QED BY <1>8, <1>10, <1>12, <1>13 DEF r

LEMMA Reading ==
    ASSUME NEW q, NEW v \in Nat, Queued(q, v), q.tail # << >>, q.tail[1].read = -1
    PROVE  /\ Queued([q EXCEPT !.tail = [q.tail EXCEPT ![1] = [q.tail[1] EXCEPT !.read = v]]], v)
           /\ CatchesUp(q, v) => CatchesUp([q EXCEPT !.tail = [q.tail EXCEPT ![1] = [q.tail[1] EXCEPT !.read = v]]], v)
           /\ [q EXCEPT !.tail = [q.tail EXCEPT ![1] = [q.tail[1] EXCEPT !.read = v]]].at = q.at
           /\ [q EXCEPT !.tail = [q.tail EXCEPT ![1] = [q.tail[1] EXCEPT !.read = v]]].set = q.set
           /\ [q EXCEPT !.tail = [q.tail EXCEPT ![1] = [q.tail[1] EXCEPT !.read = v]]].stopped = q.stopped
           /\ [q EXCEPT !.tail = [q.tail EXCEPT ![1] = [q.tail[1] EXCEPT !.read = v]]].held = q.held
           /\ Queued([q EXCEPT !.tail = Tail(@)], v)
           /\ [q EXCEPT !.tail = Tail(@)].at = q.at
           /\ [q EXCEPT !.tail = Tail(@)].set = q.set
           /\ [q EXCEPT !.tail = Tail(@)].stopped = q.stopped
           /\ [q EXCEPT !.tail = Tail(@)].held = q.held
<1> DEFINE t == q.tail
           first == [t[1] EXCEPT !.read = v]
           read == [t EXCEPT ![1] = first]
           rest == Tail(t)
           r == [q EXCEPT !.tail = read]
           u == [q EXCEPT !.tail = rest]
<1>1. /\ q \in WatchType /\ t \in Seq(Recompute) /\ q.held \in Nat
      /\ DOMAIN t = 1..Len(t) /\ Len(t) \in Nat /\ Len(t) >= 1 /\ t[1] \in Recompute
  BY DEF Queued, WatchType
<1>2. first \in Recompute /\ first.read = v
  BY <1>1 DEF Recompute
<1>3. \A j \in 2..Len(t) : t[j].read = -1
  BY <1>1 DEF Queued
<1> HIDE DEF first
<1>4. /\ read \in Seq(Recompute) /\ Len(read) = Len(t) /\ DOMAIN read = 1..Len(t)
      /\ read[1] = first /\ \A j \in 2..Len(t) : read[j] = t[j]
  BY <1>1, <1>2
<1>5. /\ rest \in Seq(Recompute) /\ Len(rest) = Len(t) - 1 /\ DOMAIN rest = 1..Len(t) - 1
      /\ \A j \in 1..Len(t) - 1 : rest[j] = t[j + 1]
  BY <1>1
<1> HIDE DEF read, rest
<1>6. /\ r \in WatchType /\ r.tail = read /\ r.at = q.at /\ r.set = q.set
      /\ r.stopped = q.stopped /\ r.held = q.held
  BY <1>1, <1>4 DEF WatchType
<1>7. /\ u \in WatchType /\ u.tail = rest /\ u.at = q.at /\ u.set = q.set
      /\ u.stopped = q.stopped /\ u.held = q.held
  BY <1>1, <1>5 DEF WatchType
<1> HIDE DEF r, u
<1>8. Queued(r, v)
  BY <1>1, <1>2, <1>3, <1>4, <1>6 DEF Queued
<1>9. Queued(u, v)
  BY <1>1, <1>3, <1>5, <1>7 DEF Queued
<1>10. CatchesUp(r, v)
  <2>1. read # << >>
    BY <1>1, <1>4
  <2>2. read[Len(t)].read \in {-1, v}
    BY <1>1, <1>2, <1>3, <1>4
  <2> QED BY <2>1, <2>2, <1>4, <1>6 DEF CatchesUp
<1> QED BY <1>6, <1>7, <1>8, <1>9, <1>10 DEF r, u, read, rest, first

----------------------------------------------------------------------------
(* Steps that change no query.                                               *)

LEMMA Committing == LiveInv /\ Live!Commit => LiveInv'
<1> SUFFICES ASSUME LiveInv, Live!Commit PROVE LiveInv'
    OBVIOUS
<1> USE DEF Live!Commit
<1>1. LiveTypes'
  BY DEF LiveInv, LiveTypes
<1>2. ASSUME NEW w \in Processes PROVE Queued(watch'[w], version')
  <2>1. watch'[w] = watch[w] /\ watch[w].held \in Nat /\ Queued(watch[w], version)
    BY DEF LiveInv, LiveTypes, WatchType
  <2>2. watch[w].tail \in Seq(Recompute) /\ version \in Nat
    BY DEF LiveInv, LiveTypes, WatchType
  <2>3. \A i \in DOMAIN watch[w].tail : watch[w].tail[i].read \in Int
    <3>1. \A i \in DOMAIN watch[w].tail : watch[w].tail[i] \in Recompute
      BY <2>2
    <3> QED BY <3>1 DEF Recompute
  <2> QED BY <2>1, <2>2, <2>3 DEF Queued
<1>3. ASSUME NEW w \in Processes, Joined(w) PROVE Joined(w)'
  BY <1>3 DEF Joined, Informed, LiveInv, LiveTypes
<1> QED BY <1>1, <1>2, <1>3 DEF LiveInv

LEMMA Losing == ASSUME LiveInv, NEW s \in Live!Sets, Live!ConnectionLost(s) PROVE LiveInv'
<1> USE DEF Live!ConnectionLost
<1>1. LiveTypes'
  BY DEF LiveInv, LiveTypes
<1>2. ASSUME NEW w \in Processes \ exempt', Joined(w) PROVE Joined(w)'
  <2>1. watch[w].set # s
    BY <1>2
  <2> QED BY <1>2, <2>1 DEF Joined, Informed, CatchesUp, LiveInv, LiveTypes
<1> QED BY <1>1, <1>2 DEF LiveInv

LEMMA Reconnecting == ASSUME LiveInv, NEW s \in Live!Sets, Live!Reconnects(s) PROVE LiveInv'
<1> USE DEF Live!Reconnects, Live!Shared
<1>1. LiveTypes'
  BY DEF LiveInv, LiveTypes
<1>2. ASSUME NEW w \in Processes, Joined(w) PROVE Joined(w)'
  BY <1>2 DEF Joined, Informed, CatchesUp, LiveInv, LiveTypes
<1> QED BY <1>1, <1>2 DEF LiveInv

LEMMA Notifying == ASSUME LiveInv, NEW s \in Live!Sets, Live!Notified(s) PROVE LiveInv'
<1> USE DEF Live!Notified, Live!Shared
<1>1. LiveTypes'
  BY DEF LiveInv, LiveTypes
<1>2. ASSUME NEW w \in Processes, Joined(w) PROVE Joined(w)'
  BY <1>2 DEF Joined, Informed, CatchesUp, LiveInv, LiveTypes
<1> QED BY <1>1, <1>2 DEF LiveInv

LEMMA Flushing == LiveInv /\ Live!FlushStarts => LiveInv'
<1> SUFFICES ASSUME LiveInv, Live!FlushStarts PROVE LiveInv'
    OBVIOUS
<1> USE DEF Live!FlushStarts, Live!Shared
<1>1. PICK id \in 1..MaxFlushes \ {fl.id : fl \in flushes} :
         flushes' = flushes \cup
             {[id |-> id, todo |-> IF current = 0 THEN {} ELSE members[current]]}
  OBVIOUS
<1> DEFINE new == [id |-> id, todo |-> IF current = 0 THEN {} ELSE members[current]]
<1>2. new \in [id : Int, todo : SUBSET Processes]
  BY DEF LiveInv, LiveTypes
<1>3. LiveTypes'
  BY <1>1, <1>2 DEF LiveInv, LiveTypes
<1>4. ASSUME NEW w \in Processes, Joined(w) PROVE Joined(w)'
  <2>1. current # 0
    BY <1>4, WatchAssumption DEF Joined, Live!Sets, Live!PgLiveAssumption
  <2>2. w \in new.todo /\ new \in flushes'
    BY <1>1, <1>4, <2>1 DEF Joined
  <2>3. Informed(w)'
    BY <2>2 DEF Informed
  <2> QED BY <1>4, <2>3 DEF Joined
<1> QED BY <1>3, <1>4 DEF LiveInv

LEMMA Ending == LiveInv /\ Live!Ends => LiveInv'
<1> SUFFICES ASSUME LiveInv, Live!Ends PROVE LiveInv'
    OBVIOUS
<1> USE DEF Live!Ends, Live!Shared
<1>1. LiveTypes'
  BY DEF LiveInv, LiveTypes
<1>2. \A w \in Processes : ~Joined(w)
  BY DEF Joined
<1> QED BY <1>1, <1>2 DEF LiveInv

----------------------------------------------------------------------------
(* Steps of one query.                                                       *)

LEMMA OneQuery ==
    ASSUME LiveInv, NEW w \in Processes
    PROVE  /\ watch \in [Processes -> WatchType] /\ watch[w] \in WatchType
           /\ Queued(watch[w], version) /\ version \in Nat
           /\ watch[w].held \in Nat /\ watch[w].tail \in Seq(Recompute) /\ watch[w].at \in Steps
           /\ watch[w].set \in Int /\ watch[w].stopped \in BOOLEAN
BY DEF LiveInv, LiveTypes, WatchType

(* A step that changes the query of w only, and nothing that others rely on. *)
LEMMA OthersStay ==
    ASSUME LiveInv, NEW w \in Processes, NEW q, watch' = [watch EXCEPT ![w] = q],
           UNCHANGED <<version, current, members, conn, notes, timer, ending>>,
           \A v \in Processes \ {w} : \A fl \in flushes :
               v \in fl.todo => \E other \in flushes' : v \in other.todo,
           NEW v \in Processes \ {w}, Joined(v)
    PROVE  Joined(v)'
<1>1. watch'[v] = watch[v]
  BY DEF LiveInv, LiveTypes
<1>2. Informed(v)'
  <2>1. CASE \E fl \in flushes : v \in fl.todo
    BY <2>1 DEF Informed
  <2>2. CASE ~ \E fl \in flushes : v \in fl.todo
    BY <1>1, <2>2 DEF Informed, Joined
  <2> QED BY <2>1, <2>2
<1> QED BY <1>1, <1>2 DEF Joined

LEMMA ReadingHolds == ASSUME LiveInv, NEW w \in Processes, Live!Reads(w) PROVE LiveInv'
<1> USE DEF Live!Reads, Live!Shared
<1>1. /\ watch \in [Processes -> WatchType] /\ Queued(watch[w], version) /\ version \in Nat
      /\ watch[w].tail \in Seq(Recompute)
  BY OneQuery
<1>2. watch[w].tail[1].read = -1 /\ watch[w].tail # << >>
  BY <1>1
<1> DEFINE r == [watch[w] EXCEPT !.tail = [watch[w].tail EXCEPT ![1] = [watch[w].tail[1] EXCEPT !.read = version]]]
           u == [watch[w] EXCEPT !.tail = Tail(watch[w].tail)]
           q == IF watch[w].stopped THEN u ELSE r
<1>3. watch' = [watch EXCEPT ![w] = q]
  BY <1>1
<1>4. /\ Queued(r, version) /\ (CatchesUp(watch[w], version) => CatchesUp(r, version))
      /\ r.at = watch[w].at /\ r.set = watch[w].set /\ r.stopped = watch[w].stopped
      /\ Queued(u, version)
      /\ u.at = watch[w].at /\ u.set = watch[w].set /\ u.stopped = watch[w].stopped
  BY <1>1, <1>2, Reading
<1> HIDE DEF r, u
<1>5. /\ Queued(q, version) /\ q.at = watch[w].at /\ q.set = watch[w].set
      /\ q.stopped = watch[w].stopped
      /\ (CatchesUp(watch[w], version) /\ ~watch[w].stopped => CatchesUp(q, version))
  BY <1>4
<1> HIDE DEF q
<1>6. LiveTypes'
  BY <1>1, <1>3, <1>5 DEF LiveInv, LiveTypes, Queued
<1>7. \A v \in Processes : Queued(watch'[v], version')
  BY <1>1, <1>3, <1>5 DEF LiveInv
<1>8. \A v \in Processes \ {w} : Joined(v) => Joined(v)'
  BY <1>3, OthersStay
<1>9. Joined(w) /\ ~watch[w].stopped => Joined(w)'
  BY <1>1, <1>3, <1>5 DEF Joined, Informed
<1> QED BY <1>1, <1>3, <1>5, <1>6, <1>7, <1>8, <1>9 DEF LiveInv

LEMMA DeliveringHolds == ASSUME LiveInv, NEW w \in Processes, Live!Delivers(w) PROVE LiveInv'
<1> USE DEF Live!Delivers, Live!Shared
<1>1. /\ watch \in [Processes -> WatchType] /\ Queued(watch[w], version) /\ version \in Nat
  BY OneQuery
<1>2. PICK i \in DOMAIN watch[w].tail :
         /\ watch[w].tail[i].read # -1
         /\ watch' = [watch EXCEPT ![w] = [@ EXCEPT !.tail = Live!RemoveAt(watch[w].tail, i),
                !.held = IF watch[w].stopped THEN watch[w].held ELSE watch[w].tail[i].read]]
  OBVIOUS
<1> DEFINE q == Delivered(watch[w], i)
<1>3. watch' = [watch EXCEPT ![w] = q]
  BY <1>1, <1>2 DEF Delivered
<1>4. /\ Queued(q, version) /\ q.at = watch[w].at /\ q.set = watch[w].set
      /\ q.stopped = watch[w].stopped
      /\ (CatchesUp(watch[w], version) /\ ~watch[w].stopped => CatchesUp(q, version))
  BY <1>1, <1>2, Delivering
<1> HIDE DEF q
<1>5. LiveTypes'
  BY <1>1, <1>3, <1>4 DEF LiveInv, LiveTypes, Queued
<1>6. \A v \in Processes : Queued(watch'[v], version')
  BY <1>1, <1>3, <1>4 DEF LiveInv
<1>7. \A v \in Processes \ {w} : Joined(v) => Joined(v)'
  BY <1>3, OthersStay
<1>8. Joined(w) /\ ~watch[w].stopped => Joined(w)'
  BY <1>1, <1>3, <1>4 DEF Joined, Informed
<1> QED BY <1>1, <1>3, <1>4, <1>5, <1>6, <1>7, <1>8 DEF LiveInv

LEMMA FlushingHolds == ASSUME LiveInv, NEW fl \in flushes, Live!FlushGoesOn(fl) PROVE LiveInv'
<1> USE DEF Live!FlushGoesOn, Live!Shared
<1>1. fl \in [id : Int, todo : SUBSET Processes] /\ flushes \subseteq [id : Int, todo : SUBSET Processes]
  BY DEF LiveInv, LiveTypes
<1>2. CASE fl.todo = {} /\ flushes' = flushes \ {fl} /\ UNCHANGED watch
  <2>1. LiveTypes'
    BY <1>2 DEF LiveInv, LiveTypes
  <2>2. ASSUME NEW v \in Processes, Joined(v) PROVE Joined(v)'
    BY <1>2, <2>2 DEF Joined, Informed
  <2> QED BY <1>2, <2>1, <2>2 DEF LiveInv
<1>3. ASSUME NEW w \in fl.todo,
             flushes' = (flushes \ {fl}) \cup {[id |-> fl.id, todo |-> fl.todo \ {w}]},
             watch' = IF watch[w].stopped THEN watch
                      ELSE [watch EXCEPT ![w] = Live!Asks(@, fl.id)]
      PROVE LiveInv'
  <2> DEFINE next == [id |-> fl.id, todo |-> fl.todo \ {w}]
             q == IF watch[w].stopped THEN watch[w] ELSE Live!Asks(watch[w], fl.id)
  <2>1. w \in Processes /\ fl.id \in Int /\ next \in [id : Int, todo : SUBSET Processes]
        /\ next.todo = fl.todo \ {w}
    BY <1>1
  <2>2. /\ watch \in [Processes -> WatchType] /\ Queued(watch[w], version) /\ version \in Nat
        /\ watch[w].stopped \in BOOLEAN
    BY <2>1, OneQuery
  <2>3. watch' = [watch EXCEPT ![w] = q]
    BY <1>3, <2>1, <2>2
  <2>4. /\ Queued(q, version) /\ q.at = watch[w].at /\ q.set = watch[w].set
        /\ q.stopped = watch[w].stopped
        /\ (~watch[w].stopped => CatchesUp(q, version))
    BY <2>1, <2>2, AsksAgain
  <2> HIDE DEF q
  <2>5. LiveTypes'
    BY <1>1, <1>3, <2>1, <2>2, <2>3, <2>4 DEF LiveInv, LiveTypes, Queued
  <2>6. \A v \in Processes : Queued(watch'[v], version')
    BY <2>1, <2>2, <2>3, <2>4 DEF LiveInv
  <2>7. \A v \in Processes \ {w} : \A each \in flushes :
            v \in each.todo => \E other \in flushes' : v \in other.todo
    BY <1>3, <2>1
  <2>8. \A v \in Processes \ {w} : Joined(v) => Joined(v)'
    BY <2>1, <2>3, <2>7, OthersStay
  <2>9. Joined(w) /\ ~watch[w].stopped => Joined(w)'
    BY <2>1, <2>2, <2>3, <2>4 DEF Joined, Informed
  <2> QED BY <2>1, <2>2, <2>3, <2>4, <2>5, <2>6, <2>8, <2>9 DEF LiveInv
<1> QED BY <1>2, <1>3

LEMMA RegisteredHolds == ASSUME LiveInv, NEW w \in Processes, Live!Registered(w) PROVE LiveInv'
<1> USE DEF Live!Registered, Live!Shared
<1>1. /\ watch \in [Processes -> WatchType] /\ Queued(watch[w], version) /\ version \in Nat
  BY OneQuery
<1> DEFINE on == "on"
           q == [watch[w] EXCEPT !.at = on]
<1>2. watch' = [watch EXCEPT ![w] = q]
  BY <1>1
<1>3. on \in Steps
  BY DEF Steps
<1> HIDE DEF on
<1>4. /\ Queued(q, version) /\ q.at = on /\ q.set = watch[w].set /\ q.tail = watch[w].tail
      /\ q.stopped = watch[w].stopped /\ q.held = watch[w].held
  BY <1>1, <1>3, Moving
<1> HIDE DEF q
<1>5. LiveTypes'
  BY <1>1, <1>2, <1>4 DEF LiveInv, LiveTypes, Queued
<1>6. \A v \in Processes : Queued(watch'[v], version')
  BY <1>1, <1>2, <1>4 DEF LiveInv
<1>7. \A v \in Processes \ {w} : Joined(v) => Joined(v)'
  BY <1>2, OthersStay
<1>8. Joined(w) => Joined(w)'
  BY <1>1, <1>2, <1>4 DEF Joined, Informed, CatchesUp
<1> QED BY <1>1, <1>2, <1>4, <1>5, <1>6, <1>7, <1>8 DEF LiveInv, on

LEMMA Stopping == ASSUME LiveInv, NEW w \in Processes, Live!Stops(w) PROVE LiveInv'
<1> USE DEF Live!Stops, Live!Shared
<1>1. /\ watch \in [Processes -> WatchType] /\ Queued(watch[w], version) /\ version \in Nat
      /\ watch[w].at \in Steps
  BY OneQuery
<1> DEFINE q == [watch[w] EXCEPT !.stopped = TRUE]
<1>2. watch' = [watch EXCEPT ![w] = q]
  BY <1>1
<1>3. /\ Queued(q, version) /\ q.at = watch[w].at /\ q.set = watch[w].set /\ q.stopped
  BY <1>1, StoppingOne
<1> HIDE DEF q
<1>4. LiveTypes'
  BY <1>1, <1>2, <1>3 DEF LiveInv, LiveTypes, Queued
<1>5. \A v \in Processes : Queued(watch'[v], version')
  BY <1>1, <1>2, <1>3 DEF LiveInv
<1>6. \A v \in Processes \ {w} : Joined(v) => Joined(v)'
  BY <1>2, OthersStay
<1> QED BY <1>1, <1>2, <1>3, <1>4, <1>5, <1>6 DEF LiveInv

(* The query that joins the set s, to which the reactor listens.             *)
LEMMA JoiningHolds ==
    ASSUME LiveInv, NEW w \in Processes, NEW s \in Live!Sets, Live!Joins(w, s)
    PROVE  /\ members' \in [Live!Sets -> SUBSET Processes]
           /\ watch' \in [Processes -> WatchType]
           /\ \A v \in Processes : Queued(watch'[v], version)
           /\ watch'[w].at = "reads" /\ watch'[w].set = s /\ CatchesUp(watch'[w], version)
           /\ \A v \in Processes \ {w} : watch'[v] = watch[v]
           /\ \A t \in Live!Sets : members[t] \subseteq members'[t]
           /\ w \in members'[s]
<1>1. /\ watch \in [Processes -> WatchType] /\ Queued(watch[w], version) /\ version \in Nat
  BY OneQuery
<1> DEFINE reads == "reads"
           j == Entered(watch[w], reads, s)
           zero == 0
           q == Live!Asks(j, zero)
<1>2. reads \in Steps /\ s \in Int /\ zero \in Int
  BY DEF Steps, Live!Sets
<1>3. watch' = [watch EXCEPT ![w] = q]
  BY <1>1 DEF Live!Joins, Entered
<1> HIDE DEF zero, reads
<1>4. Queued(j, version) /\ j.at = reads /\ j.set = s
  BY <1>1, <1>2, Joining
<1> HIDE DEF j
<1>5. Queued(q, version) /\ CatchesUp(q, version) /\ q.at = reads /\ q.set = s
  BY <1>1, <1>2, <1>4, AsksAgain
<1> HIDE DEF q
<1>6. q \in WatchType
  BY <1>5 DEF Queued
<1>7. /\ watch' \in [Processes -> WatchType] /\ watch'[w] = q
      /\ \A v \in Processes \ {w} : watch'[v] = watch[v]
  BY <1>1, <1>3, <1>6
<1>8. \A v \in Processes : Queued(watch'[v], version)
  BY <1>5, <1>7 DEF LiveInv
<1>9. /\ members' \in [Live!Sets -> SUBSET Processes]
      /\ \A t \in Live!Sets : members[t] \subseteq members'[t]
      /\ w \in members'[s]
  BY DEF Live!Joins, LiveInv, LiveTypes
<1> QED BY <1>5, <1>7, <1>8, <1>9 DEF reads

LEMMA Registering == ASSUME LiveInv, NEW w \in Processes, Live!Registers(w) PROVE LiveInv'
<1> USE DEF Live!Registers
<1>1. CASE current # 0
  <2>1. current \in Live!Sets /\ Live!Joins(w, current)
    BY <1>1 DEF LiveInv, LiveTypes
  <2>2. /\ members' \in [Live!Sets -> SUBSET Processes]
        /\ watch' \in [Processes -> WatchType]
        /\ \A v \in Processes : Queued(watch'[v], version)
        /\ watch'[w].at = "reads" /\ watch'[w].set = current /\ CatchesUp(watch'[w], version)
        /\ \A v \in Processes \ {w} : watch'[v] = watch[v]
        /\ \A t \in Live!Sets : members[t] \subseteq members'[t]
        /\ w \in members'[current]
    BY <2>1, JoiningHolds
  <2>3. UNCHANGED <<version, current, sets, conn, notes, timer, flushes, ending>>
    BY <1>1
  <2>4. exempt' = IF conn[current] = "listening" THEN exempt ELSE exempt \cup {w}
    BY <1>1
  <2>5. ending = "no"
    OBVIOUS
  <2> HIDE DEF Live!Registers
  <2>6. LiveTypes'
    BY <2>2, <2>3 DEF LiveInv, LiveTypes, Live!Sets
  <2>7. ASSUME NEW v \in Processes \ {w}, Joined(v) PROVE Joined(v)'
    BY <2>1, <2>2, <2>3, <2>7 DEF Joined, Informed
  <2>8. w \notin exempt' => Joined(w)'
    BY <2>1, <2>2, <2>3, <2>4, <2>5 DEF Joined, Informed
  <2> QED BY <2>2, <2>3, <2>4, <2>6, <2>7, <2>8 DEF LiveInv, Live!Sets
<1>2. CASE current = 0
  <2> DEFINE q == [watch[w] EXCEPT !.at = "listens", !.set = sets + 1]
  <2>1. /\ sets < MaxSets /\ sets' = sets + 1 /\ current' = sets + 1
        /\ conn' = [conn EXCEPT ![sets + 1] = "opening"]
        /\ UNCHANGED <<members, exempt, version, notes, timer, flushes, ending>>
        /\ ending = "no"
    BY <1>2
  <2>2. /\ watch \in [Processes -> WatchType] /\ Queued(watch[w], version) /\ version \in Nat
    BY OneQuery
  <2>3. sets + 1 \in Live!Sets /\ sets \in Nat
    BY <2>1, WatchAssumption DEF Live!Sets, Live!PgLiveAssumption, LiveInv, LiveTypes
  <2>4. watch' = [watch EXCEPT ![w] = q]
    BY <1>2, <2>2
  <2> HIDE DEF Live!Registers
  <2> DEFINE listens == "listens"
             next == sets + 1
             r == Entered(watch[w], listens, next)
  <2>5. listens \in Steps /\ next \in Int
    BY <2>3 DEF Steps
  <2>6. watch' = [watch EXCEPT ![w] = r]
    BY <2>4 DEF Entered
  <2> HIDE DEF q, listens, next
  <2>7. Queued(r, version) /\ r.at = listens /\ r.set = next
    BY <2>2, <2>5, Joining
  <2> HIDE DEF r
  <2>8. r \in WatchType
    BY <2>7 DEF Queued
  <2>9. /\ watch' \in [Processes -> WatchType] /\ watch'[w] = r
        /\ \A v \in Processes \ {w} : watch'[v] = watch[v]
    BY <2>2, <2>6, <2>8
  <2>10. \A v \in Processes : Queued(watch'[v], version')
    BY <2>1, <2>7, <2>9 DEF LiveInv
  <2>11. LiveTypes'
    BY <2>1, <2>3, <2>9 DEF LiveInv, LiveTypes, Live!Sets
  <2>12. \A v \in Processes : ~Joined(v)
    BY <1>2, WatchAssumption DEF Joined, Live!Sets, Live!PgLiveAssumption
  <2>13. watch'[w].at = "listens" /\ watch'[w].set \in Live!Sets
    BY <2>3, <2>7, <2>9 DEF listens, next
  <2> QED BY <2>1, <2>9, <2>10, <2>11, <2>12, <2>13 DEF LiveInv, Live!Sets
<1> QED BY <1>1, <1>2

LEMMA Listening == ASSUME LiveInv, NEW w \in Processes, Live!Listened(w) PROVE LiveInv'
<1> DEFINE s == watch[w].set
<1>1. /\ watch[w].at = "listens" /\ Live!Joins(w, s)
      /\ UNCHANGED <<version, sets, current, notes, timer, flushes, ending>>
      /\ (current = s => conn' = [conn EXCEPT ![s] = "listening"] /\ UNCHANGED exempt)
      /\ (current # s => conn' = [conn EXCEPT ![s] = "closed"] /\ exempt' = exempt \cup {w})
  BY DEF Live!Listened, Live!Shared
<1>2. s \in Live!Sets /\ (w \notin exempt => ending = "no")
  BY <1>1 DEF LiveInv
<1> HIDE DEF s
<1>3. /\ members' \in [Live!Sets -> SUBSET Processes]
      /\ watch' \in [Processes -> WatchType]
      /\ \A v \in Processes : Queued(watch'[v], version)
      /\ watch'[w].at = "reads" /\ watch'[w].set = s /\ CatchesUp(watch'[w], version)
      /\ \A v \in Processes \ {w} : watch'[v] = watch[v]
      /\ \A t \in Live!Sets : members[t] \subseteq members'[t]
      /\ w \in members'[s]
  BY <1>1, <1>2, JoiningHolds
<1>4. LiveTypes'
  BY <1>1, <1>2, <1>3 DEF LiveInv, LiveTypes, Live!Sets
<1>5. ASSUME NEW v \in Processes \ {w}, Joined(v) PROVE Joined(v)'
  <2>1. conn'[current] = "listening"
    BY <1>1, <1>2, <1>5 DEF Joined, LiveInv, LiveTypes
  <2> QED BY <1>1, <1>3, <1>5, <2>1 DEF Joined, Informed, Live!Sets
<1>6. ASSUME w \notin exempt' PROVE Joined(w)'
  <2>1. current = s /\ ending = "no"
    BY <1>1, <1>2, <1>6
  <2>2. conn'[s] = "listening"
    BY <1>1, <1>2, <2>1 DEF LiveInv, LiveTypes
  <2>3. Informed(w)'
    BY <1>1, <1>3 DEF Informed
  <2> QED BY <1>1, <1>2, <1>3, <2>1, <2>2, <2>3 DEF Joined, Live!Sets
<1> QED BY <1>1, <1>3, <1>4, <1>5, <1>6 DEF LiveInv, Live!Sets

LEMMA NotListening == ASSUME LiveInv, NEW w \in Processes, Live!ListenFails(w) PROVE LiveInv'
<1> DEFINE s == watch[w].set
           failed == "failed"
           q == [watch[w] EXCEPT !.at = failed]
<1>1. /\ watch[w].at = "listens"
      /\ UNCHANGED <<version, sets, members, notes, timer, flushes, ending>>
      /\ conn' = [conn EXCEPT ![s] = "closed"]
      /\ current' = IF current = s /\ members[s] = {} THEN 0 ELSE current
      /\ exempt' = exempt \cup {v \in Processes : watch[v].set = s}
  BY DEF Live!ListenFails
<1>2. /\ watch \in [Processes -> WatchType] /\ Queued(watch[w], version) /\ version \in Nat
  BY OneQuery
<1>3. watch' = [watch EXCEPT ![w] = q]
  BY <1>2 DEF Live!ListenFails
<1>4. s \in Live!Sets /\ failed \in Steps
  BY <1>1 DEF LiveInv, Steps
<1> HIDE DEF failed
<1>5. Queued(q, version) /\ q.at = failed /\ q.set = s
  BY <1>2, <1>4, Moving
<1> HIDE DEF s, q
<1>6. q \in WatchType
  BY <1>5 DEF Queued
<1>7. /\ watch' \in [Processes -> WatchType] /\ watch'[w] = q
      /\ \A v \in Processes \ {w} : watch'[v] = watch[v]
  BY <1>2, <1>3, <1>6
<1>8. \A v \in Processes : Queued(watch'[v], version')
  BY <1>1, <1>5, <1>7 DEF LiveInv
<1>9. LiveTypes'
  BY <1>1, <1>4, <1>7 DEF LiveInv, LiveTypes, Live!Sets
<1>10. ASSUME NEW v \in Processes \ {w}, v \notin exempt', Joined(v) PROVE Joined(v)'
  <2>1. current # s
    BY <1>1, <1>10 DEF Joined, s
  <2>2. current' = current /\ conn'[current] = conn[current]
    BY <1>1, <1>4, <2>1, <1>10 DEF Joined, LiveInv, LiveTypes
  <2> QED BY <1>1, <1>7, <1>10, <2>2 DEF Joined, Informed, Live!Sets
<1>11. w \in exempt'
  BY <1>1 DEF s
<1>12. watch'[w].at = "failed"
  BY <1>5, <1>7 DEF failed
<1> QED BY <1>1, <1>7, <1>8, <1>9, <1>10, <1>11, <1>12 DEF LiveInv, Live!Sets

LEMMA Unregistering == ASSUME LiveInv, NEW w \in Processes, Live!Unregisters(w) PROVE LiveInv'
<1> DEFINE gone == "gone"
           q == [watch[w] EXCEPT !.at = gone]
<1>1. /\ watch[w].stopped
      /\ UNCHANGED <<version, sets, notes, timer, flushes, ending>>
      /\ exempt \subseteq exempt'
      /\ (current = 0 => UNCHANGED <<members, current, conn>>)
      /\ (current # 0 => /\ members' = [members EXCEPT ![current] = @ \ {w}]
                         /\ current' = IF members'[current] = {} THEN 0 ELSE current
                         /\ conn' = IF current' = 0 /\ unlisten # 0
                                    THEN [conn EXCEPT ![unlisten] = "closed"] ELSE conn)
  BY DEF Live!Unregisters, Live!Shared
<1>2. /\ watch \in [Processes -> WatchType] /\ Queued(watch[w], version) /\ version \in Nat
  BY OneQuery
<1>3. watch' = [watch EXCEPT ![w] = q]
  BY <1>2 DEF Live!Unregisters
<1>4. gone \in Steps
  BY DEF Steps
<1> HIDE DEF gone
<1>5. Queued(q, version) /\ q.at = gone
  BY <1>2, <1>4, Moving
<1> HIDE DEF q
<1>6. q \in WatchType
  BY <1>5 DEF Queued
<1>7. /\ watch' \in [Processes -> WatchType] /\ watch'[w] = q
      /\ \A v \in Processes \ {w} : watch'[v] = watch[v]
  BY <1>2, <1>3, <1>6
<1>8. \A v \in Processes : Queued(watch'[v], version')
  BY <1>1, <1>5, <1>7 DEF LiveInv
<1>9. current = 0 \/ current \in Live!Sets
  BY DEF LiveInv, LiveTypes
<1>10. LiveTypes'
  BY <1>1, <1>7, <1>9 DEF LiveInv, LiveTypes, Live!Sets
<1>11. ASSUME NEW v \in Processes \ {w}, Joined(v) PROVE Joined(v)'
  <2>1. current \in Live!Sets /\ current # 0
    BY <1>11, WatchAssumption DEF Joined, Live!Sets, Live!PgLiveAssumption
  <2>2. v \in members'[current]
    BY <1>1, <1>11, <2>1 DEF Joined, LiveInv, LiveTypes
  <2>3. current' = current /\ UNCHANGED conn
    BY <1>1, <2>1, <2>2
  <2> QED BY <1>1, <1>7, <1>11, <2>2, <2>3 DEF Joined, Informed, Live!Sets
<1>12. watch'[w].at = "gone"
  BY <1>5, <1>7 DEF gone
<1> QED BY <1>1, <1>7, <1>8, <1>10, <1>11, <1>12 DEF LiveInv, Live!Sets

(* When the reactor stops, no query is in a set and still to be served.      *)
LEMMA EndingBegins == LiveInv /\ Live!EndBegins => LiveInv'
<1> SUFFICES ASSUME LiveInv, Live!EndBegins PROVE LiveInv'
    OBVIOUS
<1> DEFINE Stopped(v) == [watch[v] EXCEPT !.stopped = TRUE]
           New(v) == IF current # 0 /\ v \in members[current] THEN Stopped(v) ELSE watch[v]
<1>1. /\ UNCHANGED <<version, sets, current, members, conn, notes, flushes>>
      /\ ending = "no" /\ ending' = "waits" /\ timer' = FALSE
      /\ watch' = [v \in Processes |-> New(v)]
      /\ exempt' = exempt \cup {v \in Processes : watch[v].at = "listens"}
  BY DEF Live!EndBegins, Live!Shared
<1>2. ASSUME NEW v \in Processes
      PROVE  /\ Queued(New(v), version) /\ New(v).at = watch[v].at /\ New(v).set = watch[v].set
             /\ (current # 0 /\ v \in members[current] => New(v).stopped)
             /\ (~New(v).stopped => ~watch[v].stopped)
  <2>1. /\ Queued(watch[v], version) /\ version \in Nat
    BY OneQuery
  <2>2. /\ Queued(Stopped(v), version) /\ Stopped(v).at = watch[v].at
        /\ Stopped(v).set = watch[v].set /\ Stopped(v).stopped
    BY <2>1, StoppingOne
  <2> HIDE DEF Stopped
  <2> QED BY <2>1, <2>2
<1> HIDE DEF New
<1>3. watch' \in [Processes -> WatchType] /\ \A v \in Processes : watch'[v] = New(v)
  BY <1>1, <1>2 DEF Queued
<1>4. LiveTypes'
  BY <1>1, <1>3 DEF LiveInv, LiveTypes, Live!Sets
<1>5. ASSUME NEW v \in Processes, ~watch'[v].stopped PROVE ~Joined(v) /\ ~watch[v].stopped
  <2>1. ~(current # 0 /\ v \in members[current]) /\ ~watch[v].stopped
    BY <1>2, <1>3, <1>5
  <2> QED BY <2>1, WatchAssumption DEF Joined, Live!Sets, Live!PgLiveAssumption
<1>6. \A v \in Processes : Queued(watch'[v], version') /\ watch'[v].at = watch[v].at /\ watch'[v].set = watch[v].set
  BY <1>1, <1>2, <1>3
<1> QED BY <1>1, <1>4, <1>5, <1>6 DEF LiveInv, Live!Sets

----------------------------------------------------------------------------

LEMMA LiveGoesOn == LiveInv /\ [Live!Next]_liveVars => LiveInv'
<1> SUFFICES ASSUME LiveInv, [Live!Next]_liveVars PROVE LiveInv'
    OBVIOUS
<1>1. CASE UNCHANGED liveVars
  BY <1>1 DEF liveVars, LiveInv, LiveTypes, Joined, Informed, Live!Sets
<1>2. CASE Live!Next
  BY <1>2, Committing, Flushing, EndingBegins, Ending, Losing, Reconnecting, Notifying,
     FlushingHolds, Registering, Listening, NotListening, RegisteredHolds, Stopping,
     Unregistering, ReadingHolds, DeliveringHolds DEF Live!Next
<1> QED BY <1>1, <1>2

LEMMA LiveHolds == LiveInv => Live!WatchersAreCurrent
<1> SUFFICES ASSUME LiveInv, NEW w \in Processes \ exempt, Live!Settled(w), ~watch[w].stopped
             PROVE  watch[w].held = version
    BY DEF Live!WatchersAreCurrent
<1>1. Joined(w) /\ watch[w].tail = << >>
  BY DEF LiveInv, Live!Settled
<1>2. CatchesUp(watch[w], version)
  BY <1>1 DEF Joined, Informed, Live!Settled
<1> QED BY <1>1, <1>2 DEF CatchesUp

(* No step takes a query's results back.                                     *)
LEMMA NoStepBack == LiveInv /\ [Live!Next]_liveVars => Live!Forward
<1> SUFFICES ASSUME LiveInv, [Live!Next]_liveVars, NEW w \in Processes
             PROVE  watch'[w].held >= watch[w].held
    BY DEF Live!Forward
<1>1. /\ watch \in [Processes -> WatchType] /\ Queued(watch[w], version) /\ version \in Nat
      /\ watch[w].held \in Nat
  BY OneQuery
<1>2. CASE watch' = watch
  BY <1>1, <1>2
<1>3. ASSUME NEW v \in Processes, NEW q, watch' = [watch EXCEPT ![v] = q], q.held >= watch[v].held
      PROVE  watch'[w].held >= watch[w].held
  BY <1>1, <1>3
<1>4. ASSUME NEW v \in Processes, NEW q, watch' = [watch EXCEPT ![v] = q], q.held = watch[v].held
      PROVE  watch'[w].held >= watch[w].held
  BY <1>1, <1>4
<1>5. ASSUME NEW v \in Processes
      PROVE  /\ Queued(watch[v], version) /\ version \in Nat /\ watch[v] \in WatchType
             /\ watch[v].held \in Nat
  BY OneQuery
<1>6. ASSUME NEW v \in Processes, Live!Delivers(v) PROVE watch'[w].held >= watch[w].held
  <2>1. PICK i \in DOMAIN watch[v].tail :
         /\ watch[v].tail[i].read # -1
         /\ watch' = [watch EXCEPT ![v] = [@ EXCEPT !.tail = Live!RemoveAt(watch[v].tail, i),
                !.held = IF watch[v].stopped THEN watch[v].held ELSE watch[v].tail[i].read]]
    BY <1>6 DEF Live!Delivers
  <2>2. watch' = [watch EXCEPT ![v] = Delivered(watch[v], i)]
    BY <1>1, <2>1 DEF Delivered
  <2>3. Delivered(watch[v], i).held >= watch[v].held
    BY <1>5, <2>1, Delivering
  <2> QED BY <1>3, <2>2, <2>3
<1>7. ASSUME NEW v \in Processes, Live!Reads(v) PROVE watch'[w].held >= watch[w].held
  <2>1. CASE watch[v].stopped
    <3>1. watch' = [watch EXCEPT ![v] = [watch[v] EXCEPT !.tail = Tail(watch[v].tail)]]
      BY <1>1, <1>7, <2>1 DEF Live!Reads
    <3>2. [watch[v] EXCEPT !.tail = Tail(watch[v].tail)].held = watch[v].held
      BY <1>5 DEF WatchType
    <3> QED BY <1>4, <3>1, <3>2
  <2>2. CASE ~watch[v].stopped
    <3> DEFINE r == [watch[v] EXCEPT !.tail =
                        [watch[v].tail EXCEPT ![1] = [watch[v].tail[1] EXCEPT !.read = version]]]
    <3>1. watch' = [watch EXCEPT ![v] = r]
      BY <1>1, <1>7, <2>2 DEF Live!Reads
    <3>2. r.held = watch[v].held
      BY <1>5 DEF WatchType
    <3> QED BY <1>4, <3>1, <3>2
  <2> QED BY <2>1, <2>2
<1>8. ASSUME NEW v \in Processes, NEW by \in Int
      PROVE  Live!Asks(watch[v], by).held = watch[v].held
  BY <1>5, <1>8, AsksAgain
<1>9. ASSUME NEW v \in Processes, NEW s, Live!Joins(v, s) PROVE watch'[w].held >= watch[w].held
  <2> DEFINE j == [watch[v] EXCEPT !.at = "reads", !.set = s]
  <2>1. watch' = [watch EXCEPT ![v] = Live!Asks(j, 0)]
    BY <1>1, <1>9 DEF Live!Joins
  <2>2. Live!Asks(j, 0).held = watch[v].held
    BY <1>5 DEF WatchType, Live!Asks
  <2> QED BY <1>4, <2>1, <2>2
<1>10. ASSUME NEW fl \in flushes, Live!FlushGoesOn(fl) PROVE watch'[w].held >= watch[w].held
  <2>1. CASE UNCHANGED watch
    BY <1>2, <2>1
  <2>2. ASSUME NEW v \in fl.todo, watch' = [watch EXCEPT ![v] = Live!Asks(@, fl.id)]
        PROVE  watch'[w].held >= watch[w].held
    <3>1. v \in Processes /\ fl.id \in Int
      BY DEF LiveInv, LiveTypes
    <3>2. watch' = [watch EXCEPT ![v] = Live!Asks(watch[v], fl.id)]
      BY <2>2
    <3> QED BY <1>4, <1>8, <3>1, <3>2
  <2> QED BY <1>10, <2>1, <2>2 DEF Live!FlushGoesOn
<1>11. ASSUME NEW v \in Processes, NEW at, watch' = [watch EXCEPT ![v].at = at]
       PROVE  watch'[w].held >= watch[w].held
  <2>1. [watch[v] EXCEPT !.at = at].held = watch[v].held
    BY <1>5 DEF WatchType
  <2>2. watch' = [watch EXCEPT ![v] = [watch[v] EXCEPT !.at = at]]
    BY <1>11
  <2> QED BY <1>4, <2>1, <2>2
<1>12. ASSUME NEW v \in Processes, Live!Stops(v) PROVE watch'[w].held >= watch[w].held
  <2>1. [watch[v] EXCEPT !.stopped = TRUE].held = watch[v].held
    BY <1>5 DEF WatchType
  <2>2. watch' = [watch EXCEPT ![v] = [watch[v] EXCEPT !.stopped = TRUE]]
    BY <1>12 DEF Live!Stops
  <2> QED BY <1>4, <2>1, <2>2
<1>13. ASSUME NEW v \in Processes, Live!Registers(v) PROVE watch'[w].held >= watch[w].held
  <2>1. CASE current # 0
    BY <1>9, <1>13, <2>1 DEF Live!Registers
  <2>2. CASE current = 0
    <3>1. watch' = [watch EXCEPT ![v].at = "listens", ![v].set = sets + 1]
      BY <1>13, <2>2 DEF Live!Registers
    <3>2. watch' = [watch EXCEPT ![v] = [watch[v] EXCEPT !.at = "listens", !.set = sets + 1]]
      BY <1>1, <3>1
    <3>3. [watch[v] EXCEPT !.at = "listens", !.set = sets + 1].held = watch[v].held
      BY <1>5 DEF WatchType
    <3> QED BY <1>4, <3>2, <3>3
  <2> QED BY <2>1, <2>2
<1>14. ASSUME Live!EndBegins PROVE watch'[w].held >= watch[w].held
  <2>1. watch'[w] = watch[w] \/ watch'[w] = [watch[w] EXCEPT !.stopped = TRUE]
    BY <1>14 DEF Live!EndBegins
  <2>2. [watch[w] EXCEPT !.stopped = TRUE].held = watch[w].held
    BY <1>5 DEF WatchType
  <2>3. watch'[w].held = watch[w].held
    BY <2>1, <2>2
  <2> QED BY <1>1, <2>3
<1>15. CASE UNCHANGED liveVars
  BY <1>2, <1>15 DEF liveVars
<1>16. CASE Live!Commit \/ Live!FlushStarts \/ Live!Ends
  BY <1>2, <1>16 DEF Live!Commit, Live!FlushStarts, Live!Ends
<1>17. ASSUME NEW s \in Live!Sets, Live!ConnectionLost(s) \/ Live!Reconnects(s) \/ Live!Notified(s)
       PROVE  watch'[w].held >= watch[w].held
  BY <1>2, <1>17 DEF Live!ConnectionLost, Live!Reconnects, Live!Notified
<1>18. ASSUME NEW v \in Processes,
              Live!Listened(v) \/ Live!ListenFails(v) \/ Live!Registered(v) \/ Live!Unregisters(v)
       PROVE  watch'[w].held >= watch[w].held
  <2>1. CASE Live!Listened(v)
    BY <1>9, <2>1 DEF Live!Listened
  <2>2. CASE Live!ListenFails(v)
    BY <1>11, <2>2 DEF Live!ListenFails
  <2>3. CASE Live!Registered(v)
    BY <1>11, <2>3 DEF Live!Registered
  <2>4. CASE Live!Unregisters(v)
    BY <1>11, <2>4 DEF Live!Unregisters
  <2> QED BY <1>18, <2>1, <2>2, <2>3, <2>4
<1> QED BY <1>6, <1>7, <1>10, <1>12, <1>13, <1>14, <1>15, <1>16, <1>17, <1>18 DEF Live!Next

-----------------------------------------------------------------------------
(* Channels on Postgres.                                                     *)

LEMMA LeastNumber ==
    ASSUME NEW S, S \subseteq Nat, S # {}
    PROVE  \E m \in S : \A x \in S : m <= x
<1>1. PICK m \in S : \A x \in S : ~(<<x, m>> \in OpToRel(<, Nat))
  BY NatLessThanWellFounded, WFMin
<1>2. \A x \in S : ~(x < m)
  BY <1>1 DEF OpToRel
<1> QED
  BY <1>2

LEMMA GreatestNumber ==
    ASSUME NEW S, S \subseteq Nat, S # {}, NEW b \in Nat, \A x \in S : x <= b
    PROVE  Channel!Max(S) \in S /\ \A x \in S : x <= Channel!Max(S)
<1> DEFINE T == {b - x : x \in S}
<1>1. T \subseteq Nat /\ T # {}
  <2>1. \A x \in S : b - x \in Nat
    OBVIOUS
  <2> QED BY <2>1
<1>2. PICK t \in T : \A y \in T : t <= y
  BY <1>1, LeastNumber
<1>3. PICK m \in S : t = b - m
  BY <1>2
<1>4. \A x \in S : m >= x
  <2> SUFFICES ASSUME NEW x \in S PROVE m >= x
    OBVIOUS
  <2>1. t <= b - x
    BY <1>2
  <2> QED BY <1>3, <2>1
<1> QED BY <1>4 DEF Channel!Max

Increasing(s) == \A i, j \in DOMAIN s : i < j => s[i] < s[j]

Sorted(set) == \E order \in [1..Cardinality(set) -> set] : Increasing(order)

(* Every finite set of numbers has an order.                                 *)
LEMMA SetsAreSorted ==
    ASSUME NEW n \in Nat, NEW set \in SUBSET (1..n)
    PROVE  Sorted(set) /\ Cardinality(set) \in Nat
<1> DEFINE Bad == {m \in Nat : \E S \in SUBSET (1..m) : ~Sorted(S)}
<1>1. Bad = {}
  <2> SUFFICES ASSUME Bad # {} PROVE FALSE
    OBVIOUS
  <2>1. Bad \subseteq Nat
    OBVIOUS
  <2> HIDE DEF Bad
  <2>2. PICK m \in Bad : \A k \in Bad : m <= k
    BY <2>1, LeastNumber
  <2>8. \A k \in Nat : k < m => k \notin Bad
    BY <2>1, <2>2
  <2> USE DEF Bad
  <2>3. PICK S \in SUBSET (1..m) : ~Sorted(S)
    BY <2>2
  <2>4. m \in Nat
    BY <2>1, <2>2
  <2>5. CASE m \in S
    <3> DEFINE k == m - 1
               R == S \ {m}
    <3>1. k \in Nat /\ k < m
      BY <2>4, <2>5
    <3>2. R \in SUBSET (1..k)
      BY <2>3, <2>4
    <3>3. Sorted(R)
      <4>1. k \notin Bad
        BY <2>8, <3>1
      <4> QED BY <3>1, <3>2, <4>1
    <3>4. IsFiniteSet(S) /\ IsFiniteSet(R) /\ Cardinality(R) \in Nat
          /\ Cardinality(S) = Cardinality(R) + 1
      <4>1. IsFiniteSet(1..m)
        BY <2>4, FS_Interval
      <4>2. IsFiniteSet(S)
        BY <4>1, <2>3, FS_Subset
      <4>3. IsFiniteSet(R) /\ Cardinality(R) = Cardinality(S) - 1 /\ Cardinality(S) \in Nat
        BY <4>2, <2>5, FS_RemoveElement, FS_CardinalityType
      <4>4. Cardinality(R) \in Nat
        BY <4>3, FS_CardinalityType
      <4> QED BY <4>2, <4>3, <4>4
    <3> DEFINE c == Cardinality(R)
    <3>5. PICK order \in [1..c -> R] : Increasing(order)
      BY <3>3 DEF Sorted
    <3> HIDE DEF c
    <3> DEFINE more == [i \in 1..(c + 1) |-> IF i = c + 1 THEN m ELSE order[i]]
    <3>6. c \in Nat /\ Cardinality(S) = c + 1
      BY <3>4 DEF c
    <3>7. more \in [1..(c + 1) -> S]
      BY <2>5, <3>5, <3>6
    <3>8. Increasing(more)
      <4>0. \A x \in R : x < m
        BY <3>1, <3>2, <2>4
      <4>1. \A i \in 1..c : order[i] \in R /\ order[i] < m
        <5> HIDE DEF R
        <5> QED BY <3>5, <4>0
      <4>2. ASSUME NEW i \in 1..(c + 1), NEW j \in 1..(c + 1), i < j PROVE more[i] < more[j]
        <5>1. i \in 1..c /\ more[i] = order[i]
          BY <4>2, <3>6
        <5>2. CASE j = c + 1
          BY <4>1, <5>1, <5>2
        <5>3. CASE j # c + 1
          BY <3>5, <3>6, <4>2, <5>1, <5>3 DEF Increasing
        <5> QED BY <5>2, <5>3
      <4> QED BY <4>2 DEF Increasing
    <3> HIDE DEF more
    <3> QED BY <2>3, <3>6, <3>7, <3>8 DEF Sorted
  <2>6. CASE m \notin S /\ m # 0
    <3> DEFINE k == m - 1
    <3>1. k \in Nat /\ k < m /\ S \in SUBSET (1..k)
      BY <2>3, <2>4, <2>6
    <3>2. k \notin Bad
      BY <2>8, <3>1
    <3> QED BY <2>3, <3>1, <3>2
  <2>7. CASE m = 0
    <3>1. S = {}
      BY <2>3, <2>7
    <3>2. Cardinality(S) = 0
      BY <3>1, FS_EmptySet
    <3> DEFINE none == [i \in 1..0 |-> i]
    <3>3. none \in [1..Cardinality(S) -> S] /\ Increasing(none)
      BY <3>2 DEF Increasing
    <3> QED BY <2>3, <3>3 DEF Sorted
  <2> QED BY <2>5, <2>6, <2>7
<1>2. IsFiniteSet(set)
  <2>1. IsFiniteSet(1..n)
    BY FS_Interval
  <2> QED BY <2>1, FS_Subset
<1>3. Cardinality(set) \in Nat
  BY <1>2, FS_CardinalityType
<1> QED BY <1>1, <1>3

LEMMA SameCount == ASSUME NEW S PROVE Channel!Cardinality(S) = Cardinality(S)
BY DEF Channel!Cardinality, Cardinality

LEMMA OrderedRows ==
    ASSUME NEW n \in Nat, NEW set \in SUBSET (1..n)
    PROVE  /\ Channel!InOrder(set) \in Seq(set) /\ Increasing(Channel!InOrder(set))
           /\ \A i \in DOMAIN Channel!InOrder(set) : Channel!InOrder(set)[i] \in set
<1> DEFINE c == Cardinality(set)
<1>1. Sorted(set) /\ c \in Nat
  BY SetsAreSorted
<1> HIDE DEF c
<1>2. Channel!InOrder(set) \in [1..c -> set] /\ Increasing(Channel!InOrder(set))
  BY <1>1, SameCount DEF Channel!InOrder, Sorted, Increasing, c
<1>3. Channel!InOrder(set) \in Seq(set)
  BY <1>1, <1>2
<1> QED BY <1>2, <1>3

----------------------------------------------------------------------------

LogRows == [channel : Channels, ts : Nat, state : {"open", "kept", "pruned"},
            by : Processes, drained : BOOLEAN]

Fetched(d) == d.rows \subseteq DOMAIN log /\ (d.here => d.rows # {})

ChannelTypes ==
    /\ log \in Seq(LogRows) /\ Len(log) <= MaxMessages
    /\ logClock \in Nat
    /\ subs \in [Processes -> Seq(Subscribers)]
    /\ cursor \in [Subscribers -> Nat]
    /\ since \in [Subscribers -> SUBSET Nat]
    /\ delivered \in [Subscribers -> Seq(Nat)]
    /\ asked \in [Subscribers -> [state : {"none", "asked", "read", "done"}, high : Nat]]
    /\ drains = [p \in Processes |-> drains[p]]
    /\ \A p \in Processes : \A d \in drains[p] : Fetched(d)

(* Rows are numbered in time, and a row that is not open is followed by one  *)
(* that is kept, or is one.                                                  *)
LogInTime ==
    /\ \A n \in DOMAIN log : log[n].ts <= logClock
    /\ \A m, n \in DOMAIN log : m < n => log[m].ts <= log[n].ts
    /\ \A n \in DOMAIN log : log[n].state = "pruned" => log[n].ts < logClock - KeepFor
    /\ \A n \in DOMAIN log : log[n].state = "pruned" =>
          \E m \in DOMAIN log : m > n /\ log[m].state = "kept"

(* What a subscriber has heard lies between the number that it started from  *)
(* and its cursor, which is Infinite until that number is known.             *)
Hearing(s) ==
    /\ asked[s].state # "done" => delivered[s] = << >>
    /\ asked[s].state \in {"asked", "read"} => cursor[s] = Infinite
    /\ asked[s].state \in {"read", "done"} => \A n \in since[s] : n <= asked[s].high
    /\ asked[s].state = "done" => asked[s].high <= cursor[s]
    /\ \A i \in DOMAIN delivered[s] :
          /\ asked[s].high < delivered[s][i] /\ delivered[s][i] <= cursor[s]
          /\ delivered[s][i] \in DOMAIN log
          /\ log[delivered[s][i]].channel = ChannelOf[s]
    /\ Increasing(delivered[s])

ChannelInv ==
    /\ ChannelTypes /\ LogInTime
    /\ \A s \in Subscribers : Hearing(s)
    /\ \A p \in Processes : \A i \in DOMAIN subs[p] : asked[subs[p][i]].state # "none"

LEMMA ChannelBegins == Channel!Init => ChannelInv
<1> SUFFICES ASSUME Channel!Init PROVE ChannelInv
    OBVIOUS
<1> USE DEF Channel!Init, Channel!LogInit
<1>1. << >> \in Seq(LogRows) /\ << >> \in Seq(Subscribers) /\ << >> \in Seq(Nat)
      /\ Len(<< >>) = 0 /\ DOMAIN << >> = {}
  OBVIOUS
<1>2. asked \in [Subscribers -> [state : {"none", "asked", "read", "done"}, high : Nat]]
      /\ \A s \in Subscribers : asked[s].state = "none"
  BY DEF Channel!NotAsked
<1>3. ChannelTypes
  BY <1>1, <1>2, ChannelAssumption DEF ChannelTypes, Fetched, Channel!PgKvAssumption
<1>4. LogInTime
  BY <1>1 DEF LogInTime
<1>5. \A s \in Subscribers : Hearing(s)
  BY <1>1, <1>2 DEF Hearing, Increasing
<1>6. \A p \in Processes : DOMAIN subs[p] = {}
  BY <1>1
<1> QED BY <1>3, <1>4, <1>5, <1>6 DEF ChannelInv

LEMMA ChannelHolds == ChannelInv => Channel!OnceInOrder
<1> SUFFICES ASSUME ChannelInv, NEW s \in Subscribers
             PROVE  /\ \A i \in DOMAIN delivered[s] : /\ delivered[s][i] \notin since[s]
                                                      /\ log[delivered[s][i]].channel = ChannelOf[s]
                    /\ \A i, j \in DOMAIN delivered[s] : i < j => delivered[s][i] < delivered[s][j]
    BY DEF Channel!OnceInOrder
<1>1. Hearing(s)
  BY DEF ChannelInv
<1>2. \A i, j \in DOMAIN delivered[s] : i < j => delivered[s][i] < delivered[s][j]
  BY <1>1 DEF Hearing, Increasing
<1>3. ASSUME NEW i \in DOMAIN delivered[s] PROVE delivered[s][i] \notin since[s]
  <2>1. asked[s].state = "done"
    BY <1>1, <1>3 DEF Hearing
  <2>2. delivered[s][i] \in Nat /\ asked[s].high \in Nat
    BY DEF ChannelInv, ChannelTypes
  <2>3. asked[s].high < delivered[s][i] /\ \A n \in since[s] : n <= asked[s].high
    BY <1>1, <2>1 DEF Hearing
  <2>4. since[s] \subseteq Nat
    BY DEF ChannelInv, ChannelTypes
  <2> QED BY <2>2, <2>3, <2>4
<1> QED BY <1>1, <1>2, <1>3 DEF Hearing

----------------------------------------------------------------------------
(* Steps of the log.                                                         *)

LEMMA OneLog ==
    ASSUME ChannelInv
    PROVE  /\ log \in Seq(LogRows) /\ Len(log) \in Nat /\ DOMAIN log = 1..Len(log)
           /\ Len(log) <= MaxMessages /\ logClock \in Nat
           /\ MaxMessages \in Nat /\ Infinite \in Nat /\ Infinite > MaxMessages /\ KeepFor \in Nat
           /\ \A n \in DOMAIN log : /\ log[n] \in LogRows /\ log[n].ts \in Nat
                                     /\ log[n].state \in {"open", "kept", "pruned"}
<1>1. log \in Seq(LogRows) /\ Len(log) \in Nat /\ DOMAIN log = 1..Len(log)
      /\ Len(log) <= MaxMessages /\ logClock \in Nat
  BY DEF ChannelInv, ChannelTypes
<1>2. \A n \in DOMAIN log : log[n] \in LogRows
  BY <1>1
<1>3. \A n \in DOMAIN log : log[n].ts \in Nat /\ log[n].state \in {"open", "kept", "pruned"}
  BY <1>2 DEF LogRows
<1> QED BY <1>1, <1>2, <1>3, ChannelAssumption DEF Channel!PgKvAssumption

(* Subscribers hear nothing by a step that keeps the rows and their channels. *)
LEMMA DrainingStep ==
    ASSUME ChannelInv, log' \in Seq(LogRows), Len(log') <= MaxMessages, logClock' \in Nat,
           UNCHANGED <<subs, cursor, since, delivered, asked>>,
           DOMAIN log \subseteq DOMAIN log',
           \A n \in DOMAIN log : log'[n].channel = log[n].channel, LogInTime',
           drains' = [p \in Processes |-> drains'[p]],
           \A p \in Processes : \A d \in drains'[p] : Fetched(d)'
    PROVE  ChannelInv'
<1>1. ChannelTypes'
  BY DEF ChannelInv, ChannelTypes
<1>2. ASSUME NEW s \in Subscribers PROVE Hearing(s)'
  BY DEF ChannelInv, Hearing, Increasing
<1> QED BY <1>1, <1>2 DEF ChannelInv

LEMMA DeafStep ==
    ASSUME ChannelInv, log' \in Seq(LogRows), Len(log') <= MaxMessages, logClock' \in Nat,
           UNCHANGED <<subs, cursor, since, delivered, asked, drains>>,
           DOMAIN log \subseteq DOMAIN log',
           \A n \in DOMAIN log : log'[n].channel = log[n].channel, LogInTime'
    PROVE  ChannelInv'
<1>1. drains' = [p \in Processes |-> drains'[p]]
  BY DEF ChannelInv, ChannelTypes
<1>2. \A p \in Processes : \A d \in drains'[p] : Fetched(d)'
  BY DEF ChannelInv, ChannelTypes, Fetched
<1> QED BY <1>1, <1>2, DrainingStep

LEMMA Inserting ==
    ASSUME ChannelInv, NEW p \in Processes, NEW ch \in Channels, Channel!Insert(p, ch)
    PROVE  ChannelInv'
<1> DEFINE row == [channel |-> ch, ts |-> logClock, state |-> "open", by |-> p, drained |-> FALSE]
<1>1. /\ Len(log) < MaxMessages /\ log' = Append(log, row)
      /\ UNCHANGED <<subs, cursor, since, delivered, asked, drains, logClock>>
  BY DEF Channel!Insert
<1>2. row \in LogRows /\ row.ts = logClock /\ row.state = "open"
  BY OneLog DEF LogRows
<1> HIDE DEF row
<1>3. /\ log' \in Seq(LogRows) /\ Len(log') = Len(log) + 1 /\ DOMAIN log' = 1..Len(log) + 1
      /\ log'[Len(log) + 1] = row /\ \A n \in 1..Len(log) : log'[n] = log[n]
  BY <1>1, <1>2, OneLog
<1>4. LogInTime'
  <2>1. \A n \in DOMAIN log' : n \in DOMAIN log \/ n = Len(log) + 1
    BY <1>3, OneLog
  <2>2. \A n \in DOMAIN log' : log'[n].ts <= logClock
    BY <1>2, <1>3, <2>1, OneLog DEF ChannelInv, LogInTime
  <2>3. \A m, n \in DOMAIN log' : m < n => log'[m].ts <= log'[n].ts
    <3> SUFFICES ASSUME NEW m \in DOMAIN log', NEW n \in DOMAIN log', m < n
                 PROVE  log'[m].ts <= log'[n].ts
      OBVIOUS
    <3>1. m \in DOMAIN log /\ log'[m] = log[m]
      BY <1>3, <2>1, OneLog
    <3>2. CASE n \in DOMAIN log
      BY <1>3, <3>1, <3>2, OneLog DEF ChannelInv, LogInTime
    <3>3. CASE n = Len(log) + 1
      BY <1>2, <1>3, <3>1, <3>3, OneLog DEF ChannelInv, LogInTime
    <3> QED BY <2>1, <3>2, <3>3
  <2>4. \A n \in DOMAIN log' : log'[n].state = "pruned" =>
           /\ log'[n].ts < logClock - KeepFor
           /\ \E m \in DOMAIN log' : m > n /\ log'[m].state = "kept"
    <3> SUFFICES ASSUME NEW n \in DOMAIN log', log'[n].state = "pruned"
                 PROVE  /\ log'[n].ts < logClock - KeepFor
                        /\ \E m \in DOMAIN log' : m > n /\ log'[m].state = "kept"
      OBVIOUS
    <3>1. n \in DOMAIN log /\ log'[n] = log[n]
      BY <1>2, <1>3, <2>1, OneLog
    <3>2. PICK m \in DOMAIN log : m > n /\ log[m].state = "kept"
      BY <3>1 DEF ChannelInv, LogInTime
    <3>3. m \in DOMAIN log' /\ log'[m] = log[m]
      BY <1>3, <3>2, OneLog
    <3> QED BY <3>1, <3>2, <3>3 DEF ChannelInv, LogInTime
  <2> QED BY <1>1, <2>2, <2>3, <2>4 DEF LogInTime
<1> QED BY <1>1, <1>3, <1>4, OneLog, DeafStep

LEMMA TickHolds == ChannelInv /\ Channel!Tick => ChannelInv'
<1> SUFFICES ASSUME ChannelInv, Channel!Tick PROVE ChannelInv'
    OBVIOUS
<1>1. /\ logClock' = logClock + 1
      /\ UNCHANGED <<log, subs, cursor, since, delivered, asked, drains>>
  BY DEF Channel!Tick, Channel!TickClock
<1>2. LogInTime'
  <2>1. \A n \in DOMAIN log : log[n].ts <= logClock'
    BY <1>1, OneLog DEF ChannelInv, LogInTime
  <2>2. \A n \in DOMAIN log : log[n].state = "pruned" => log[n].ts < logClock' - KeepFor
    BY <1>1, OneLog DEF ChannelInv, LogInTime
  <2> QED BY <1>1, <2>1, <2>2 DEF ChannelInv, LogInTime
<1> QED BY <1>1, <1>2, OneLog, DeafStep

LEMMA Commits == ASSUME ChannelInv, NEW n \in DOMAIN log, Channel!Commit(n) PROVE ChannelInv'
<1> DEFINE row == [log[n] EXCEPT !.state = "kept"]
<1>1. /\ log[n].state = "open"
      /\ log' = [log EXCEPT ![n] = row]
      /\ UNCHANGED <<subs, cursor, since, delivered, asked, drains, logClock>>
  BY OneLog DEF Channel!Commit
<1>2. row \in LogRows /\ row.state = "kept" /\ row.ts = log[n].ts /\ row.channel = log[n].channel
  BY OneLog DEF LogRows
<1> HIDE DEF row
<1>3. /\ log' \in Seq(LogRows) /\ Len(log') = Len(log) /\ DOMAIN log' = DOMAIN log
      /\ log'[n] = row /\ \A m \in DOMAIN log \ {n} : log'[m] = log[m]
  BY <1>1, <1>2, OneLog
<1>4. /\ \A m \in DOMAIN log : log'[m].ts = log[m].ts /\ log'[m].channel = log[m].channel
      /\ \A m \in DOMAIN log : log'[m].state = "pruned" => log[m].state = "pruned"
      /\ \A m \in DOMAIN log : log[m].state = "kept" => log'[m].state = "kept"
  BY <1>1, <1>2, <1>3
<1>5. LogInTime'
  BY <1>1, <1>3, <1>4 DEF ChannelInv, LogInTime
<1> QED BY <1>1, <1>3, <1>4, <1>5, OneLog, DeafStep

LEMMA Pruning == ChannelInv /\ Channel!Prune => ChannelInv'
<1> SUFFICES ASSUME ChannelInv, Channel!Prune PROVE ChannelInv'
    OBVIOUS
<1> DEFINE Old(n) == log[n].state = "kept" /\ log[n].ts < logClock - KeepFor
           New(n) == IF Old(n) THEN [log[n] EXCEPT !.state = "pruned"] ELSE log[n]
<1>1. /\ log' = [n \in DOMAIN log |-> New(n)]
      /\ UNCHANGED <<subs, cursor, since, delivered, asked, drains, logClock>>
  BY DEF Channel!Prune, Channel!Pruned
<1>2. PICK last \in DOMAIN log : log[last].ts = logClock /\ log[last].state # "open"
  BY DEF Channel!Prune
<1>3. ASSUME NEW n \in DOMAIN log
      PROVE  /\ New(n) \in LogRows /\ New(n).ts = log[n].ts /\ New(n).channel = log[n].channel
             /\ (Old(n) => New(n).state = "pruned") /\ (~Old(n) => New(n) = log[n])
  BY OneLog DEF LogRows
<1> HIDE DEF New
<1>4. log' \in Seq(LogRows) /\ Len(log') = Len(log) /\ DOMAIN log' = DOMAIN log
      /\ \A n \in DOMAIN log : log'[n] = New(n)
  BY <1>1, <1>3, OneLog
<1>5. last \in DOMAIN log /\ log'[last].state = "kept"
  <2>1. log[last].state # "pruned"
    BY <1>2, OneLog DEF ChannelInv, LogInTime
  <2>2. ~Old(last) /\ log[last].state = "kept"
    BY <1>2, <2>1, OneLog
  <2> QED BY <1>3, <1>4, <2>2
<1>6. ASSUME NEW n \in DOMAIN log, log'[n].state = "pruned"
      PROVE  /\ log'[n].ts < logClock - KeepFor
             /\ \E m \in DOMAIN log : m > n /\ log'[m].state = "kept"
  <2>1. CASE Old(n)
    <3>1. log[n].ts < log[last].ts
      BY <1>2, <2>1, OneLog
    <3>2. last > n
      BY <3>1, OneLog DEF ChannelInv, LogInTime
    <3> QED BY <1>3, <1>4, <1>5, <2>1, <3>2
  <2>2. CASE ~Old(n)
    <3>1. log[n].state = "pruned" /\ log'[n] = log[n]
      BY <1>3, <1>4, <1>6, <2>2
    <3>2. log[n].ts < logClock - KeepFor
      BY <3>1 DEF ChannelInv, LogInTime
    <3>3. last > n
      BY <1>2, <3>2, OneLog DEF ChannelInv, LogInTime
    <3> QED BY <1>5, <3>1, <3>2, <3>3
  <2> QED BY <2>1, <2>2
<1>7. \A n \in DOMAIN log : log'[n].ts = log[n].ts /\ log'[n].channel = log[n].channel
  BY <1>3, <1>4
<1>8. LogInTime'
  BY <1>1, <1>4, <1>6, <1>7 DEF ChannelInv, LogInTime
<1> QED BY <1>1, <1>4, <1>7, <1>8, OneLog, DeafStep

----------------------------------------------------------------------------
(* Drains                                                                    *)

LEMMA Asking ==
    ASSUME ChannelInv, NEW p \in Processes, Channel!DrainAsks(p), DOMAIN log' = DOMAIN log
    PROVE  /\ drains' = [q \in Processes |-> drains'[q]]
           /\ \A q \in Processes : \A d \in drains'[q] : Fetched(d)'
<1> DEFINE d0 == [min |-> Channel!Least(p), rows |-> {}, here |-> FALSE]
<1>1. drains' = [drains EXCEPT ![p] = @ \cup {d0}]
  BY DEF Channel!DrainAsks
<1>2. drains = [q \in Processes |-> drains[q]] /\ \A q \in Processes : \A d \in drains[q] : Fetched(d)
  BY DEF ChannelInv, ChannelTypes
<1>3. d0.rows = {} /\ d0.here = FALSE
  OBVIOUS
<1> HIDE DEF d0
<1>4. \A q \in Processes : \A d \in drains'[q] : d \in drains[q] \/ d = d0
  BY <1>1, <1>2
<1>5. drains' = [q \in Processes |-> drains'[q]]
  BY <1>1, <1>2
<1> QED BY <1>2, <1>3, <1>4, <1>5 DEF Fetched

LEMMA PublishDrainsHolds ==
    ASSUME ChannelInv, NEW n \in DOMAIN log, Channel!PublishDrains(n)
    PROVE  ChannelInv'
<1> DEFINE row == [log[n] EXCEPT !.drained = TRUE]
<1>1. /\ log' = [log EXCEPT ![n] = row]
      /\ UNCHANGED <<subs, cursor, since, delivered, asked, logClock>>
      /\ Channel!DrainAsks(log[n].by)
  BY OneLog DEF Channel!PublishDrains
<1>2. /\ row \in LogRows /\ row.state = log[n].state /\ row.ts = log[n].ts
      /\ row.channel = log[n].channel /\ log[n].by \in Processes
  BY OneLog DEF LogRows
<1> HIDE DEF row
<1>3. /\ log' \in Seq(LogRows) /\ Len(log') = Len(log) /\ DOMAIN log' = DOMAIN log
      /\ log'[n] = row /\ \A m \in DOMAIN log \ {n} : log'[m] = log[m]
  BY <1>1, <1>2, OneLog
<1>4. \A m \in DOMAIN log : /\ log'[m].ts = log[m].ts /\ log'[m].channel = log[m].channel
                            /\ log'[m].state = log[m].state
  BY <1>2, <1>3
<1>5. LogInTime'
  BY <1>1, <1>3, <1>4 DEF ChannelInv, LogInTime
<1>6. /\ drains' = [q \in Processes |-> drains'[q]]
      /\ \A q \in Processes : \A d \in drains'[q] : Fetched(d)'
  BY <1>1, <1>2, <1>3, Asking
<1> QED BY <1>1, <1>3, <1>4, <1>5, <1>6, OneLog, DrainingStep

LEMMA PollDrainsHolds ==
    ASSUME ChannelInv, NEW p \in Processes, Channel!PollDrains(p)
    PROVE  ChannelInv'
<1>1. UNCHANGED <<log, subs, cursor, since, delivered, asked, logClock>> /\ Channel!DrainAsks(p)
  BY DEF Channel!PollDrains, Channel!logVars
<1>2. /\ drains' = [q \in Processes |-> drains'[q]]
      /\ \A q \in Processes : \A d \in drains'[q] : Fetched(d)'
  BY <1>1, Asking
<1>3. LogInTime'
  BY <1>1 DEF ChannelInv, LogInTime
<1> QED BY <1>1, <1>2, <1>3, OneLog, DrainingStep

LEMMA DrainReadsHolds ==
    ASSUME ChannelInv, NEW p \in Processes, NEW d \in drains[p], Channel!DrainReads(p, d)
    PROVE  ChannelInv'
<1> DEFINE found == Channel!Unread(d.min)
           d1 == [min |-> d.min, rows |-> found, here |-> TRUE]
           New == IF found = {} THEN {} ELSE {d1}
<1>1. /\ UNCHANGED <<log, subs, cursor, since, delivered, asked, logClock>>
      /\ drains' = [drains EXCEPT ![p] = (@ \ {d}) \cup New]
  BY DEF Channel!DrainReads, Channel!logVars
<1>2. found \subseteq DOMAIN log
  BY DEF Channel!Unread
<1>3. drains = [q \in Processes |-> drains[q]] /\ \A q \in Processes : \A e \in drains[q] : Fetched(e)
  BY DEF ChannelInv, ChannelTypes
<1> HIDE DEF found
<1>4. \A e \in New : e = d1 /\ found # {}
  OBVIOUS
<1>5. d1.rows = found
  OBVIOUS
<1> HIDE DEF d1, New
<1>6. \A q \in Processes : \A e \in drains'[q] : e \in drains[q] \/ e \in New
  BY <1>1, <1>3
<1>7. drains' = [q \in Processes |-> drains'[q]]
  BY <1>1, <1>3
<1>8. \A q \in Processes : \A e \in drains'[q] : Fetched(e)'
  BY <1>1, <1>2, <1>3, <1>4, <1>5, <1>6 DEF Fetched
<1>9. LogInTime'
  BY <1>1 DEF ChannelInv, LogInTime
<1> QED BY <1>1, <1>7, <1>8, <1>9, OneLog, DrainingStep

(* What one subscriber hears of a drain's rows.                              *)
Heard(d, s) == Channel!InOrder({n \in d.rows : Channel!Hears(s, n)})

AllHeard(d, s) == delivered[s] \o Heard(d, s)

CursorAfter(d, s) == Channel!Max({cursor[s], Channel!Max(d.rows)})

LEMMA HearsMore ==
    ASSUME ChannelInv, NEW s \in Subscribers, asked[s].state # "none", NEW d, Fetched(d), d.here
    PROVE  /\ AllHeard(d, s) \in Seq(Nat) /\ Increasing(AllHeard(d, s))
           /\ CursorAfter(d, s) \in Nat /\ cursor[s] <= CursorAfter(d, s)
           /\ (asked[s].state # "done" => AllHeard(d, s) = << >> /\ CursorAfter(d, s) = cursor[s])
           /\ \A i \in DOMAIN AllHeard(d, s) :
                 /\ asked[s].high < AllHeard(d, s)[i] /\ AllHeard(d, s)[i] <= CursorAfter(d, s)
                 /\ AllHeard(d, s)[i] \in DOMAIN log
                 /\ log[AllHeard(d, s)[i]].channel = ChannelOf[s]
<1> DEFINE heard == Heard(d, s)
           more == AllHeard(d, s)
           c == CursorAfter(d, s)
<1>17. more = delivered[s] \o heard /\ c = Channel!Max({cursor[s], Channel!Max(d.rows)})
  BY DEF AllHeard, CursorAfter
<1>18. heard = Channel!InOrder({n \in d.rows : Channel!Hears(s, n)})
  BY DEF Heard
<1> HIDE DEF heard, more, c
<1> DEFINE set == {n \in d.rows : Channel!Hears(s, n)}
           old == delivered[s]
           high0 == asked[s].high
           top == Channel!Max(d.rows)
<1>1. /\ old \in Seq(Nat) /\ cursor[s] \in Nat /\ high0 \in Nat
      /\ asked[s].state \in {"asked", "read", "done"} /\ Hearing(s)
  BY DEF ChannelInv, ChannelTypes
<1>2. d.rows \subseteq 1..Len(log) /\ d.rows # {} /\ Len(log) \in Nat
  BY OneLog DEF Fetched
<1>3. top \in d.rows /\ \A n \in d.rows : n <= top
  <2>1. d.rows \subseteq Nat /\ \A n \in d.rows : n <= Len(log)
    BY <1>2
  <2> QED BY <1>2, <2>1, GreatestNumber
<1> HIDE DEF top
<1>4. top \in Nat /\ top <= Len(log)
  BY <1>2, <1>3
<1>5. c \in Nat /\ cursor[s] <= c /\ top <= c /\ (c = cursor[s] \/ c = top)
  <2>1. {cursor[s], top} \subseteq Nat /\ {cursor[s], top} # {}
    BY <1>1, <1>4
  <2>2. \E b \in Nat : \A x \in {cursor[s], top} : x <= b
    <3>1. cursor[s] + top \in Nat /\ \A x \in {cursor[s], top} : x <= cursor[s] + top
      BY <1>1, <1>4
    <3> QED BY <3>1
  <2>3. c = Channel!Max({cursor[s], top})
    BY <1>17 DEF top
  <2>4. c \in {cursor[s], top} /\ \A x \in {cursor[s], top} : x <= c
    BY <2>1, <2>2, <2>3, GreatestNumber
  <2> QED BY <2>4, <1>1, <1>4
<1>6. set \in SUBSET (1..Len(log))
  BY <1>2
<1>7. /\ heard \in Seq(set) /\ Increasing(heard) /\ \A i \in DOMAIN heard : heard[i] \in set
  BY <1>2, <1>6, <1>18, OrderedRows
<1>8. \A n \in set : /\ n \in Nat /\ cursor[s] < n /\ n <= c /\ n \in DOMAIN log
                     /\ log[n].channel = ChannelOf[s]
  BY <1>2, <1>3, <1>4, <1>5, <1>1, OneLog DEF Channel!Hears
<1> HIDE DEF set
<1>9. heard \in Seq(Nat) /\ DOMAIN heard = 1..Len(heard) /\ Len(heard) \in Nat
  BY <1>7, <1>8
<1>10. DOMAIN old = 1..Len(old) /\ Len(old) \in Nat
  BY <1>1
<1>11. /\ more \in Seq(Nat) /\ Len(more) = Len(old) + Len(heard) /\ DOMAIN more = 1..Len(more)
       /\ \A i \in 1..Len(old) : more[i] = old[i]
       /\ \A i \in 1..Len(heard) : more[Len(old) + i] = heard[i]
  BY <1>1, <1>9, <1>10, <1>17
<1>12. ASSUME NEW i \in DOMAIN more
       PROVE  \/ i \in DOMAIN old /\ more[i] = old[i]
              \/ i - Len(old) \in DOMAIN heard /\ more[i] = heard[i - Len(old)] /\ i > Len(old)
  <2>1. CASE i <= Len(old)
    BY <2>1, <1>10, <1>11
  <2>2. CASE i > Len(old)
    <3>1. i - Len(old) \in 1..Len(heard) /\ Len(old) + (i - Len(old)) = i
      BY <2>2, <1>9, <1>10, <1>11
    <3> QED BY <2>2, <3>1, <1>9, <1>11
  <2> QED BY <2>1, <2>2, <1>10, <1>11
<1>13. \A i \in DOMAIN old : /\ old[i] \in Nat /\ high0 < old[i] /\ old[i] <= cursor[s]
                             /\ old[i] \in DOMAIN log /\ log[old[i]].channel = ChannelOf[s]
  BY <1>1 DEF Hearing
<1>16. \A k \in DOMAIN heard : /\ heard[k] \in Nat /\ cursor[s] < heard[k] /\ heard[k] <= c
                               /\ heard[k] \in DOMAIN log
                               /\ log[heard[k]].channel = ChannelOf[s]
  BY <1>7, <1>8
<1>14. CASE asked[s].state # "done"
  <2>1. cursor[s] = Infinite /\ old = << >>
    BY <1>1, <1>14 DEF Hearing
  <2>2. c = cursor[s]
    BY <2>1, <1>4, <1>5, OneLog
  <2>3. \A n \in set : FALSE
    BY <2>1, <1>8, OneLog
  <2>4. DOMAIN heard = {}
    BY <2>3, <1>7
  <2>5. more = << >> /\ DOMAIN more = {}
    BY <2>1, <2>4, <1>9, <1>10, <1>11
  <2> QED BY <2>2, <2>5, <1>5, <1>11, <1>14 DEF Increasing, more, c
<1>15. CASE asked[s].state = "done"
  <2>1. high0 <= cursor[s]
    BY <1>1, <1>15 DEF Hearing
  <2>2. ASSUME NEW i \in DOMAIN more
        PROVE  /\ high0 < more[i] /\ more[i] <= c /\ more[i] \in DOMAIN log
               /\ log[more[i]].channel = ChannelOf[s]
    <3>1. CASE i \in DOMAIN old /\ more[i] = old[i]
      BY <3>1, <1>13, <1>5, <1>1
    <3>2. CASE i - Len(old) \in DOMAIN heard /\ more[i] = heard[i - Len(old)]
      <4>1. \A x \in Nat : cursor[s] < x => high0 < x
        BY <1>1, <2>1
      <4> QED BY <3>2, <4>1, <1>16
    <3> QED BY <1>12, <3>1, <3>2
  <2>3. ASSUME NEW i \in DOMAIN more, NEW j \in DOMAIN more, i < j PROVE more[i] < more[j]
    <3>1. i \in Nat /\ j \in Nat
      BY <1>11
    <3>2. CASE i \in DOMAIN old /\ more[i] = old[i] /\ j \in DOMAIN old /\ more[j] = old[j]
      BY <2>3, <3>2, <1>1 DEF Hearing, Increasing
    <3>3. CASE /\ i \in DOMAIN old /\ more[i] = old[i]
               /\ j - Len(old) \in DOMAIN heard /\ more[j] = heard[j - Len(old)]
      <4>1. \A x, y \in Nat : x <= cursor[s] /\ cursor[s] < y => x < y
        BY <1>1
      <4> QED BY <3>3, <4>1, <1>13, <1>16
    <3>4. CASE /\ i - Len(old) \in DOMAIN heard /\ more[i] = heard[i - Len(old)]
               /\ j - Len(old) \in DOMAIN heard /\ more[j] = heard[j - Len(old)]
      <4>1. i - Len(old) < j - Len(old)
        BY <2>3, <3>1, <1>10
      <4> QED BY <3>4, <4>1, <1>7 DEF Increasing
    <3>5. ~(i > Len(old) /\ j \in DOMAIN old)
      BY <2>3, <3>1, <1>10
    <3> QED BY <1>12, <3>2, <3>3, <3>4, <3>5
  <2> QED BY <1>5, <1>11, <1>15, <2>2, <2>3 DEF Increasing, more, c
<1> QED BY <1>14, <1>15 DEF heard, more, c

LEMMA DrainDeliversHolds ==
    ASSUME ChannelInv, NEW p \in Processes, NEW d \in drains[p], Channel!DrainDelivers(p, d)
    PROVE  ChannelInv'
<1> DEFINE Mine(s) == s \in Channel!ToSet(subs[p])
           More(s) == AllHeard(d, s)
           Top(s) == CursorAfter(d, s)
<1>1. /\ UNCHANGED <<log, subs, since, asked, logClock>>
      /\ drains' = [drains EXCEPT ![p] = @ \ {d}]
      /\ delivered' = [s \in Subscribers |-> IF Mine(s) THEN More(s) ELSE delivered[s]]
      /\ cursor' = [s \in Subscribers |-> IF Mine(s) THEN Top(s) ELSE cursor[s]]
      /\ d.here
  BY DEF Channel!DrainDelivers, AllHeard, Heard, CursorAfter
<1>2. /\ drains = [q \in Processes |-> drains[q]]
      /\ \A q \in Processes : \A e \in drains[q] : Fetched(e)
  BY DEF ChannelInv, ChannelTypes
<1>3. Fetched(d)
  BY <1>2
<1>4. ASSUME NEW s \in Subscribers, Mine(s)
      PROVE  /\ More(s) \in Seq(Nat) /\ Increasing(More(s)) /\ Top(s) \in Nat /\ cursor[s] <= Top(s)
             /\ (asked[s].state # "done" => More(s) = << >> /\ Top(s) = cursor[s])
             /\ \A i \in DOMAIN More(s) :
                   /\ asked[s].high < More(s)[i] /\ More(s)[i] <= Top(s)
                   /\ More(s)[i] \in DOMAIN log /\ log[More(s)[i]].channel = ChannelOf[s]
  <2>1. asked[s].state # "none"
    BY <1>4 DEF ChannelInv, Channel!ToSet
  <2> QED BY <1>1, <1>3, <2>1, HearsMore
<1> HIDE DEF Mine, More, Top
<1>5. ASSUME NEW s \in Subscribers
      PROVE  /\ delivered'[s] \in Seq(Nat) /\ cursor'[s] \in Nat /\ Hearing(s)'
  <2>1. /\ delivered[s] \in Seq(Nat) /\ cursor[s] \in Nat /\ asked[s].high \in Nat /\ Hearing(s)
    BY DEF ChannelInv, ChannelTypes
  <2>2. CASE ~Mine(s)
    <3>1. delivered'[s] = delivered[s] /\ cursor'[s] = cursor[s]
      BY <1>1, <2>2
    <3> QED BY <1>1, <2>1, <3>1 DEF Hearing, Increasing
  <2>3. CASE Mine(s)
    <3>1. delivered'[s] = More(s) /\ cursor'[s] = Top(s)
      BY <1>1, <2>3
    <3> DEFINE m == More(s)
               c == Top(s)
    <3>2. /\ m \in Seq(Nat) /\ Increasing(m) /\ c \in Nat /\ cursor[s] <= c
          /\ (asked[s].state # "done" => m = << >> /\ c = cursor[s])
          /\ \A i \in DOMAIN m : /\ asked[s].high < m[i] /\ m[i] <= c
                                 /\ m[i] \in DOMAIN log /\ log[m[i]].channel = ChannelOf[s]
      BY <1>4, <2>3
    <3>3. delivered'[s] = m /\ cursor'[s] = c
      BY <3>1
    <3> HIDE DEF m, c
    <3>4. asked[s].state = "done" => asked[s].high <= c
      BY <2>1, <3>2 DEF Hearing
    <3> QED BY <1>1, <2>1, <3>2, <3>3, <3>4 DEF Hearing, Increasing
  <2> QED BY <2>2, <2>3
<1>6. /\ delivered' \in [Subscribers -> Seq(Nat)] /\ cursor' \in [Subscribers -> Nat]
  BY <1>1, <1>5
<1>7. /\ drains' = [q \in Processes |-> drains'[q]]
      /\ \A q \in Processes : \A e \in drains'[q] : Fetched(e)'
  BY <1>1, <1>2 DEF Fetched
<1>8. ChannelTypes'
  BY <1>1, <1>6, <1>7 DEF ChannelInv, ChannelTypes
<1> QED BY <1>1, <1>5, <1>8 DEF ChannelInv, LogInTime

----------------------------------------------------------------------------
(* Subscribers come and go.                                                  *)

(* What is not open is numbered no higher than the highest that is kept.     *)
LEMMA HighestIsKept ==
    ASSUME ChannelInv
    PROVE  /\ Channel!Highest \in Nat
           /\ \A n \in {0} \cup {m \in DOMAIN log : log[m].state # "open"} :
                 n \in Nat /\ n <= Channel!Highest
<1> DEFINE S == {0} \cup {n \in DOMAIN log : Channel!Readable(n)}
<1>1. S \subseteq Nat /\ S # {} /\ \A x \in S : x <= Len(log)
  BY OneLog
<1>2. Channel!Highest = Channel!Max(S)
  BY DEF Channel!Highest
<1>3. Channel!Max(S) \in S /\ \A x \in S : x <= Channel!Max(S)
  BY <1>1, GreatestNumber, OneLog
<1>4. Channel!Highest \in Nat /\ \A x \in S : x <= Channel!Highest
  BY <1>1, <1>2, <1>3
<1>5. ASSUME NEW n \in DOMAIN log, log[n].state # "open" PROVE n \in Nat /\ n <= Channel!Highest
  <2>1. n \in Nat
    BY OneLog
  <2>2. CASE log[n].state = "kept"
    BY <1>4, <2>1, <2>2 DEF Channel!Readable
  <2>3. CASE log[n].state = "pruned"
    <3>1. PICK m \in DOMAIN log : m > n /\ log[m].state = "kept"
      BY <2>3 DEF ChannelInv, LogInTime
    <3>2. m <= Channel!Highest /\ m \in Nat
      BY <1>4, <3>1, OneLog DEF Channel!Readable
    <3> QED BY <1>4, <2>1, <3>1, <3>2
  <2> QED BY <1>5, <2>2, <2>3, OneLog
<1>6. 0 <= Channel!Highest
  BY <1>4
<1> QED BY <1>4, <1>5, <1>6

(* A step that takes one subscriber further.                                 *)
LEMMA OneSubscriber ==
    ASSUME ChannelInv, NEW s \in Subscribers,
           NEW a1 \in [state : {"asked", "read", "done"}, high : Nat],
           asked' = [asked EXCEPT ![s] = a1], NEW c \in Nat, cursor' = [cursor EXCEPT ![s] = c],
           NEW old \in SUBSET Nat, since' = [since EXCEPT ![s] = old],
           UNCHANGED <<log, logClock, delivered, drains>>,
           asked[s].state # "done", a1.state # "done" => c = Infinite,
           a1.state # "asked" => \A n \in old : n <= a1.high,
           a1.state = "done" => a1.high <= c,
           subs' \in [Processes -> Seq(Subscribers)],
           \A p \in Processes : \A i \in DOMAIN subs'[p] :
               subs'[p][i] = s \/ \E j \in DOMAIN subs[p] : subs'[p][i] = subs[p][j]
    PROVE  ChannelInv'
<1>1. /\ cursor \in [Subscribers -> Nat] /\ since \in [Subscribers -> SUBSET Nat]
      /\ asked \in [Subscribers -> [state : {"none", "asked", "read", "done"}, high : Nat]]
      /\ \A t \in Subscribers : Hearing(t)
  BY DEF ChannelInv, ChannelTypes
<1>2. a1 \in [state : {"none", "asked", "read", "done"}, high : Nat]
      /\ a1.state \in {"asked", "read", "done"}
  OBVIOUS
<1>3. /\ asked' \in [Subscribers -> [state : {"none", "asked", "read", "done"}, high : Nat]]
      /\ cursor' \in [Subscribers -> Nat] /\ since' \in [Subscribers -> SUBSET Nat]
      /\ asked'[s] = a1 /\ cursor'[s] = c /\ since'[s] = old
      /\ \A t \in Subscribers \ {s} : /\ asked'[t] = asked[t] /\ cursor'[t] = cursor[t]
                                       /\ since'[t] = since[t]
  BY <1>1, <1>2
<1>4. ChannelTypes'
  BY <1>3 DEF ChannelInv, ChannelTypes, Fetched
<1>5. ASSUME NEW t \in Subscribers \ {s} PROVE Hearing(t)'
  BY <1>1, <1>3 DEF Hearing, Increasing
<1>6. delivered[s] = << >> /\ DOMAIN delivered[s] = {}
  BY <1>1 DEF Hearing
<1>7. Hearing(s)'
  BY <1>2, <1>3, <1>6 DEF Hearing, Increasing
<1>8. \A p \in Processes : \A i \in DOMAIN subs'[p] : asked'[subs'[p][i]].state # "none"
  <2> SUFFICES ASSUME NEW p \in Processes, NEW i \in DOMAIN subs'[p]
               PROVE  asked'[subs'[p][i]].state # "none"
    OBVIOUS
  <2>1. CASE subs'[p][i] = s
    BY <1>2, <1>3, <2>1
  <2>2. CASE subs'[p][i] # s
    <3>1. PICK j \in DOMAIN subs[p] : subs'[p][i] = subs[p][j]
      BY <2>2
    <3>2. subs[p][j] \in Subscribers /\ asked[subs[p][j]].state # "none"
      BY DEF ChannelInv, ChannelTypes
    <3> QED BY <1>3, <2>2, <3>1, <3>2
  <2> QED BY <2>1, <2>2
<1>9. LogInTime'
  BY DEF ChannelInv, LogInTime
<1> QED BY <1>4, <1>5, <1>7, <1>8, <1>9 DEF ChannelInv

LEMMA Subscribing ==
    ASSUME ChannelInv, NEW p \in Processes, NEW s \in Subscribers, Channel!Subscribe(p, s)
    PROVE  ChannelInv'
<1> DEFINE a1 == [state |-> "asked", high |-> 0]
           old == {0} \cup {n \in DOMAIN log : log[n].state # "open"}
<1>1. /\ asked[s] = Channel!NotAsked /\ cursor' = [cursor EXCEPT ![s] = Infinite]
      /\ asked' = [asked EXCEPT ![s] = a1] /\ since' = [since EXCEPT ![s] = old]
      /\ subs' = [subs EXCEPT ![p] = Append(@, s)]
      /\ UNCHANGED <<log, logClock, delivered, drains>>
  BY DEF Channel!Subscribe, Channel!Joins
<1>2. a1 \in [state : {"asked", "read", "done"}, high : Nat] /\ a1.state = "asked"
  OBVIOUS
<1>3. asked[s].state # "done"
  BY <1>1 DEF Channel!NotAsked
<1>4. old \in SUBSET Nat /\ Infinite \in Nat
  BY OneLog
<1>5. subs \in [Processes -> Seq(Subscribers)]
  BY DEF ChannelInv, ChannelTypes
<1>6. /\ subs' \in [Processes -> Seq(Subscribers)] /\ subs'[p] = Append(subs[p], s)
      /\ \A q \in Processes \ {p} : subs'[q] = subs[q]
  BY <1>1, <1>5
<1>7. ASSUME NEW q \in Processes, NEW i \in DOMAIN subs'[q]
      PROVE  subs'[q][i] = s \/ \E j \in DOMAIN subs[q] : subs'[q][i] = subs[q][j]
  <2>1. CASE q = p
    <3> DEFINE t == subs[p]
    <3>1. t \in Seq(Subscribers)
      BY <1>5
    <3> HIDE DEF t
    <3>2. \A k \in DOMAIN Append(t, s) :
             Append(t, s)[k] = s \/ (k \in DOMAIN t /\ Append(t, s)[k] = t[k])
      <4>1. /\ DOMAIN t = 1..Len(t) /\ Len(t) \in Nat /\ DOMAIN Append(t, s) = 1..Len(t) + 1
            /\ Append(t, s)[Len(t) + 1] = s /\ \A k \in 1..Len(t) : Append(t, s)[k] = t[k]
        BY <3>1
      <4>2. \A k \in 1..Len(t) + 1 : k = Len(t) + 1 \/ k \in 1..Len(t)
        BY <4>1
      <4> QED BY <4>1, <4>2
    <3> QED BY <1>6, <1>7, <2>1, <3>2 DEF t
  <2>2. CASE q # p
    BY <1>6, <1>7, <2>2
  <2> QED BY <2>1, <2>2
<1> DEFINE c == Infinite
<1>8. \A q \in Processes : \A i \in DOMAIN subs'[q] :
         subs'[q][i] = s \/ \E j \in DOMAIN subs[q] : subs'[q][i] = subs[q][j]
  BY <1>7
<1>9. subs' \in [Processes -> Seq(Subscribers)]
  BY <1>6
<1>10. /\ cursor' = [cursor EXCEPT ![s] = c] /\ c \in Nat /\ c = Infinite
       /\ asked' = [asked EXCEPT ![s] = a1] /\ since' = [since EXCEPT ![s] = old]
       /\ UNCHANGED <<log, logClock, delivered, drains>>
  BY <1>1, <1>4
<1>11. (a1.state # "asked" => \A n \in old : n <= a1.high) /\ (a1.state = "done" => a1.high <= c)
  BY <1>2
<1> HIDE DEF a1, old, c
<1> QED BY <1>2, <1>3, <1>4, <1>8, <1>9, <1>10, <1>11, OneSubscriber

LEMMA SnapshotReading ==
    ASSUME ChannelInv, NEW s \in Subscribers, Channel!SnapshotReads(s)
    PROVE  ChannelInv'
<1> DEFINE a1 == [state |-> "read", high |-> Channel!Highest]
           old == {0} \cup {n \in DOMAIN log : log[n].state # "open"}
<1>1. /\ asked[s].state = "asked"
      /\ asked' = [asked EXCEPT ![s] = a1] /\ since' = [since EXCEPT ![s] = old]
      /\ UNCHANGED <<log, logClock, delivered, drains, subs, cursor>>
  BY DEF Channel!SnapshotReads
<1>2. a1 \in [state : {"asked", "read", "done"}, high : Nat] /\ a1.state = "read"
      /\ a1.high = Channel!Highest
  BY HighestIsKept
<1>3. old \in SUBSET Nat /\ \A n \in old : n <= Channel!Highest
  BY HighestIsKept
<1>4. cursor \in [Subscribers -> Nat] /\ cursor[s] = Infinite /\ Infinite \in Nat
  BY <1>1, OneLog DEF ChannelInv, ChannelTypes, Hearing
<1>5. cursor' = [cursor EXCEPT ![s] = Infinite]
  BY <1>1, <1>4
<1>6. /\ subs' \in [Processes -> Seq(Subscribers)]
      /\ \A q \in Processes : \A i \in DOMAIN subs'[q] : \E j \in DOMAIN subs[q] : subs'[q][i] = subs[q][j]
  BY <1>1 DEF ChannelInv, ChannelTypes
<1> HIDE DEF a1, old
<1> QED BY <1>1, <1>2, <1>3, <1>4, <1>5, <1>6, OneSubscriber

LEMMA SnapshotHere ==
    ASSUME ChannelInv, NEW s \in Subscribers, Channel!SnapshotArrives(s)
    PROVE  ChannelInv'
<1> DEFINE a1 == [asked[s] EXCEPT !.state = "done"]
           old == since[s]
           c == asked[s].high
<1>1. /\ asked \in [Subscribers -> [state : {"none", "asked", "read", "done"}, high : Nat]]
      /\ since \in [Subscribers -> SUBSET Nat] /\ Hearing(s)
      /\ subs \in [Processes -> Seq(Subscribers)]
  BY DEF ChannelInv, ChannelTypes
<1>2. /\ asked[s].state = "read" /\ cursor' = [cursor EXCEPT ![s] = c]
      /\ asked' = [asked EXCEPT ![s] = a1]
      /\ UNCHANGED <<log, logClock, delivered, drains, subs, since>>
  BY <1>1 DEF Channel!SnapshotArrives
<1>3. /\ a1 \in [state : {"asked", "read", "done"}, high : Nat] /\ a1.state = "done" /\ a1.high = c
      /\ c \in Nat
  BY <1>1
<1>4. old \in SUBSET Nat /\ since' = [since EXCEPT ![s] = old]
  BY <1>1, <1>2
<1>5. \A n \in old : n <= c
  BY <1>1, <1>2 DEF Hearing
<1>6. /\ subs' \in [Processes -> Seq(Subscribers)]
      /\ \A q \in Processes : \A i \in DOMAIN subs'[q] : \E j \in DOMAIN subs[q] : subs'[q][i] = subs[q][j]
  BY <1>1, <1>2
<1>7. c <= c
  BY <1>3
<1> HIDE DEF a1, old, c
<1> QED BY <1>2, <1>3, <1>4, <1>5, <1>6, <1>7, OneSubscriber

LEMMA BothParts ==
    ASSUME NEW S, NEW f \in Seq(S), NEW b \in Seq(S), NEW both, both = f \o b
    PROVE  /\ both \in Seq(S) /\ Len(both) = Len(f) + Len(b) /\ DOMAIN both = 1..(Len(f) + Len(b))
           /\ \A k \in 1..Len(f) : both[k] = f[k]
           /\ \A k \in 1..Len(b) : both[Len(f) + k] = b[k]
<1>1. Len(f) \in Nat /\ Len(b) \in Nat
  OBVIOUS
<1>2. both \in Seq(S) /\ Len(both) = Len(f) + Len(b)
  OBVIOUS
<1>3. DOMAIN both = 1..(Len(f) + Len(b))
  BY <1>2
<1>4. \A k \in 1..Len(f) : both[k] = f[k]
  BY <1>1
<1>5. \A k \in 1..Len(b) : both[Len(f) + k] = b[k]
  BY <1>1
<1> QED BY <1>2, <1>3, <1>4, <1>5

LEMMA Unsubscribing ==
    ASSUME ChannelInv, NEW p \in Processes, NEW s \in Subscribers, Channel!Unsubscribe(p, s)
    PROVE  ChannelInv'
<1>1. subs \in [Processes -> Seq(Subscribers)]
  BY DEF ChannelInv, ChannelTypes
<1>2. PICK i \in DOMAIN subs[p] : subs' = [subs EXCEPT ![p] = Channel!RemoveAt(subs[p], i)]
  <2>1. PICK i \in DOMAIN subs[p] : subs' = [subs EXCEPT ![p] = Channel!RemoveAt(@, i)]
    BY DEF Channel!Unsubscribe, Channel!Leaves
  <2> QED BY <1>1, <2>1
<1>3. UNCHANGED <<log, cursor, logClock, since, delivered, drains, asked>>
  BY DEF Channel!Unsubscribe
<1> DEFINE t == subs[p]
           left == Channel!RemoveAt(t, i)
           front == SubSeq(t, 1, i - 1)
           back == SubSeq(t, i + 1, Len(t))
<1>4. t \in Seq(Subscribers) /\ DOMAIN t = 1..Len(t) /\ Len(t) \in Nat /\ i \in 1..Len(t)
  BY <1>1, <1>2
<1>5. left = front \o back
  BY DEF Channel!RemoveAt
<1>6. subs' = [subs EXCEPT ![p] = left]
  BY <1>2
<1> HIDE DEF t, left
<1>7. /\ front \in Seq(Subscribers) /\ Len(front) = i - 1 /\ DOMAIN front = 1..(i - 1)
      /\ \A j \in 1..(i - 1) : front[j] = t[j]
  BY <1>4
<1>8. /\ back \in Seq(Subscribers) /\ Len(back) = Len(t) - i /\ DOMAIN back = 1..(Len(t) - i)
      /\ \A j \in 1..(Len(t) - i) : back[j] = t[i + j]
  BY <1>4
<1> HIDE DEF front, back
<1>9. /\ left \in Seq(Subscribers)
      /\ \A k \in DOMAIN left : \/ k \in DOMAIN front /\ left[k] = front[k]
                                \/ \E j \in DOMAIN back : left[k] = back[j]
  <2>1. /\ left \in Seq(Subscribers) /\ Len(left) = Len(front) + Len(back) /\ DOMAIN left = 1..Len(left)
        /\ \A k \in 1..Len(front) : left[k] = front[k]
        /\ \A k \in 1..Len(back) : left[Len(front) + k] = back[k]
    <3>1. front \in Seq(Subscribers) /\ back \in Seq(Subscribers)
      BY <1>7, <1>8
    <3>2. /\ left \in Seq(Subscribers) /\ Len(left) = Len(front) + Len(back)
          /\ DOMAIN left = 1..(Len(front) + Len(back))
          /\ \A k \in 1..Len(front) : left[k] = front[k]
          /\ \A k \in 1..Len(back) : left[Len(front) + k] = back[k]
      BY <1>5, <3>1, BothParts
    <3> QED BY <3>2
  <2>2. ASSUME NEW k \in DOMAIN left
        PROVE  \/ k \in DOMAIN front /\ left[k] = front[k]
               \/ \E j \in DOMAIN back : left[k] = back[j]
    <3>1. CASE k <= i - 1
      BY <1>4, <1>7, <2>1, <3>1
    <3>2. CASE k > i - 1
      <4>1. k - (i - 1) \in 1..(Len(t) - i) /\ (i - 1) + (k - (i - 1)) = k
        BY <1>4, <1>7, <1>8, <2>1, <3>2
      <4> QED BY <1>7, <1>8, <2>1, <4>1
    <3> QED BY <3>1, <3>2, <1>4, <2>1
  <2> QED BY <2>1, <2>2
<1>10. \A k \in DOMAIN left : \E j \in DOMAIN t : left[k] = t[j]
  <2>1. \A k \in DOMAIN front : k \in DOMAIN t /\ front[k] = t[k]
    BY <1>4, <1>7
  <2>2. \A k \in DOMAIN back : i + k \in DOMAIN t /\ back[k] = t[i + k]
    BY <1>4, <1>8
  <2> QED BY <1>9, <2>1, <2>2
<1>11. /\ subs' \in [Processes -> Seq(Subscribers)] /\ subs'[p] = left
       /\ \A q \in Processes \ {p} : subs'[q] = subs[q]
  BY <1>1, <1>6, <1>9
<1>12. ASSUME NEW q \in Processes, NEW k \in DOMAIN subs'[q] PROVE asked'[subs'[q][k]].state # "none"
  <2>1. \E j \in DOMAIN subs[q] : subs'[q][k] = subs[q][j]
    BY <1>10, <1>11, <1>12 DEF t
  <2> QED BY <1>3, <2>1 DEF ChannelInv
<1>13. ChannelTypes'
  BY <1>3, <1>11 DEF ChannelInv, ChannelTypes, Fetched
<1>14. \A r \in Subscribers : Hearing(r)'
  BY <1>3 DEF ChannelInv, Hearing, Increasing
<1> QED BY <1>3, <1>12, <1>13, <1>14 DEF ChannelInv, LogInTime

----------------------------------------------------------------------------

LEMMA ChannelGoesOn == ChannelInv /\ [Channel!Next]_logVars => ChannelInv'
<1> SUFFICES ASSUME ChannelInv, [Channel!Next]_logVars PROVE ChannelInv'
    OBVIOUS
<1>1. ASSUME UNCHANGED <<log, subs, cursor, logClock, since, delivered, drains, asked>> PROVE ChannelInv'
  <2>1. LogInTime'
    BY <1>1 DEF ChannelInv, LogInTime
  <2> QED BY <1>1, <2>1, OneLog, DeafStep
<1>2. CASE UNCHANGED logVars
  BY <1>1, <1>2 DEF logVars
<1>3. ASSUME NEW p \in Processes, Channel!Stop(p) PROVE ChannelInv'
  BY <1>1, <1>3 DEF Channel!Stop
<1>4. CASE Channel!Next
  BY <1>3, <1>4, TickHolds, Pruning, Commits, PublishDrainsHolds, SnapshotReading, SnapshotHere,
     Inserting, PollDrainsHolds, DrainReadsHolds, DrainDeliversHolds, Subscribing, Unsubscribing
     DEF Channel!Next
<1> QED BY <1>2, <1>4

-----------------------------------------------------------------------------
(* All parts.                                                                *)

LEMMA PartsGoOn ==
    ASSUME [StoresNext]_storeVars
    PROVE  /\ part' = "sqlite" => part = "sqlite" /\ [Coll!Next]_collVars
           /\ part' = "postgres" =>
                 part = "postgres" /\ [PgColl!PgNext]_<<rows, call, put, stale>>
           /\ part' = "cache" => part = "cache" /\ [Cache!Next]_cacheVars
           /\ part' = "live" => part = "live" /\ [Live!Next]_liveVars
           /\ part' = "channel" => part = "channel" /\ [Channel!Next]_logVars
<1>1. CASE StoresNext
  BY <1>1 DEF StoresNext
<1>2. CASE UNCHANGED storeVars
  BY <1>2 DEF storeVars, collVars
<1> QED BY <1>1, <1>2

StoresInv ==
    /\ part = "sqlite" => CollInv
    /\ part = "postgres" => PgInv
    /\ part = "cache" => CacheInv
    /\ part = "live" => LiveInv
    /\ part = "channel" => ChannelInv

LEMMA StoresBegin == StoresInit => StoresInv
BY CollBegins, PgBegins, CacheBegins, LiveBegins, ChannelBegins DEF StoresInit, StoresInv

LEMMA StoresGoOn == StoresInv /\ [StoresNext]_storeVars => StoresInv'
<1> SUFFICES ASSUME StoresInv, [StoresNext]_storeVars PROVE StoresInv'
    OBVIOUS
<1>1. part' = "sqlite" => CollInv'
  BY PartsGoOn, CollGoesOn DEF StoresInv
<1>2. part' = "postgres" => PgInv'
  BY PartsGoOn, PgGoesOn DEF StoresInv
<1>3. part' = "cache" => CacheInv'
  BY PartsGoOn, CacheGoesOn DEF StoresInv
<1>4. part' = "live" => LiveInv'
  BY PartsGoOn, LiveGoesOn DEF StoresInv
<1>5. part' = "channel" => ChannelInv'
  BY PartsGoOn, ChannelGoesOn DEF StoresInv
<1> QED BY <1>1, <1>2, <1>3, <1>4, <1>5 DEF StoresInv

LEMMA StoresAlways == StoresSpec => []StoresInv
<1> QED BY StoresBegin, StoresGoOn, PTL DEF StoresSpec

(* Of any number of processes that take a document with findOneAndUpdate()   *)
(* one wins, and upsert() leaves one document of a key, on SQLite.           *)
THEOREM WinnersAreOne == StoresSpec => []OneWinnerOneRow
<1>1. StoresInv => OneWinnerOneRow
  BY CollHolds DEF StoresInv, OneWinnerOneRow
<1> QED BY <1>1, StoresAlways, PTL

(* The table, the change feed and the index of a plugin say the same of      *)
(* every document after every call on SQLite, one that fails included.       *)
THEOREM FeedAndIndexAgree == StoresSpec => []RowsIndexAndFeedAgree
<1>1. StoresInv => RowsIndexAndFeedAgree
  BY CollHolds DEF StoresInv, RowsIndexAndFeedAgree
<1> QED BY <1>1, StoresAlways, PTL

(* What create(), update(), upsert(), bulkWrite() and findOneAndUpdate()     *)
(* have acknowledged is in the table, once, on SQLite and on Postgres.       *)
THEOREM NothingIsLostOrDoubled == StoresSpec => []BalanceIsAcknowledged
<1>1. StoresInv => BalanceIsAcknowledged
  BY CollHolds, PgHolds DEF StoresInv, BalanceIsAcknowledged
<1> QED BY <1>1, StoresAlways, PTL

(* A lock that is taken with setNX(), and a counter of incr(), are right     *)
(* with any number of processes, expiry, expire() and flush().               *)
THEOREM LocksAndCountsAlwaysHold == StoresSpec => []LocksAndCountsHold
<1>1. StoresInv => LocksAndCountsHold
  BY CacheHolds DEF StoresInv, LocksAndCountsHold
<1> QED BY <1>1, StoresAlways, PTL

(* A watcher on Postgres that nothing has cut off from its notifications     *)
(* holds what the table holds, once these are settled, and the subscribers   *)
(* of a channel get each message once, in order, and no old one.             *)
THEOREM NewsAlwaysArrives == StoresSpec => []NewsArrives
<1>1. StoresInv => NewsArrives
  BY LiveHolds, ChannelHolds DEF StoresInv, NewsArrives
<1> QED BY <1>1, StoresAlways, PTL

(* The results that a watcher on Postgres is shown never go back in time.     *)
THEOREM ResultsNeverGoBack == StoresSpec => NeverBack
<1>1. StoresInv /\ [StoresNext]_storeVars => [part = "live" => Live!Forward]_storeVars
  <2> SUFFICES ASSUME StoresInv, StoresNext, part = "live" PROVE Live!Forward
    OBVIOUS
  <2>1. part' = "live" /\ [StoresNext]_storeVars
    BY DEF StoresNext
  <2>2. [Live!Next]_liveVars
    BY <2>1, PartsGoOn
  <2> QED BY <2>2, NoStepBack DEF StoresInv
<1> QED BY <1>1, StoresAlways, PTL DEF StoresSpec, NeverBack
=============================================================================
