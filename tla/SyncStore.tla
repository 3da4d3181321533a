----------------------------- MODULE SyncStore -----------------------------
(***************************************************************************)
(* SyncStore of the core: the change feed that a database opened with      *)
(* { sync: true } keeps beside its documents, as operators on one value    *)
(* that holds both.  Each operator is one transaction of the code.         *)
(*                                                                         *)
(* A version is <<ms, node, n>>, ordered lexicographically as the padded   *)
(* strings are; nodes are numbered in the order of their ids.  A document  *)
(* is reduced to whether it exists and to its origin, the version of the   *)
(* write that its content comes from: the code keeps no such mark, it      *)
(* stands for the content.                                                 *)
(***************************************************************************)
EXTENDS Naturals, Sequences, FiniteSets, SequencesExt

CONSTANTS Docs,         \* documents
          Collections,  \* collection names
          CollOf        \* the collection of each document

NoVersion == << >>

MakeVersion(ts, node, n) == <<ts, node, n>>

(* compareVersions(a, b) > 0, where b may be missing. *)
Newer(a, b) ==
    \/ b = NoVersion
    \/ \E k \in 1..3 : a[k] > b[k] /\ \A j \in 1..(k - 1) : a[j] = b[j]

Absent == [origin |-> NoVersion, live |-> FALSE]

(* docs: the rows of the collection tables; colls: the tables that exist;   *)
(* feed: _monlite_changes; base: how many of its first rows have been       *)
(* compacted away; vseq: the field versionSeq.                              *)
NewStore(docs, colls) ==
    [docs |-> docs, colls |-> colls, feed |-> << >>, base |-> 0, vseq |-> 0]

-----------------------------------------------------------------------------
Seqs(s)      == (s.base + 1)..(s.base + Len(s.feed))
Entry(s, q)  == s.feed[q - s.base]
Entries(s, d) == {q \in Seqs(s) : Entry(s, q).doc = d}

CurrentSeq(s) == Max(Seqs(s) \cup {0})

CurrentVersion(s, d) == IF Entries(s, d) = {} THEN NoVersion
                        ELSE Entry(s, Max(Entries(s, d))).version

(* INSERT INTO _monlite_changes. *)
Log(s, d, op, version, source) ==
    [s EXCEPT !.feed = Append(@, [doc |-> d, op |-> op, version |-> version,
                                  source |-> source,
                                  pushed |-> source = "remote"])]

RecordLocal(s, me, d, op, ts) ==
    [Log(s, d, op, MakeVersion(ts, me, s.vseq), "local") EXCEPT !.vseq = @ + 1]

(* The row itself; its table is created when it is first needed. *)
Put(s, d, state) == [s EXCEPT !.docs[d] = state, !.colls = @ \cup {CollOf[d]}]

(* A write of the application: the row and its feed entry, together. *)
LocalWrite(s, me, d, op, ts) ==
    Put(RecordLocal(s, me, d, op, ts), d,
        IF op = "delete" THEN Absent
        ELSE [origin |-> MakeVersion(ts, me, s.vseq), live |-> TRUE])

-----------------------------------------------------------------------------
(* The last of these entries of each document, in feed order, limited. *)
Latest(s, Q) ==
    {q \in Q : \A p \in Q : Entry(s, p).doc = Entry(s, q).doc => p <= q}

(* The first of these sequence numbers, in order. *)
Batch(Q, limit) ==
    LET rank(q) == Cardinality({p \in Q : p <= q})
    IN [i \in 1..Min({Cardinality(Q), limit}) |-> CHOOSE q \in Q : rank(q) = i]

(* An entry as a change to send: an upsert carries the document as it is    *)
(* now, and is turned into a delete when the document is gone.              *)
ChangeAt(s, q) ==
    LET e    == Entry(s, q)
        gone == e.op = "delete" \/ ~s.docs[e.doc].live
    IN [seq |-> q, doc |-> e.doc, version |-> e.version,
        op    |-> IF gone THEN "delete" ELSE "upsert",
        state |-> IF gone THEN Absent ELSE s.docs[e.doc]]

Unpushed(s) == {q \in Seqs(s) : /\ Entry(s, q).source = "local"
                                /\ ~Entry(s, q).pushed}

(* AND coll IN (...): no collections means all of them. *)
Within(s, Q, colls) ==
    {q \in Q : colls = {} \/ CollOf[Entry(s, q).doc] \in colls}

(* pending(): the push queue, the latest unpushed change of each document. *)
Pending(s, colls, limit) ==
    LET b == Batch(Latest(s, Within(s, Unpushed(s), colls)), limit)
    IN [i \in DOMAIN b |-> ChangeAt(s, b[i])]

MarkPushed_All(s, cs) ==   \* mutant: no bound on the sequence number
    [s EXCEPT !.feed = [i \in DOMAIN s.feed |->
        IF s.feed[i].source = "local" /\ \E k \in DOMAIN cs : cs[k].doc = s.feed[i].doc
        THEN [s.feed[i] EXCEPT !.pushed = TRUE] ELSE s.feed[i]]]

(* markPushed(): these changes, and the earlier local ones they stand for. *)
MarkPushed(s, cs) ==
    [s EXCEPT !.feed = [i \in DOMAIN s.feed |->
        IF /\ s.feed[i].source = "local"
           /\ \E k \in DOMAIN cs : /\ cs[k].doc = s.feed[i].doc
                                   /\ s.base + i <= cs[k].seq
        THEN [s.feed[i] EXCEPT !.pushed = TRUE] ELSE s.feed[i]]]

-----------------------------------------------------------------------------
(* The winner of a conflict: last writer wins, or a custom resolver. *)
RemoteWins(remote, local, resolver) ==
    \/ resolver = "remote"
    \/ resolver = "lww" /\ Newer(remote, local)

(* applyRemote(): take the change, ignore it as an echo, or record the      *)
(* local winner again so that it travels back.                              *)
Apply(s, c) == Put(Log(s, c.doc, c.op, c.version, "remote"), c.doc, c.state)

ApplyRemote_NoReturn(s, me, c, ts, resolver) ==   \* mutant: nothing travels back
    LET local == CurrentVersion(s, c.doc)
    IN IF local = NoVersion THEN Apply(s, c)
       ELSE IF c.version = local THEN s
       ELSE IF RemoteWins(c.version, local, resolver) THEN Apply(s, c)
       ELSE s

ApplyRemote(s, me, c, ts, resolver) ==
    LET local == CurrentVersion(s, c.doc)
    IN IF local = NoVersion THEN Apply(s, c)
       ELSE IF c.version = local THEN s
       ELSE IF RemoteWins(c.version, local, resolver) THEN Apply(s, c)
       ELSE RecordLocal(s, me, c.doc, "upsert", ts)

(* One change after the other. *)
ApplyAll(s, me, cs, ts, resolver) ==
    LET after[k \in 0..Len(cs)] ==
          IF k = 0 THEN s ELSE ApplyRemote(after[k - 1], me, cs[k], ts, resolver)
    IN after[Len(cs)]

ChangesSince_PastLimit(s, from, colls, limit) ==   \* mutant: cursor past the rows cut off
    LET b == Batch(Latest(s, Within(s, {q \in Seqs(s) : q > from}, colls)), limit)
    IN [changes |-> [i \in DOMAIN b |-> ChangeAt(s, b[i])],
        cursor  |-> Max({from, CurrentSeq(s)})]

(* changesSince(): the latest change of each document after a watermark,    *)
(* and the watermark to resume from.                                        *)
ChangesSince(s, from, colls, limit) ==
    LET b == Batch(Latest(s, Within(s, {q \in Seqs(s) : q > from}, colls)), limit)
    IN [changes |-> [i \in DOMAIN b |-> ChangeAt(s, b[i])],
        cursor  |-> IF b = << >> THEN from ELSE b[Len(b)]]

-----------------------------------------------------------------------------
(* seed(): documents that no entry mentions become local upserts. *)
Seed(s, me, colls) ==
    LET missing == SetToSeq({d \in Docs : /\ CollOf[d] \in colls
                                          /\ s.docs[d].live
                                          /\ Entries(s, d) = {}})
        after[k \in 0..Len(missing)] ==
          IF k = 0 THEN s
          ELSE RecordLocal(after[k - 1], me, missing[k], "upsert", 0)
    IN after[Len(missing)]

Compact_NoGuard(s, keepLast) ==   \* mutant: unpushed changes are not looked at
    LET cutoff == Max({CurrentSeq(s) - keepLast, s.base})
    IN IF CurrentSeq(s) <= keepLast THEN s
       ELSE [s EXCEPT !.feed = SubSeq(@, cutoff - s.base + 1, Len(@)),
                      !.base = cutoff]

(* compact(): drop the oldest entries, up to the first unpushed one. *)
Compact(s, keepLast) ==
    LET last   == {CurrentSeq(s) - keepLast} \cup {q - 1 : q \in Unpushed(s)}
        cutoff == Max({Min(last), s.base})
    IN IF CurrentSeq(s) <= keepLast THEN s
       ELSE [s EXCEPT !.feed = SubSeq(@, cutoff - s.base + 1, Len(@)),
                      !.base = cutoff]

Reopen_FromZero(s) == [s EXCEPT !.vseq = 0]   \* mutant: the counter starts again

(* initialVersionSeq(), in the constructor: past the last local entry. *)
Reopen(s) ==
    LET own == {q \in Seqs(s) : Entry(s, q).source = "local"}
    IN [s EXCEPT !.vseq = IF own = {} THEN 0
                          ELSE Entry(s, Max(own)).version[3] + 1]
=============================================================================
