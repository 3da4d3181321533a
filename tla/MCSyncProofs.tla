---------------------------- MODULE MCSyncProofs ----------------------------
(***************************************************************************)
(* Replication, whichever the adapter: for any nodes, documents, clocks,   *)
(* batch size and bounds.                                                  *)
(*                                                                         *)
(* Through a monlite hub (HubSync, and MCSync's part "hub"), it never      *)
(* takes a change out of the push queue that the hub has not taken in, and *)
(* loses none that has still to be pushed.                                 *)
(* The inductive invariant HInv adds to the types that what push() has     *)
(* acknowledged, until it is marked, is no later than what was delivered.  *)
(* And it converges: a node that has pulled all that the hub has of a      *)
(* document, and has nothing of its own to push, shows what the hub shows. *)
(* The invariant, CInv, relates each node to the hub by versions: those of *)
(* a document in the hub only rise, the same version means the same        *)
(* content, and what the cursor has passed the node has, unless a change   *)
(* of its own is waiting to be pushed.                                     *)
(*                                                                         *)
(* In the other parts of MCSync, what is marked as pushed has arrived as   *)
(* well, and the rows of a table never go back, by an invariant each:      *)
(*                                                                         *)
(*   - TInv, of TableSync with one writer.  The own entries of a node are  *)
(*     numbered and timed in order (Ordered), so that later ones are newer.*)
(*     The writer has none but its own, and pushes those of a document in  *)
(*     their order (PushedFirst).  A row is its last change of a document, *)
(*     or an older one (RowFine), and what waits to be sent is newer than  *)
(*     the row, or in it already (SendFine).  A reader has no entry of its *)
(*     own, and nothing that is newer than the row (Readable, Reads);      *)
(*   - MInv, of MemorySync.  What push() has acknowledged is, until it is  *)
(*     marked, a change of the node's own and no newer than the last of    *)
(*     its document in the log, whose versions only rise (Rises).          *)
(*                                                                         *)
(* First, what the operators of the change feed do to it, for every feed,  *)
(* and what a step of the engine does to the feed of its node: no step but *)
(* markPushed() marks a local change as pushed or loses one that has still *)
(* to be pushed.  The recursive functions of SyncStore need their          *)
(* existence proved, which is done by the least number for which a claim   *)
(* fails.                                                                  *)
(***************************************************************************)
EXTENDS MCSync, FiniteSetTheorems, SequenceTheorems, WellFoundedInduction, TLAPS

-----------------------------------------------------------------------------
(* Numbers. *)

LEMMA LeastNumber ==
    ASSUME NEW S, S \subseteq Nat, S # {}
    PROVE  \E m \in S : \A x \in S : m <= x
<1>1. PICK m \in S : \A x \in S : ~(<<x, m>> \in OpToRel(<, Nat))
  BY NatLessThanWellFounded, WFMin
<1>2. \A x \in S : ~(x < m)
  BY <1>1 DEF OpToRel
<1> QED
  BY <1>2

LEMMA HasMin ==
    ASSUME NEW S, S \subseteq Nat, S # {}
    PROVE  Min(S) \in S /\ \A x \in S : Min(S) <= x
BY LeastNumber DEF Min

LEMMA HasMax ==
    ASSUME NEW S, S \subseteq Nat, S # {}, NEW b \in Nat, \A x \in S : x <= b
    PROVE  Max(S) \in S /\ \A x \in S : x <= Max(S)
<1> DEFINE T == {b - x : x \in S}
<1>1. T \subseteq Nat /\ T # {}
  <2>1. \A x \in S : b - x \in Nat
    OBVIOUS
  <2> QED
    BY <2>1
<1>2. PICK t \in T : \A u \in T : t <= u
  BY <1>1, LeastNumber
<1>3. PICK m \in S : t = b - m
  OBVIOUS
<1>4. \A x \in S : m >= x
  BY <1>2, <1>3
<1>5. Max(S) \in S /\ \A x \in S : Max(S) >= x
  BY <1>4 DEF Max
<1> QED
  BY <1>5

(* Induction up to n, for a property given as the set of what has it. *)
LEMMA Climb ==
    ASSUME NEW S, NEW n \in Nat, 0 \in S,
           \A k \in 1..n : k - 1 \in S => k \in S
    PROVE  0..n \subseteq S
<1> SUFFICES ASSUME ~(0..n \subseteq S) PROVE FALSE
  OBVIOUS
<1> DEFINE T == {k \in 0..n : k \notin S}
<1>1. T \subseteq Nat /\ T # {}
  OBVIOUS
<1>2. PICK k \in T : \A j \in T : k <= j
  BY <1>1, LeastNumber
<1>3. k \in 1..n /\ k - 1 \in 0..n /\ k - 1 \notin T
  BY <1>2
<1> QED
  BY <1>2, <1>3

(* The recursive function over 0..n that begins with first. *)
Recursion(T, n, first, step, g) ==
    /\ g \in [0..n -> T]
    /\ \A k \in 0..n : g[k] = IF k = 0 THEN first ELSE step[<<k, g[k - 1]>>]

(* It exists when its step stays in a set. *)
LEMMA RecursionExists ==
    ASSUME NEW T, NEW n \in Nat, NEW first \in T,
           NEW step, step \in [(1..n) \X T -> T]
    PROVE  \E g : Recursion(T, n, first, step, g)
<1> DEFINE Rec(m, g) == \A k \in 0..m : g[k] = IF k = 0 THEN first
                                               ELSE step[<<k, g[k - 1]>>]
           S == {m \in 0..n : \E g \in [0..m -> T] : Rec(m, g)}
<1>1. 0 \in S
  <2> DEFINE g == [k \in 0..0 |-> first]
  <2>1. g \in [0..0 -> T] /\ g[0] = first
    OBVIOUS
  <2> HIDE DEF g
  <2>2. Rec(0, g) /\ 0 \in 0..n
    BY <2>1
  <2> QED
    BY <2>1, <2>2
<1>2. ASSUME NEW m \in 1..n, m - 1 \in S
      PROVE  m \in S
  <2>1. PICK g \in [0..(m - 1) -> T] : Rec(m - 1, g)
    BY <1>2
  <2>2. g[m - 1] \in T /\ step[<<m, g[m - 1]>>] \in T
    BY <2>1
  <2> DEFINE h == [k \in 0..m |-> IF k = m THEN step[<<m, g[m - 1]>>] ELSE g[k]]
  <2>3. h \in [0..m -> T]
    BY <2>1, <2>2
  <2>4. ASSUME NEW k \in 0..m
        PROVE  h[k] = IF k = 0 THEN first ELSE step[<<k, h[k - 1]>>]
    <3>1. CASE k = m
      <4>1. h[m] = step[<<m, g[m - 1]>>] /\ h[m - 1] = g[m - 1] /\ m # 0
        OBVIOUS
      <4> HIDE DEF h
      <4> QED
        BY <3>1, <4>1
    <3>2. CASE k # m
      <4>1. k \in 0..(m - 1) /\ h[k] = g[k]
        BY <3>2
      <4>2. k # 0 => h[k - 1] = g[k - 1]
        BY <3>2
      <4> HIDE DEF h
      <4> QED
        BY <2>1, <4>1, <4>2
    <3> QED
      BY <3>1, <3>2
  <2> HIDE DEF h
  <2>5. Rec(m, h)
    BY <2>4
  <2> QED
    BY <2>3, <2>5
<1> HIDE DEF S
<1>3. n \in S
  BY <1>1, <1>2, Climb
<1> QED
  BY <1>3 DEF S, Recursion

(* A finite set of numbers has one of each rank. *)
LEMMA RankExists ==
    ASSUME NEW Q, Q \subseteq Nat, IsFiniteSet(Q)
    PROVE  \A i \in 1..Cardinality(Q) :
              \E q \in Q : Cardinality({p \in Q : p <= q}) = i
<1> DEFINE Upto(q) == {p \in Q : p <= q}
           S == {i \in 0..Cardinality(Q) :
                   i > 0 => \E q \in Q : Cardinality(Upto(q)) = i}
<1>1. Cardinality(Q) \in Nat
  BY FS_CardinalityType
<1>2. 0 \in S
  BY <1>1
<1>3. ASSUME NEW i \in 1..Cardinality(Q), i - 1 \in S
      PROVE  i \in S
  <2>1. PICK P : /\ P \subseteq Q /\ IsFiniteSet(P) /\ Cardinality(P) = i - 1
                 /\ \A p \in P, q \in Q \ P : p < q
    <3>1. CASE i = 1
      <4>1. /\ {} \subseteq Q /\ IsFiniteSet({}) /\ Cardinality({}) = i - 1
            /\ \A p \in {}, q \in Q \ {} : p < q
        BY <3>1, FS_EmptySet
      <4> QED
        BY <4>1
    <3>2. CASE i # 1
      <4>1. PICK r \in Q : Cardinality(Upto(r)) = i - 1
        BY <1>1, <1>3, <3>2
      <4>2. Upto(r) \subseteq Q /\ IsFiniteSet(Upto(r))
        BY FS_Subset
      <4>3. \A p \in Upto(r), q \in Q \ Upto(r) : p < q
        OBVIOUS
      <4> QED
        BY <4>1, <4>2, <4>3
    <3> QED
      BY <3>1, <3>2
  <2>2. Q \ P # {}
    <3>1. P # Q
      BY <1>1, <2>1
    <3> QED
      BY <2>1, <3>1
  <2>3. PICK q \in Q \ P : \A x \in Q \ P : q <= x
    BY <2>2, LeastNumber
  <2>4. Upto(q) = P \cup {q}
    <3>1. ASSUME NEW p \in Q, p <= q
          PROVE  p \in P \cup {q}
      <4>1. CASE p \in P
        BY <4>1
      <4>2. CASE p \notin P
        <5>1. q <= p /\ p \in Nat /\ q \in Nat
          BY <2>3, <4>2
        <5> QED
          BY <3>1, <5>1
      <4> QED
        BY <4>1, <4>2
    <3>2. \A p \in P \cup {q} : p \in Q /\ p <= q
      <4>1. \A p \in P : p \in Nat /\ q \in Nat /\ p < q
        BY <2>1
      <4>2. q \in Q /\ q <= q
        BY <2>3
      <4> QED
        BY <2>1, <4>1, <4>2
    <3>3. \A p : p \in Upto(q) <=> p \in Q /\ p <= q
      OBVIOUS
    <3> HIDE DEF Upto
    <3> QED
      BY <3>1, <3>2, <3>3
  <2>5. Cardinality(Upto(q)) = i
    BY <2>1, <2>4, FS_AddElement
  <2> HIDE DEF Upto
  <2> QED
    BY <2>5
<1> HIDE DEF S
<1>4. 0..Cardinality(Q) \subseteq S
  BY <1>1, <1>2, <1>3, Climb
<1> QED
  BY <1>1, <1>4 DEF S

(* A batch is a list of the sequence numbers it was cut from. *)
LEMMA BatchWithin ==
    ASSUME NEW Q, Q \subseteq Nat, IsFiniteSet(Q), NEW limit \in Nat
    PROVE  Batch(Q, limit) \in Seq(Q)
<1> DEFINE rank(q) == Cardinality({p \in Q : p <= q})
           n == Min({Cardinality(Q), limit})
           b == [i \in 1..n |-> CHOOSE q \in Q : rank(q) = i]
<1>1. Batch(Q, limit) = b
  BY DEF Batch
<1>2. Cardinality(Q) \in Nat
  BY FS_CardinalityType
<1>3. n \in Nat /\ n <= Cardinality(Q)
  <2>1. {Cardinality(Q), limit} \subseteq Nat
    BY <1>2
  <2> QED
    BY <2>1, HasMin
<1>4. \A i \in 1..n : (CHOOSE q \in Q : rank(q) = i) \in Q
  <2>1. \A i \in 1..n : i \in 1..Cardinality(Q)
    BY <1>2, <1>3
  <2>2. \A i \in 1..n : \E q \in Q : rank(q) = i
    BY <2>1, RankExists
  <2> HIDE DEF rank, n
  <2> QED
    BY <2>2
<1>5. b \in [1..n -> Q]
  <2> HIDE DEF n, rank
  <2> QED
    BY <1>4
<1> HIDE DEF b, n
<1> QED
  BY <1>1, <1>3, <1>5, SeqDef

-----------------------------------------------------------------------------
(* Feeds. *)

Ops == {"upsert", "delete"}

Changes == [seq : Nat, doc : Docs, version : Versions, op : Ops, state : States]

Databases == Nodes \cup {Hub}

(* t is s with entries added to its feed, none of them a local change that  *)
(* counts as pushed.                                                        *)
Grows(s, t) ==
    /\ t \in Stores /\ t.base = s.base
    /\ Len(s.feed) <= Len(t.feed)
    /\ \A i \in 1..Len(s.feed) : t.feed[i] = s.feed[i]
    /\ \A i \in (Len(s.feed) + 1)..Len(t.feed) :
          t.feed[i].pushed => t.feed[i].source = "remote"

LEMMA StoreFields ==
    ASSUME NEW s \in Stores
    PROVE  /\ s.docs \in [Docs -> States] /\ s.colls \subseteq Collections
           /\ s.feed \in Seq(FeedEntries) /\ s.base \in Nat /\ s.vseq \in Nat
           /\ Len(s.feed) \in Nat /\ DOMAIN s.feed = 1..Len(s.feed)
           /\ \A i \in 1..Len(s.feed) : s.feed[i] \in FeedEntries
<1>1. s.feed \in Seq(FeedEntries)
  BY DEF Stores
<1> QED
  BY <1>1, LenProperties, ElementOfSeq DEF Stores

LEMMA GrowsSelf == ASSUME NEW s \in Stores PROVE Grows(s, s)
BY StoreFields DEF Grows

LEMMA GrowsOn ==
    ASSUME NEW s \in Stores, NEW t, NEW u, Grows(s, t), Grows(t, u)
    PROVE  Grows(s, u)
<1>1. Len(s.feed) \in Nat /\ Len(t.feed) \in Nat /\ Len(u.feed) \in Nat
  BY StoreFields DEF Grows
<1>2. \A i \in 1..Len(s.feed) : i \in 1..Len(t.feed) /\ u.feed[i] = s.feed[i]
  BY <1>1 DEF Grows
<1>3. ASSUME NEW i \in (Len(s.feed) + 1)..Len(u.feed), u.feed[i].pushed
      PROVE  u.feed[i].source = "remote"
  <2>1. CASE i <= Len(t.feed)
    <3>1. i \in 1..Len(t.feed) /\ i \in (Len(s.feed) + 1)..Len(t.feed)
      BY <1>1, <2>1
    <3> QED
      BY <1>3, <3>1 DEF Grows
  <2>2. CASE ~(i <= Len(t.feed))
    <3>1. i \in (Len(t.feed) + 1)..Len(u.feed)
      BY <1>1, <2>2
    <3> QED
      BY <1>3, <3>1 DEF Grows
  <2> QED
    BY <2>1, <2>2
<1> QED
  BY <1>1, <1>2, <1>3 DEF Grows

LEMMA LogGrows ==
    ASSUME NEW s \in Stores, NEW d \in Docs, NEW op \in Ops,
           NEW version \in Versions, NEW source \in {"local", "remote"}
    PROVE  Grows(s, Log(s, d, op, version, source))
<1> DEFINE e == [doc |-> d, op |-> op, version |-> version, source |-> source,
                 pushed |-> source = "remote"]
           t == Log(s, d, op, version, source)
<1>1. e \in FeedEntries /\ (e.pushed => e.source = "remote")
  BY DEF FeedEntries, Ops
<1>2. t = [s EXCEPT !.feed = Append(s.feed, e)]
  BY DEF Log
<1> HIDE DEF e, t
<1>3. /\ Append(s.feed, e) \in Seq(FeedEntries)
      /\ Len(Append(s.feed, e)) = Len(s.feed) + 1
      /\ \A i \in 1..Len(s.feed) : Append(s.feed, e)[i] = s.feed[i]
      /\ Append(s.feed, e)[Len(s.feed) + 1] = e
  BY <1>1, StoreFields, AppendProperties
<1>4. /\ t \in Stores /\ t.base = s.base /\ t.feed = Append(s.feed, e)
  BY <1>2, <1>3 DEF Stores
<1>5. \A i \in (Len(s.feed) + 1)..Len(t.feed) : i = Len(s.feed) + 1
  BY <1>3, <1>4, StoreFields
<1> QED
  BY <1>1, <1>3, <1>4, <1>5, StoreFields DEF Grows, t

LEMMA RecordLocalGrows ==
    ASSUME NEW s \in Stores, NEW me \in Databases, NEW d \in Docs, NEW op \in Ops,
           NEW ts \in Nat
    PROVE  Grows(s, RecordLocal(s, me, d, op, ts))
<1> DEFINE l == Log(s, d, op, MakeVersion(ts, me, s.vseq), "local")
<1>1. MakeVersion(ts, me, s.vseq) \in Versions
  BY StoreFields DEF MakeVersion, Versions, Databases
<1>2. Grows(s, l)
  BY <1>1, LogGrows
<1>3. RecordLocal(s, me, d, op, ts) = [l EXCEPT !.vseq = l.vseq + 1]
  BY DEF RecordLocal
<1> HIDE DEF l
<1>4. Grows(l, [l EXCEPT !.vseq = l.vseq + 1])
  <2>1. l \in Stores /\ l.vseq + 1 \in Nat
    BY <1>2, StoreFields DEF Grows
  <2>2. /\ [l EXCEPT !.vseq = l.vseq + 1] \in Stores
        /\ [l EXCEPT !.vseq = l.vseq + 1].feed = l.feed
        /\ [l EXCEPT !.vseq = l.vseq + 1].base = l.base
    BY <2>1 DEF Stores
  <2> QED
    BY <2>1, <2>2, StoreFields DEF Grows
<1> QED
  BY <1>2, <1>3, <1>4, GrowsOn

LEMMA PutGrows ==
    ASSUME NEW s \in Stores, NEW d \in Docs, NEW state \in States
    PROVE  Grows(s, Put(s, d, state))
<1> DEFINE t == Put(s, d, state)
<1>1. CollOf[d] \in Collections
  BY EngineAssumption
<1>2. t \in Stores /\ t.feed = s.feed /\ t.base = s.base
  BY <1>1 DEF Put, Stores
<1> QED
  BY <1>2, StoreFields DEF Grows

LEMMA AbsentIsState == Absent \in States
BY DEF Absent, States

LEMMA LocalWriteGrows ==
    ASSUME NEW s \in Stores, NEW me \in Databases, NEW d \in Docs, NEW op \in Ops,
           NEW ts \in Nat
    PROVE  Grows(s, LocalWrite(s, me, d, op, ts))
<1> DEFINE r == RecordLocal(s, me, d, op, ts)
           state == IF op = "delete" THEN Absent
                    ELSE [origin |-> MakeVersion(ts, me, s.vseq), live |-> TRUE]
<1>1. Grows(s, r) /\ r \in Stores
  BY RecordLocalGrows DEF Grows
<1>2. state \in States
  BY AbsentIsState, StoreFields DEF MakeVersion, Versions, States, Databases
<1>3. LocalWrite(s, me, d, op, ts) = Put(r, d, state)
  BY DEF LocalWrite
<1> HIDE DEF r, state
<1> QED
  BY <1>1, <1>2, <1>3, PutGrows, GrowsOn

LEMMA ApplyRemoteGrows ==
    ASSUME NEW s \in Stores, NEW me \in Databases, NEW c \in Changes, NEW ts \in Nat,
           NEW resolver
    PROVE  Grows(s, ApplyRemote(s, me, c, ts, resolver))
<1>1. /\ c.doc \in Docs /\ c.op \in Ops /\ c.version \in Versions
      /\ c.state \in States
  BY DEF Changes
<1>2. Grows(s, Apply(s, c))
  <2> DEFINE l == Log(s, c.doc, c.op, c.version, "remote")
  <2>1. Grows(s, l) /\ l \in Stores
    BY <1>1, LogGrows DEF Grows
  <2>2. Apply(s, c) = Put(l, c.doc, c.state)
    BY DEF Apply
  <2> HIDE DEF l
  <2> QED
    BY <1>1, <2>1, <2>2, PutGrows, GrowsOn
<1>3. Grows(s, RecordLocal(s, me, c.doc, "upsert", ts))
  BY <1>1, RecordLocalGrows DEF Ops
<1> QED
  BY <1>2, <1>3, GrowsSelf DEF ApplyRemote

(* What holds at first, and after each change if before it, holds of a      *)
(* batch: R is the set of those pairs of a number of changes and a store.   *)
LEMMA ApplyAllReaches ==
    ASSUME NEW s \in Stores, NEW me \in Databases, NEW cs \in Seq(Changes), NEW ts \in Nat,
           NEW resolver, NEW R, <<0, s>> \in R,
           \A k \in 1..Len(cs), t \in Stores :
              <<k - 1, t>> \in R => <<k, ApplyRemote(t, me, cs[k], ts, resolver)>> \in R
    PROVE  <<Len(cs), ApplyAll(s, me, cs, ts, resolver)>> \in R
<1> DEFINE n == Len(cs)
           next(k, t) == ApplyRemote(t, me, cs[k], ts, resolver)
           step == [p \in (1..n) \X Stores |-> next(p[1], p[2])]
           Rec(g) == g = [k \in 0..n |-> IF k = 0 THEN s ELSE next(k, g[k - 1])]
           after == CHOOSE g : Rec(g)
<1>1. n \in Nat /\ \A k \in 1..n : cs[k] \in Changes
  BY LenProperties, ElementOfSeq
<1>2. \A k \in 1..n, t \in Stores : next(k, t) \in Stores
  BY <1>1, ApplyRemoteGrows DEF Grows
<1>3. \A k \in 1..n, t \in Stores : <<k - 1, t>> \in R => <<k, next(k, t)>> \in R
  OBVIOUS
<1> HIDE DEF next, n
<1>4. /\ step \in [(1..n) \X Stores -> Stores]
      /\ \A k \in 1..n, t \in Stores : step[<<k, t>>] = next(k, t)
  BY <1>2
<1> HIDE DEF step
<1>5. PICK g : Recursion(Stores, n, s, step, g)
  BY <1>1, <1>4, RecursionExists
<1>6. Rec(g)
  <2>1. \A k \in 0..n : g[k] = IF k = 0 THEN s ELSE next(k, g[k - 1])
    <3>1. \A k \in 1..n : g[k - 1] \in Stores
      BY <1>1, <1>5 DEF Recursion
    <3>2. \A k \in 1..n : step[<<k, g[k - 1]>>] = next(k, g[k - 1])
      BY <1>4, <3>1
    <3>3. \A k \in 0..n : k # 0 => k \in 1..n
      BY <1>1
    <3> QED
      BY <1>5, <3>2, <3>3 DEF Recursion
  <2> QED
    BY <1>5, <2>1 DEF Recursion
<1>7. Rec(after)
  BY <1>6
<1>8. \A k \in 0..n : after[k] = IF k = 0 THEN s ELSE next(k, after[k - 1])
  BY <1>7
<1> HIDE DEF after
<1>9. 0..n \subseteq {k \in 0..n : after[k] \in Stores /\ <<k, after[k]>> \in R}
  <2> DEFINE S == {k \in 0..n : after[k] \in Stores /\ <<k, after[k]>> \in R}
  <2>1. 0 \in S
    BY <1>1, <1>8
  <2>2. \A k \in 1..n : k - 1 \in S => k \in S
    <3>1. \A k \in 1..n : k \in 0..n /\ k # 0
      BY <1>1
    <3> QED
      BY <1>2, <1>3, <1>8, <3>1
  <2> HIDE DEF S
  <2>3. 0..n \subseteq S
    BY <1>1, <2>1, <2>2, Climb
  <2> QED
    BY <2>3 DEF S
<1>10. <<n, after[n]>> \in R
  BY <1>1, <1>9
<1>11. ApplyAll(s, me, cs, ts, resolver) = after[n]
  BY DEF ApplyAll, after, n, next
<1> QED
  BY <1>10, <1>11 DEF n

(* Whatever is applied, and however it ends, the feed only grows.           *)
LEMMA ApplyAllGrows ==
    ASSUME NEW s \in Stores, NEW me \in Databases, NEW cs \in Seq(Changes),
           NEW ts \in Nat, NEW resolver
    PROVE  Grows(s, ApplyAll(s, me, cs, ts, resolver))
<1> DEFINE R == {p \in Nat \X Stores : Grows(s, p[2])}
<1>1. <<0, s>> \in R
  BY GrowsSelf
<1>2. ASSUME NEW k \in 1..Len(cs), NEW t \in Stores, <<k - 1, t>> \in R
      PROVE  <<k, ApplyRemote(t, me, cs[k], ts, resolver)>> \in R
  <2> DEFINE u == ApplyRemote(t, me, cs[k], ts, resolver)
  <2>1. Len(cs) \in Nat /\ cs[k] \in Changes
    BY LenProperties, ElementOfSeq
  <2>2. Grows(s, t) /\ Grows(t, u)
    BY <1>2, <2>1, ApplyRemoteGrows
  <2> HIDE DEF u
  <2>3. Grows(s, u)
    BY <2>2, GrowsOn
  <2>4. u \in Stores
    BY <2>2 DEF Grows
  <2> QED
    BY <2>1, <2>3, <2>4 DEF u
<1> HIDE DEF R
<1>3. <<Len(cs), ApplyAll(s, me, cs, ts, resolver)>> \in R
  BY <1>1, <1>2, ApplyAllReaches
<1> QED
  BY <1>3 DEF R

LEMMA FunctionAsSeq ==
    ASSUME NEW S, NEW n \in Nat, NEW f \in [1..n -> S]
    PROVE  f \in Seq(S) /\ Len(f) = n
<1>1. f \in Seq(S) /\ DOMAIN f = 1..n
  BY SeqDef
<1>2. Len(f) \in Nat /\ 1..Len(f) = 1..n
  BY <1>1, LenProperties
<1>3. \A i \in Int : i \in 1..Len(f) <=> i \in 1..n
  BY <1>2
<1>4. (Len(f) >= 1 => Len(f) \in 1..Len(f)) /\ (n >= 1 => n \in 1..n)
  BY <1>2
<1> QED
  BY <1>1, <1>2, <1>3, <1>4

(* A finite set in some order. *)
LEMMA SetAsSeq ==
    ASSUME NEW S, IsFiniteSet(S)
    PROVE  SetToSeq(S) \in Seq(S)
<1>1. Cardinality(S) \in Nat /\ ExistsBijection(1..Cardinality(S), S)
  BY FS_CardinalityType
<1>2. \E f \in [1..Cardinality(S) -> S] : IsInjective(f)
  BY <1>1 DEF ExistsBijection, Bijection, Injection, IsInjective
<1>3. SetToSeq(S) \in [1..Cardinality(S) -> S]
  BY <1>2 DEF SetToSeq
<1> QED
  BY <1>1, <1>3, SeqDef

(* start() records documents one after the other.                           *)
LEMMA SeedReaches ==
    ASSUME NEW s \in Stores, NEW me \in Databases, NEW colls, NEW R, s \in R,
           \A d \in Docs, t \in Stores :
              t \in R => RecordLocal(t, me, d, "upsert", 0) \in R
    PROVE  Seed(s, me, colls) \in R
<1> DEFINE new == {d \in Docs : /\ CollOf[d] \in colls /\ s.docs[d].live
                                /\ Entries(s, d) = {}}
           missing == SetToSeq(new)
           n == Len(missing)
           next(k, t) == RecordLocal(t, me, missing[k], "upsert", 0)
           step == [p \in (1..n) \X Stores |-> next(p[1], p[2])]
           Rec(g) == g = [k \in 0..n |-> IF k = 0 THEN s ELSE next(k, g[k - 1])]
           after == CHOOSE g : Rec(g)
<1>1. n \in Nat /\ \A k \in 1..n : missing[k] \in Docs
  <2>1. IsFiniteSet(new) /\ new \subseteq Docs
    BY EngineAssumption, FS_Subset
  <2> HIDE DEF new
  <2>2. missing \in Seq(new)
    BY <2>1, SetAsSeq
  <2> HIDE DEF missing
  <2> QED
    BY <2>1, <2>2, LenProperties, ElementOfSeq
<1>2. \A k \in 1..n, t \in Stores : next(k, t) \in Stores
  BY <1>1, RecordLocalGrows DEF Grows, Ops
<1>3. \A k \in 1..n, t \in Stores : t \in R => next(k, t) \in R
  BY <1>1
<1> HIDE DEF next, n, missing
<1>4. /\ step \in [(1..n) \X Stores -> Stores]
      /\ \A k \in 1..n, t \in Stores : step[<<k, t>>] = next(k, t)
  BY <1>2
<1> HIDE DEF step
<1>5. PICK g : Recursion(Stores, n, s, step, g)
  BY <1>1, <1>4, RecursionExists
<1>6. Rec(g)
  <2>1. \A k \in 0..n : g[k] = IF k = 0 THEN s ELSE next(k, g[k - 1])
    <3>1. \A k \in 1..n : g[k - 1] \in Stores
      BY <1>1, <1>5 DEF Recursion
    <3>2. \A k \in 1..n : step[<<k, g[k - 1]>>] = next(k, g[k - 1])
      BY <1>4, <3>1
    <3>3. \A k \in 0..n : k # 0 => k \in 1..n
      BY <1>1
    <3> QED
      BY <1>5, <3>2, <3>3 DEF Recursion
  <2> QED
    BY <1>5, <2>1 DEF Recursion
<1>7. Rec(after)
  BY <1>6
<1>8. \A k \in 0..n : after[k] = IF k = 0 THEN s ELSE next(k, after[k - 1])
  BY <1>7
<1> HIDE DEF after
<1>9. 0..n \subseteq {k \in 0..n : after[k] \in Stores \cap R}
  <2> DEFINE S == {k \in 0..n : after[k] \in Stores \cap R}
  <2>1. 0 \in S
    BY <1>1, <1>8
  <2>2. \A k \in 1..n : k - 1 \in S => k \in S
    <3>1. \A k \in 1..n : k \in 0..n /\ k # 0
      BY <1>1
    <3> QED
      BY <1>2, <1>3, <1>8, <3>1
  <2> HIDE DEF S
  <2>3. 0..n \subseteq S
    BY <1>1, <2>1, <2>2, Climb
  <2> QED
    BY <2>3 DEF S
<1>10. after[n] \in R
  BY <1>1, <1>9
<1>11. Seed(s, me, colls) = after[n]
  BY DEF Seed, after, n, next, missing
<1> QED
  BY <1>10, <1>11

LEMMA SeedGrows ==
    ASSUME NEW s \in Stores, NEW me \in Databases, NEW colls
    PROVE  Grows(s, Seed(s, me, colls))
<1> DEFINE R == {t \in Stores : Grows(s, t)}
<1>1. s \in R
  BY GrowsSelf
<1>2. ASSUME NEW d \in Docs, NEW t \in Stores, t \in R
      PROVE  RecordLocal(t, me, d, "upsert", 0) \in R
  <2> DEFINE u == RecordLocal(t, me, d, "upsert", 0)
  <2>1. Grows(s, t) /\ Grows(t, u)
    BY <1>2, RecordLocalGrows DEF Ops
  <2> HIDE DEF u
  <2>2. Grows(s, u) /\ u \in Stores
    BY <2>1, GrowsOn DEF Grows
  <2> QED
    BY <2>2 DEF u
<1> HIDE DEF R
<1>3. Seed(s, me, colls) \in R
  BY <1>1, <1>2, SeedReaches
<1> QED
  BY <1>3 DEF R

LEMMA SeqsFinite ==
    ASSUME NEW s \in Stores
    PROVE  Seqs(s) \subseteq Nat /\ IsFiniteSet(Seqs(s))
<1>1. s.base + 1 \in Int /\ s.base + Len(s.feed) \in Int /\ s.base \in Nat
  BY StoreFields
<1>2. IsFiniteSet((s.base + 1)..(s.base + Len(s.feed)))
  BY <1>1, FS_Interval
<1> QED
  BY <1>1, <1>2 DEF Seqs

LEMMA ChangeAtIsChange ==
    ASSUME NEW s \in Stores, NEW q \in Seqs(s)
    PROVE  ChangeAt(s, q) \in Changes
<1>1. q \in Nat /\ q - s.base \in 1..Len(s.feed)
  BY StoreFields DEF Seqs
<1>2. Entry(s, q) \in FeedEntries
  BY <1>1, StoreFields DEF Entry
<1>3. /\ Entry(s, q).doc \in Docs /\ Entry(s, q).version \in Versions
      /\ s.docs[Entry(s, q).doc] \in States
  BY <1>2, StoreFields DEF FeedEntries
<1> QED
  BY <1>1, <1>3, AbsentIsState DEF ChangeAt, Changes, Ops

(* A batch of a feed's sequence numbers, as the changes they stand for.     *)
LEMMA BatchIsChanges ==
    ASSUME NEW s \in Stores, NEW Q, Q \subseteq Seqs(s), NEW limit \in Nat
    PROVE  LET b == Batch(Q, limit)
           IN /\ b \in Seq(Nat)
              /\ [i \in DOMAIN b |-> ChangeAt(s, b[i])] \in Seq(Changes)
<1> DEFINE b == Batch(Q, limit)
<1>1. Q \subseteq Nat /\ IsFiniteSet(Q)
  BY SeqsFinite, FS_Subset
<1>2. b \in Seq(Q)
  BY <1>1, BatchWithin
<1> HIDE DEF b
<1>3. Len(b) \in Nat /\ DOMAIN b = 1..Len(b) /\ \A i \in 1..Len(b) : b[i] \in Q
  BY <1>2, LenProperties, ElementOfSeq
<1>4. [i \in 1..Len(b) |-> ChangeAt(s, b[i])] \in [1..Len(b) -> Changes]
  BY <1>3, ChangeAtIsChange
<1>5. [i \in 1..Len(b) |-> ChangeAt(s, b[i])] \in Seq(Changes)
  BY <1>3, <1>4, SeqDef
<1>6. b \in Seq(Nat)
  <2>1. b \in [1..Len(b) -> Q]
    BY <1>2, LenProperties
  <2>2. b \in [1..Len(b) -> Nat]
    BY <1>1, <2>1
  <2> QED
    BY <1>3, <2>2, SeqDef
<1> QED
  BY <1>3, <1>5, <1>6 DEF b

(* What pending() sends are changes of the database. *)
LEMMA PendingIsChanges ==
    ASSUME NEW s \in Stores, NEW colls, NEW limit \in Nat
    PROVE  Pending(s, colls, limit) \in Seq(Changes)
<1> DEFINE Q == Latest(s, Within(s, Unpushed(s), colls))
<1>1. Q \subseteq Seqs(s)
  BY DEF Latest, Within, Unpushed
<1> HIDE DEF Q
<1>2. [i \in DOMAIN Batch(Q, limit) |-> ChangeAt(s, Batch(Q, limit)[i])] \in Seq(Changes)
  BY <1>1, BatchIsChanges
<1> QED
  BY <1>2 DEF Pending, Q

(* So are those of changesSince(), and its watermark is a number.           *)
LEMMA ChangesSinceTyped ==
    ASSUME NEW s \in Stores, NEW from \in Nat, NEW colls, NEW limit \in Nat
    PROVE  ChangesSince(s, from, colls, limit) \in
              [changes : Seq(Changes), cursor : Nat]
<1> DEFINE Q == Latest(s, Within(s, {q \in Seqs(s) : q > from}, colls))
           b == Batch(Q, limit)
           cs == [i \in DOMAIN b |-> ChangeAt(s, b[i])]
<1>1. Q \subseteq Seqs(s)
  BY DEF Latest, Within
<1>2. ChangesSince(s, from, colls, limit) =
        [changes |-> cs, cursor |-> IF b = << >> THEN from ELSE b[Len(b)]]
  BY DEF ChangesSince
<1> HIDE DEF Q
<1>3. b \in Seq(Nat) /\ cs \in Seq(Changes)
  BY <1>1, BatchIsChanges
<1> HIDE DEF b, cs
<1>4. b # << >> => b[Len(b)] \in Nat
  <2>1. b # << >> => Len(b) \in 1..Len(b)
    BY <1>3, EmptySeq, LenProperties
  <2> QED
    BY <1>3, <2>1, ElementOfSeq
<1> QED
  BY <1>2, <1>3, <1>4

-----------------------------------------------------------------------------
(* Nothing is marked as pushed, and nothing that has still to be pushed is  *)
(* lost.                                                                    *)
Keeps(s, t) ==
    /\ \A q \in Seqs(t) : Entry(t, q).source = "local" /\ Entry(t, q).pushed =>
          q \in Seqs(s) /\ Entry(s, q) = Entry(t, q)
    /\ Unpushed(s) \subseteq Unpushed(t)

LEMMA GrowsKeeps ==
    ASSUME NEW s \in Stores, NEW t, Grows(s, t)
    PROVE  Keeps(s, t)
<1>1. /\ s.base \in Nat /\ t.base = s.base
      /\ Len(s.feed) \in Nat /\ Len(t.feed) \in Nat /\ Len(s.feed) <= Len(t.feed)
  BY StoreFields DEF Grows
<1>2. \A q \in Seqs(s) : q \in Seqs(t) /\ Entry(t, q) = Entry(s, q)
  <2>1. SUFFICES ASSUME NEW q \in Seqs(s)
                 PROVE  q \in Seqs(t) /\ Entry(t, q) = Entry(s, q)
    OBVIOUS
  <2>2. q \in Seqs(t) /\ q - s.base \in 1..Len(s.feed)
    BY <1>1 DEF Seqs
  <2> QED
    BY <1>1, <2>2 DEF Grows, Entry
<1>3. ASSUME NEW q \in Seqs(t), q \notin Seqs(s), Entry(t, q).pushed
      PROVE  Entry(t, q).source # "local"
  <2>1. q - s.base \in (Len(s.feed) + 1)..Len(t.feed)
    BY <1>1, <1>3 DEF Seqs
  <2> QED
    BY <1>1, <1>3, <2>1 DEF Grows, Entry
<1> QED
  BY <1>2, <1>3 DEF Keeps, Unpushed

LEMMA SameFeedKeeps ==
    ASSUME NEW s, NEW t, t.feed = s.feed, t.base = s.base
    PROVE  Keeps(s, t)
BY DEF Keeps, Seqs, Entry, Unpushed

LEMMA KeepsOn ==
    ASSUME NEW s, NEW t, NEW u, Keeps(s, t), Keeps(t, u)
    PROVE  Keeps(s, u)
BY DEF Keeps

(* The last number of a feed that is not empty is that of its last entry.   *)
LEMMA CurrentSeqIs ==
    ASSUME NEW s \in Stores
    PROVE  CurrentSeq(s) = IF Len(s.feed) = 0 THEN 0 ELSE s.base + Len(s.feed)
<1>1. s.base \in Nat /\ Len(s.feed) \in Nat
  BY StoreFields
<1> DEFINE S == Seqs(s) \cup {0}
           top == s.base + Len(s.feed)
<1>2. S \subseteq Nat /\ S # {} /\ top \in Nat /\ \A x \in S : x <= top
  BY <1>1 DEF Seqs
<1>3. Max(S) \in S /\ \A x \in S : x <= Max(S)
  BY <1>2, HasMax
<1>4. CASE Len(s.feed) = 0
  <2>1. S = {0}
    BY <1>1, <1>4 DEF Seqs
  <2> QED
    BY <1>3, <1>4, <2>1 DEF CurrentSeq
<1>5. CASE Len(s.feed) # 0
  <2>1. top \in S
    BY <1>1, <1>5 DEF Seqs
  <2> HIDE DEF S
  <2>2. Max(S) \in Nat /\ Max(S) <= top /\ top <= Max(S) /\ top \in Nat
    BY <1>2, <1>3, <2>1
  <2> HIDE DEF top
  <2>3. Max(S) = top
    BY <2>2
  <2> QED
    BY <1>5, <2>3 DEF CurrentSeq, S, top
<1> QED
  BY <1>4, <1>5

(* compact() *)
LEMMA CompactKeeps ==
    ASSUME NEW s \in Stores, NEW keepLast \in Nat
    PROVE  Compact(s, keepLast) \in Stores /\ Keeps(s, Compact(s, keepLast))
<1> DEFINE t == Compact(s, keepLast)
           N == Len(s.feed)
           last == {CurrentSeq(s) - keepLast} \cup {q - 1 : q \in Unpushed(s)}
           cut == Max({Min(last), s.base})
<1>1. /\ s.base \in Nat /\ N \in Nat /\ s.feed \in Seq(FeedEntries)
      /\ \A i \in 1..N : s.feed[i] \in FeedEntries
  BY StoreFields
<1>2. CASE CurrentSeq(s) <= keepLast
  <2>1. t = s
    BY <1>2 DEF Compact
  <2> QED
    BY <2>1, SameFeedKeeps
<1>3. CASE ~(CurrentSeq(s) <= keepLast)
  <2>1. N > 0 /\ CurrentSeq(s) = s.base + N
    BY <1>1, <1>3, CurrentSeqIs
  <2>2. last \subseteq Nat /\ last # {}
    <3>1. CurrentSeq(s) - keepLast \in Nat
      BY <1>1, <1>3, <2>1
    <3>2. \A q \in Unpushed(s) : q - 1 \in Nat
      BY <1>1 DEF Unpushed, Seqs
    <3> QED
      BY <3>1, <3>2
  <2>3. /\ Min(last) \in Nat /\ Min(last) <= s.base + N
        /\ \A q \in Unpushed(s) : Min(last) <= q - 1
    <3>1. Min(last) \in last /\ \A x \in last : Min(last) <= x
      BY <2>2, HasMin
    <3>2. CurrentSeq(s) - keepLast \in last /\ CurrentSeq(s) - keepLast <= s.base + N
      BY <1>1, <2>1
    <3>3. \A q \in Unpushed(s) : q - 1 \in last
      OBVIOUS
    <3>4. CurrentSeq(s) - keepLast \in Int
      BY <1>1, <2>1
    <3> HIDE DEF last
    <3>5. Min(last) \in Nat /\ Min(last) <= CurrentSeq(s) - keepLast
      BY <2>2, <3>1, <3>2
    <3>6. s.base + N \in Nat
      BY <1>1
    <3> HIDE DEF N
    <3>7. Min(last) <= s.base + N
      BY <3>2, <3>4, <3>5, <3>6
    <3> QED
      BY <3>1, <3>3, <3>5, <3>7
  <2> HIDE DEF last
  <2>4. cut \in {Min(last), s.base} /\ s.base <= cut
    <3>1. {Min(last), s.base} \subseteq Nat /\ s.base + N \in Nat
          /\ \A x \in {Min(last), s.base} : x <= s.base + N
      BY <1>1, <2>3
    <3> QED
      BY <3>1, HasMax
  <2>5. cut \in Nat /\ cut <= s.base + N
    BY <1>1, <2>3, <2>4
  <2>6. t = [s EXCEPT !.feed = SubSeq(s.feed, cut - s.base + 1, N), !.base = cut]
    BY <1>3 DEF Compact, last
  <2> HIDE DEF cut
  <2> DEFINE rest == SubSeq(s.feed, cut - s.base + 1, N)
  <2>7. /\ rest \in Seq(FeedEntries)
        /\ Len(rest) = N - (cut - s.base)
        /\ \A i \in 1..Len(rest) : rest[i] = s.feed[i + (cut - s.base)]
    <3> DEFINE m == cut - s.base + 1
    <3>1. m \in Int /\ N \in Int /\ \A i \in m..N : s.feed[i] \in FeedEntries
      BY <1>1, <2>4, <2>5
    <3>2. (IF m <= N THEN N - m + 1 ELSE 0) = N - (cut - s.base)
          /\ N - m + 1 = N - (cut - s.base)
          /\ \A i \in 1..(N - m + 1) : m + i - 1 = i + (cut - s.base)
      BY <1>1, <2>4, <2>5
    <3>3. /\ rest = SubSeq(s.feed, m, N)
          /\ SubSeq(s.feed, m, N) \in Seq(FeedEntries)
          /\ Len(SubSeq(s.feed, m, N)) = IF m <= N THEN N - m + 1 ELSE 0
          /\ \A i \in 1..(N - m + 1) : SubSeq(s.feed, m, N)[i] = s.feed[m + i - 1]
      <4> HIDE DEF N, m
      <4>1. /\ SubSeq(s.feed, m, N) \in Seq(FeedEntries)
            /\ Len(SubSeq(s.feed, m, N)) = IF m <= N THEN N - m + 1 ELSE 0
            /\ \A i \in 1..(N - m + 1) : SubSeq(s.feed, m, N)[i] = s.feed[m + i - 1]
        BY <3>1, SubSeqProperties
      <4> QED
        BY <4>1 DEF m
    <3> HIDE DEF rest, m, N
    <3> QED
      BY <3>2, <3>3
  <2>8. t \in Stores /\ t.feed = rest /\ t.base = cut
    <3> HIDE DEF rest
    <3> QED
      BY <2>5, <2>6, <2>7 DEF Stores, rest
  <2> HIDE DEF rest, t
  <2>9. \A q : q \in Seqs(t) <=> q \in Seqs(s) /\ q > cut
    BY <1>1, <2>4, <2>5, <2>7, <2>8 DEF Seqs
  <2>10. \A q \in Seqs(t) : Entry(t, q) = Entry(s, q)
    <3>1. SUFFICES ASSUME NEW q \in Seqs(t) PROVE Entry(t, q) = Entry(s, q)
      OBVIOUS
    <3>2. q - cut \in 1..Len(rest) /\ (q - cut) + (cut - s.base) = q - s.base
      BY <1>1, <2>5, <2>7, <2>8 DEF Seqs
    <3> QED
      BY <2>7, <2>8, <3>2 DEF Entry
  <2>11. \A q \in Unpushed(s) : q > cut
    BY <1>1, <2>3, <2>4 DEF Unpushed, Seqs
  <2>12. Keeps(s, t)
    BY <2>9, <2>10, <2>11 DEF Keeps, Unpushed
  <2> QED
    BY <2>8, <2>12 DEF t
<1> QED
  BY <1>2, <1>3

(* markPushed() marks local changes up to those that were acknowledged.     *)
LEMMA MarkPushedMarks ==
    ASSUME NEW s \in Stores, NEW cs
    PROVE  /\ MarkPushed(s, cs) \in Stores
           /\ Seqs(MarkPushed(s, cs)) = Seqs(s)
           /\ \A q \in Seqs(s) :
                LET e == Entry(MarkPushed(s, cs), q)
                IN \/ e = Entry(s, q)
                   \/ \E k \in DOMAIN cs : cs[k].doc = e.doc /\ q <= cs[k].seq
<1> DEFINE hit(i) == /\ s.feed[i].source = "local"
                     /\ \E k \in DOMAIN cs : /\ cs[k].doc = s.feed[i].doc
                                             /\ s.base + i <= cs[k].seq
           g == [i \in 1..Len(s.feed) |->
                   IF hit(i) THEN [s.feed[i] EXCEPT !.pushed = TRUE] ELSE s.feed[i]]
           t == MarkPushed(s, cs)
<1>1. /\ s.base \in Nat /\ Len(s.feed) \in Nat /\ DOMAIN s.feed = 1..Len(s.feed)
      /\ \A i \in 1..Len(s.feed) : s.feed[i] \in FeedEntries
  BY StoreFields
<1>2. t = [s EXCEPT !.feed = g]
  BY <1>1 DEF MarkPushed
<1>3. \A i \in 1..Len(s.feed) :
         /\ g[i] \in FeedEntries /\ g[i].doc = s.feed[i].doc
         /\ ~hit(i) => g[i] = s.feed[i]
  <2> HIDE DEF hit
  <2> QED
    BY <1>1 DEF FeedEntries
<1> HIDE DEF hit
<1>4. g \in [1..Len(s.feed) -> FeedEntries]
  BY <1>3
<1> HIDE DEF g
<1>5. g \in Seq(FeedEntries) /\ Len(g) = Len(s.feed)
  BY <1>1, <1>4, FunctionAsSeq
<1>6. t \in Stores /\ t.feed = g /\ t.base = s.base
  BY <1>2, <1>5 DEF Stores
<1> HIDE DEF t
<1>7. Seqs(t) = Seqs(s)
  BY <1>5, <1>6 DEF Seqs
<1>8. ASSUME NEW q \in Seqs(s), Entry(t, q) # Entry(s, q)
      PROVE  \E k \in DOMAIN cs : cs[k].doc = Entry(t, q).doc /\ q <= cs[k].seq
  <2>1. q - s.base \in 1..Len(s.feed) /\ s.base + (q - s.base) = q
    BY <1>1 DEF Seqs
  <2>2. hit(q - s.base) /\ Entry(t, q).doc = s.feed[q - s.base].doc
    BY <1>3, <1>6, <1>8, <2>1 DEF Entry
  <2> QED
    BY <2>1, <2>2 DEF hit
<1> QED
  BY <1>6, <1>7, <1>8 DEF t

LEMMA ReopenKeeps ==
    ASSUME NEW s \in Stores
    PROVE  Reopen(s) \in Stores /\ Keeps(s, Reopen(s))
<1> DEFINE own == {q \in Seqs(s) : Entry(s, q).source = "local"}
           v == IF own = {} THEN 0 ELSE Entry(s, Max(own)).version[3] + 1
<1>1. v \in Nat
  <2>1. CASE own # {}
    <3>1. own \subseteq Nat /\ s.base + Len(s.feed) \in Nat
          /\ \A q \in own : q <= s.base + Len(s.feed)
      BY StoreFields DEF Seqs
    <3>2. Max(own) \in Seqs(s)
      BY <2>1, <3>1, HasMax
    <3>3. Max(own) - s.base \in 1..Len(s.feed)
      BY <3>2, StoreFields DEF Seqs
    <3>4. Entry(s, Max(own)) \in FeedEntries
      BY <3>3, StoreFields DEF Entry
    <3>5. Entry(s, Max(own)).version \in Versions
      BY <3>4 DEF FeedEntries
    <3>6. Entry(s, Max(own)).version[3] \in Nat
      BY <3>5 DEF Versions
    <3> QED
      BY <2>1, <3>6
  <2> QED
    BY <2>1
<1>2. Reopen(s) = [s EXCEPT !.vseq = v]
  BY DEF Reopen
<1> HIDE DEF v
<1>3. Reopen(s) \in Stores /\ Reopen(s).feed = s.feed /\ Reopen(s).base = s.base
  BY <1>1, <1>2 DEF Stores
<1> QED
  BY <1>3, SameFeedKeeps

-----------------------------------------------------------------------------
(* The engine. *)

Batches(cursors) == [changes : Seq(Changes), cursor : cursors]

(* The types of the engine's state, where cursors of the remote are the     *)
(* members of the given set.                                                *)
EngineTyped(cursors) ==
    /\ store \in [Nodes -> Stores]
    /\ cursor \in [Nodes -> cursors]
    /\ everPushed \in [Nodes -> BOOLEAN]
    /\ phase \in [Nodes -> Phases]
    /\ inbox \in [Nodes -> Batches(cursors)]
    /\ outbox \in [Nodes -> Seq(Changes)]
    /\ acked \in [Nodes -> Seq(Changes)]

(* What is under way only in some phases, and the bounds of the model.      *)
EngineHolds ==
    /\ \A n \in Nodes :
         /\ inbox[n].changes # << >> => phase[n] = "apply"
         /\ outbox[n] # << >> => phase[n] = "send"
         /\ acked[n] # << >> => phase[n] \in {"send", "ack"}
    /\ now \in 0..MaxTime /\ writes \in 0..MaxWrites
    /\ faults \in 0..MaxFaults /\ crashes \in 0..MaxCrashes

LEMMA Numbered ==
    /\ Hub \in Nat /\ Nodes \subseteq Nat
    /\ \A n \in Databases : Skew[n] \in Nat
    /\ BatchSize \in Nat /\ BatchSize # 0
    /\ MaxTime \in Nat /\ MaxWrites \in Nat /\ MaxFaults \in Nat /\ MaxCrashes \in Nat
BY EngineAssumption DEF Databases

LEMMA ClockTicks ==
    ASSUME now \in Nat, NEW n \in Databases
    PROVE  Clock(n) \in Nat
BY Numbered DEF Clock

LEMMA NothingIsChanges == << >> \in Seq(Changes) /\ Len(<< >>) = 0
BY EmptySeq

LEMMA Prefix ==
    ASSUME NEW cs \in Seq(Changes), NEW k \in 0..Len(cs)
    PROVE  SubSeq(cs, 1, k) \in Seq(Changes)
<1>1. Len(cs) \in Nat /\ \A i \in 1..Len(cs) : cs[i] \in Changes
  BY LenProperties, ElementOfSeq
<1>2. \A i \in 1..k : cs[i] \in Changes
  BY <1>1
<1>3. k \in Int /\ 1 \in Int
  BY <1>1
<1> QED
  BY <1>2, <1>3, SubSeqProperties

(* The first k changes of a list. *)
LEMMA PrefixIs ==
    ASSUME NEW cs \in Seq(Changes), NEW k \in 0..Len(cs)
    PROVE  /\ SubSeq(cs, 1, k) \in Seq(Changes) /\ Len(SubSeq(cs, 1, k)) = k
           /\ k \in Nat /\ k <= Len(cs) /\ Len(cs) \in Nat
           /\ \A i \in 1..k : i \in 1..Len(cs) /\ SubSeq(cs, 1, k)[i] = cs[i]
<1>1. Len(cs) \in Nat /\ \A i \in 1..Len(cs) : cs[i] \in Changes
  BY LenProperties, ElementOfSeq
<1>2. k \in Nat /\ k <= Len(cs) /\ k - 1 + 1 = k /\ \A i \in 1..k : 1 + i - 1 = i
  BY <1>1
<1>3. \A i \in 1..k : i \in 1..Len(cs) /\ cs[i] \in Changes
  BY <1>1
<1>4. /\ Len(SubSeq(cs, 1, k)) = IF 1 <= k THEN k - 1 + 1 ELSE 0
      /\ \A i \in 1..(k - 1 + 1) : SubSeq(cs, 1, k)[i] = cs[1 + i - 1]
  BY <1>2, <1>3, SubSeqProperties
<1> QED
  BY <1>1, <1>2, <1>3, <1>4, Prefix

(* The node of a step, whose store becomes t.                               *)
LEMMA StoreSet ==
    ASSUME NEW cursors, EngineTyped(cursors), NEW n \in Nodes, NEW t \in Stores,
           store' = [store EXCEPT ![n] = t]
    PROVE  /\ store' \in [Nodes -> Stores]
           /\ Keeps(store[n], t) => \A m \in Nodes : Keeps(store[m], store'[m])
<1>1. store' \in [Nodes -> Stores]
  BY DEF EngineTyped
<1>2. ASSUME Keeps(store[n], t), NEW m \in Nodes
      PROVE  Keeps(store[m], store'[m])
  <2>1. store'[m] = IF m = n THEN t ELSE store[m]
    BY DEF EngineTyped
  <2>2. m # n => Keeps(store[m], store'[m])
    BY <2>1, SameFeedKeeps
  <2> QED
    BY <1>2, <2>1, <2>2
<1> QED
  BY <1>1, <1>2

LEMMA StoresAlone ==
    ASSUME store' = store
    PROVE  \A m \in Nodes : Keeps(store[m], store'[m])
BY SameFeedKeeps

LEMMA GrowsIsStore ==
    ASSUME NEW s \in Stores, NEW t, Grows(s, t)
    PROVE  t \in Stores /\ Keeps(s, t)
BY GrowsKeeps DEF Grows

(* How far a batch has been applied. *)
LEMMA AppliedKeeps ==
    ASSUME NEW cursors, EngineTyped(cursors), now \in Nat, NEW n \in Nodes,
           NEW k \in 0..Len(inbox[n].changes)
    PROVE  Applied(n, k) \in Stores /\ Keeps(store[n], Applied(n, k))
<1>1. /\ store[n] \in Stores /\ inbox[n].changes \in Seq(Changes)
      /\ n \in Databases
  BY DEF EngineTyped, Batches, Databases
<1>2. SubSeq(inbox[n].changes, 1, k) \in Seq(Changes) /\ Clock(n) \in Nat
  BY <1>1, Prefix, ClockTicks
<1>3. Grows(store[n], Applied(n, k))
  BY <1>1, <1>2, ApplyAllGrows DEF Applied
<1> QED
  BY <1>1, <1>3, GrowsIsStore

(* The application's own steps, and start(). *)
LEMMA ApplicationKeeps ==
    ASSUME NEW cursors, EngineTyped(cursors), now \in Nat, NEW n \in Nodes,
           \/ \E d \in Docs, op \in {"upsert", "delete"} : Write(n, d, op)
           \/ \E c \in Collections : OpenCollection(n, c)
           \/ CompactChanges(n) \/ Start(n)
    PROVE  /\ store' \in [Nodes -> Stores]
           /\ \A m \in Nodes : Keeps(store[m], store'[m])
<1>1. store[n] \in Stores /\ n \in Databases
  BY DEF EngineTyped, Databases
<1>2. ASSUME NEW d \in Docs, NEW op \in Ops, Write(n, d, op)
      PROVE  /\ store' \in [Nodes -> Stores]
             /\ \A m \in Nodes : Keeps(store[m], store'[m])
  <2> DEFINE t == LocalWrite(store[n], n, d, op, Clock(n))
  <2>1. t \in Stores /\ Keeps(store[n], t)
    BY <1>1, LocalWriteGrows, GrowsIsStore, ClockTicks
  <2>2. store' = [store EXCEPT ![n] = t]
    BY <1>2 DEF Write
  <2> HIDE DEF t
  <2> QED
    BY <2>1, <2>2, StoreSet
<1>3. ASSUME NEW c \in Collections, OpenCollection(n, c)
      PROVE  /\ store' \in [Nodes -> Stores]
             /\ \A m \in Nodes : Keeps(store[m], store'[m])
  <2> DEFINE t == [store[n] EXCEPT !.colls = store[n].colls \cup {c}]
  <2>1. t \in Stores /\ t.feed = store[n].feed /\ t.base = store[n].base
    BY <1>1 DEF Stores
  <2>2. store' = [store EXCEPT ![n] = t]
    BY <1>3 DEF OpenCollection, EngineTyped
  <2> HIDE DEF t
  <2> QED
    BY <2>1, <2>2, SameFeedKeeps, StoreSet
<1>4. ASSUME CompactChanges(n)
      PROVE  /\ store' \in [Nodes -> Stores]
             /\ \A m \in Nodes : Keeps(store[m], store'[m])
  <2> DEFINE t == Compact(store[n], KeepLast)
  <2>1. KeepLast \in Nat /\ store' = [store EXCEPT ![n] = t]
    BY <1>4, EngineAssumption DEF CompactChanges
  <2>2. t \in Stores /\ Keeps(store[n], t)
    BY <1>1, <2>1, CompactKeeps
  <2> HIDE DEF t
  <2> QED
    BY <2>1, <2>2, StoreSet
<1>5. ASSUME Start(n)
      PROVE  /\ store' \in [Nodes -> Stores]
             /\ \A m \in Nodes : Keeps(store[m], store'[m])
  <2> DEFINE t == Seed(store[n], n, Colls(n))
  <2>1. t \in Stores /\ Keeps(store[n], t)
    BY <1>1, SeedGrows, GrowsIsStore
  <2>2. store' = store \/ store' = [store EXCEPT ![n] = t]
    BY <1>5 DEF Start
  <2> HIDE DEF t
  <2> QED
    BY <2>1, <2>2, StoreSet, StoresAlone DEF EngineTyped
<1> QED
  BY <1>2, <1>3, <1>4, <1>5 DEF Ops

(* The engine's steps of a round, without what the remote answers.          *)
RoundStep(n) ==
    \/ BeginRound(n) \/ ApplyPulled(n) \/ ApplyFails(n)
    \/ ReadPending(n) \/ RetriesExhausted(n) \/ Crash(n)

LEMMA RoundKeeps ==
    ASSUME NEW cursors, EngineTyped(cursors), now \in Nat, NEW n \in Nodes,
           RoundStep(n)
    PROVE  /\ store' \in [Nodes -> Stores]
           /\ \A m \in Nodes : Keeps(store[m], store'[m])
<1>1. store[n] \in Stores /\ Len(inbox[n].changes) \in Nat
  BY LenProperties DEF EngineTyped, Batches
<1>2. CASE store' = store
  BY <1>2, StoresAlone DEF EngineTyped
<1>3. ASSUME NEW k \in 0..Len(inbox[n].changes),
             store' = [store EXCEPT ![n] = Applied(n, k)]
      PROVE  /\ store' \in [Nodes -> Stores]
             /\ \A m \in Nodes : Keeps(store[m], store'[m])
  BY <1>3, AppliedKeeps, StoreSet
<1>4. CASE Crash(n)
  <2>1. PICK k \in 0..Len(inbox[n].changes) :
           store' = [store EXCEPT ![n] = Reopen(Applied(n, k))]
    BY <1>4 DEF Crash
  <2>2. Applied(n, k) \in Stores /\ Keeps(store[n], Applied(n, k))
    BY AppliedKeeps
  <2>3. Reopen(Applied(n, k)) \in Stores /\ Keeps(store[n], Reopen(Applied(n, k)))
    BY <2>2, ReopenKeeps, KeepsOn
  <2> QED
    BY <2>1, <2>3, StoreSet
<1>5. CASE ApplyPulled(n)
  <2>1. /\ Len(inbox[n].changes) \in 0..Len(inbox[n].changes)
        /\ store' = [store EXCEPT ![n] = Applied(n, Len(inbox[n].changes))]
    BY <1>1, <1>5 DEF ApplyPulled
  <2> QED
    BY <1>3, <2>1
<1>6. CASE ApplyFails(n)
  <2>1. PICK k \in 0..(Len(inbox[n].changes) - 1) :
           store' = [store EXCEPT ![n] = Applied(n, k)]
    BY <1>6 DEF ApplyFails
  <2>2. k \in 0..Len(inbox[n].changes)
    BY <1>1
  <2> QED
    BY <1>3, <2>1, <2>2
<1>7. BeginRound(n) \/ ReadPending(n) \/ RetriesExhausted(n) => store' = store
  BY DEF BeginRound, ReadPending, RetriesExhausted
<1> QED
  BY <1>2, <1>4, <1>5, <1>6, <1>7 DEF RoundStep

(* A batch that was worked off leaves the inbox empty.                      *)
LEMMA InboxStaysTyped ==
    ASSUME NEW cursors, EngineTyped(cursors), NEW n \in Nodes,
           cursor' \in [Nodes -> cursors], InboxEmptied(n)
    PROVE  /\ inbox' \in [Nodes -> Batches(cursors)]
           /\ inbox'[n].changes = << >>
           /\ \A m \in Nodes : m # n => inbox'[m] = inbox[m]
<1> DEFINE nothing == [changes |-> << >>, cursor |-> cursor'[n]]
<1>1. nothing \in Batches(cursors) /\ nothing.changes = << >>
  BY NothingIsChanges DEF Batches
<1>2. inbox' = [inbox EXCEPT ![n] = nothing]
  BY DEF InboxEmptied
<1> HIDE DEF nothing
<1> QED
  BY <1>1, <1>2 DEF EngineTyped

(* No step of a node but MarkAcked() takes a change out of the push queue.  *)
LEMMA NodeKeeps ==
    ASSUME NEW cursors, EngineTyped(cursors), now \in Nat, NEW n \in Nodes,
           NodeStep(n)
    PROVE  /\ store' \in [Nodes -> Stores]
           /\ MarkAcked(n) \/ \A m \in Nodes : Keeps(store[m], store'[m])
<1>1. CASE MarkAcked(n)
  <2> DEFINE t == MarkPushed(store[n], acked[n])
  <2>1. t \in Stores /\ store' = [store EXCEPT ![n] = t]
    BY <1>1, MarkPushedMarks DEF MarkAcked, EngineTyped
  <2> HIDE DEF t
  <2> QED
    BY <1>1, <2>1, StoreSet
<1>2. CASE RoundStep(n)
  BY <1>2, RoundKeeps
<1>3. CASE \/ \E d \in Docs, op \in {"upsert", "delete"} : Write(n, d, op)
           \/ \E c \in Collections : OpenCollection(n, c)
           \/ CompactChanges(n) \/ Start(n)
  BY <1>3, ApplicationKeeps
<1> QED
  BY <1>1, <1>2, <1>3 DEF NodeStep, RoundStep

(* What a step of a node keeps of the engine's state beside the databases.  *)
LEMMA NodeTyped ==
    ASSUME NEW cursors, EngineTyped(cursors), EngineHolds, NEW n \in Nodes,
           NodeStep(n)
    PROVE  /\ EngineTyped(cursors)' /\ EngineHolds'
           /\ \A m \in Nodes : acked'[m] \in {acked[m], << >>}
<1>0. now \in Nat
  BY Numbered DEF EngineHolds
<1>1. store' \in [Nodes -> Stores]
  BY <1>0, NodeKeeps
<1>2. /\ store[n] \in Stores /\ inbox[n] \in Batches(cursors)
      /\ inbox[n].cursor \in cursors /\ << >> \in Seq(Changes)
  BY NothingIsChanges DEF EngineTyped, Batches
<1>3. CASE ApplyPulled(n) \/ ApplyFails(n) \/ Crash(n)
  <2>1. cursor' \in [Nodes -> cursors] /\ InboxEmptied(n)
    BY <1>2, <1>3 DEF ApplyPulled, ApplyFails, Crash, EngineTyped
  <2>2. /\ inbox' \in [Nodes -> Batches(cursors)]
        /\ inbox'[n].changes = << >>
        /\ \A m \in Nodes : m # n => inbox'[m] = inbox[m]
    BY <2>1, InboxStaysTyped
  <2>3. /\ everPushed' = everPushed
        /\ outbox' \in {outbox, [outbox EXCEPT ![n] = << >>]}
        /\ acked' \in {acked, [acked EXCEPT ![n] = << >>]}
        /\ \E p \in {"push", "idle", "off"} : phase' = [phase EXCEPT ![n] = p]
        /\ now' = now /\ writes' = writes
    <3>1. CASE ApplyPulled(n)
      BY <3>1 DEF ApplyPulled, limits
    <3>2. CASE ApplyFails(n)
      BY <3>2 DEF ApplyFails
    <3>3. CASE Crash(n)
      BY <3>3 DEF Crash
    <3> QED
      BY <1>3, <3>1, <3>2, <3>3
  <2>4. faults' \in 0..MaxFaults /\ crashes' \in 0..MaxCrashes
    <3>1. /\ faults' = faults \/ (faults < MaxFaults /\ faults' = faults + 1)
          /\ crashes' = crashes \/ (crashes < MaxCrashes /\ crashes' = crashes + 1)
      BY <1>3 DEF ApplyPulled, ApplyFails, Crash, limits
    <3> QED
      BY <3>1, Numbered DEF EngineHolds
  <2>5. /\ outbox' \in [Nodes -> Seq(Changes)] /\ acked' \in [Nodes -> Seq(Changes)]
        /\ phase' \in [Nodes -> Phases]
        /\ \A m \in Nodes : acked'[m] \in {acked[m], << >>}
    BY <1>2, <2>3, ZenonT(60) DEF EngineTyped, Phases
  <2>6. \A m \in Nodes :
           /\ inbox'[m].changes # << >> => phase'[m] = "apply"
           /\ outbox'[m] # << >> => phase'[m] = "send"
           /\ acked'[m] # << >> => phase'[m] \in {"send", "ack"}
    <3>1. \A m \in Nodes : m # n =>
             phase'[m] = phase[m] /\ outbox'[m] = outbox[m] /\ acked'[m] = acked[m]
      BY <2>3 DEF EngineTyped
    <3>2. outbox'[n] = << >> /\ acked'[n] = << >>
      BY <1>3, <2>3 DEF EngineTyped, EngineHolds, ApplyPulled, ApplyFails, Crash
    <3> QED
      BY <2>2, <3>1, <3>2 DEF EngineHolds
  <2> QED
    BY <1>1, <2>1, <2>2, <2>3, <2>4, <2>5, <2>6 DEF EngineTyped, EngineHolds
<1>4. CASE ReadPending(n)
  <2> DEFINE pending == Pending(store[n], Explicit, BatchSize)
  <2>1. pending \in Seq(Changes)
    BY <1>2, PendingIsChanges, Numbered
  <2>2. /\ outbox' = [outbox EXCEPT ![n] = pending]
        /\ phase' = [phase EXCEPT ![n] = IF pending = << >> THEN "idle" ELSE "send"]
        /\ phase[n] = "push"
    BY <1>4 DEF ReadPending
  <2> HIDE DEF pending
  <2>3. /\ outbox' \in [Nodes -> Seq(Changes)] /\ phase' \in [Nodes -> Phases]
        /\ UNCHANGED <<store, cursor, everPushed, inbox, acked, limits>>
    BY <1>4, <2>1, <2>2 DEF EngineTyped, Phases, ReadPending
  <2>4. \A m \in Nodes :
           /\ inbox[m].changes # << >> => phase'[m] = "apply"
           /\ outbox'[m] # << >> => phase'[m] = "send"
           /\ acked[m] # << >> => phase'[m] \in {"send", "ack"}
    BY <2>2 DEF EngineTyped, EngineHolds
  <2> QED
    BY <2>3, <2>4 DEF EngineTyped, EngineHolds, limits
<1>5. CASE MarkAcked(n) \/ RetriesExhausted(n)
  <2>1. /\ outbox' \in {outbox, [outbox EXCEPT ![n] = << >>]}
        /\ acked' = [acked EXCEPT ![n] = << >>]
        /\ phase' = [phase EXCEPT ![n] = "idle"]
        /\ cursor' = cursor /\ inbox' = inbox
        /\ now' = now /\ writes' = writes /\ crashes' = crashes
        /\ phase[n] \in {"pull", "send", "ack"}
    BY <1>5 DEF MarkAcked, RetriesExhausted, limits
  <2>2. everPushed' \in [Nodes -> BOOLEAN]
    BY <1>5 DEF MarkAcked, RetriesExhausted, EngineTyped
  <2>3. faults' \in 0..MaxFaults
    BY <1>5, Numbered DEF MarkAcked, RetriesExhausted, EngineHolds, limits
  <2>4. /\ outbox' \in [Nodes -> Seq(Changes)] /\ acked' \in [Nodes -> Seq(Changes)]
        /\ phase' \in [Nodes -> Phases]
        /\ \A m \in Nodes : acked'[m] \in {acked[m], << >>}
    BY <1>2, <2>1 DEF EngineTyped, Phases
  <2>5. outbox'[n] = << >>
    BY <1>5 DEF MarkAcked, RetriesExhausted, EngineTyped, EngineHolds
  <2>6. \A m \in Nodes :
           /\ inbox[m].changes # << >> => phase'[m] = "apply"
           /\ outbox'[m] # << >> => phase'[m] = "send"
           /\ acked'[m] # << >> => phase'[m] \in {"send", "ack"}
    BY <2>1, <2>5 DEF EngineTyped, EngineHolds
  <2> QED
    BY <1>1, <2>1, <2>2, <2>3, <2>4, <2>6 DEF EngineTyped, EngineHolds
<1>6. CASE Start(n) \/ BeginRound(n)
  <2>1. /\ phase' = [phase EXCEPT ![n] = "pull"] /\ phase[n] \in {"off", "idle"}
        /\ UNCHANGED <<cursor, everPushed, inbox, outbox, acked, limits>>
    BY <1>6 DEF Start, BeginRound
  <2> QED
    BY <1>1, <2>1 DEF EngineTyped, EngineHolds, Phases, limits
<1>7. CASE \/ \E d \in Docs, op \in {"upsert", "delete"} : Write(n, d, op)
           \/ \E c \in Collections : OpenCollection(n, c)
           \/ CompactChanges(n)
  <2>1. UNCHANGED <<engine, now, faults, crashes>>
    BY <1>7 DEF Write, OpenCollection, CompactChanges, limits
  <2>2. writes' \in 0..MaxWrites
    BY <1>7, Numbered DEF Write, OpenCollection, CompactChanges, limits, EngineHolds
  <2> QED
    BY <1>1, <2>1, <2>2 DEF EngineTyped, EngineHolds, engine
<1> QED
  BY <1>3, <1>4, <1>5, <1>6, <1>7 DEF NodeStep
-----------------------------------------------------------------------------
(* Versions. *)

LEMMA VersionIs ==
    ASSUME NEW a \in Versions
    PROVE  /\ a[1] \in Nat /\ a[2] \in Databases /\ a[2] \in Nat /\ a[3] \in Nat
           /\ a = <<a[1], a[2], a[3]>> /\ a # << >>
<1>1. Databases \subseteq Nat
  BY Numbered DEF Databases
<1>2. a \in Nat \X Databases \X Nat
  BY DEF Versions, Databases
<1>3. PICK x \in Nat, y \in Databases, z \in Nat : a = <<x, y, z>>
  BY <1>2
<1>4. a[1] = x /\ a[2] = y /\ a[3] = z
  BY <1>3
<1>5. <<x, y, z>> # << >>
  OBVIOUS
<1> QED
  BY <1>1, <1>3, <1>4, <1>5

(* Versions are in order as the numbers in them are.                        *)
LEMMA NewerIs ==
    ASSUME NEW a \in Versions, NEW b \in Versions
    PROVE  /\ Newer(a, b) <=> \/ a[1] > b[1]
                              \/ a[1] = b[1] /\ a[2] > b[2]
                              \/ a[1] = b[1] /\ a[2] = b[2] /\ a[3] > b[3]
           /\ a # NoVersion
           /\ a[1] \in Nat /\ a[2] \in Databases /\ a[2] \in Nat /\ a[3] \in Nat
           /\ a = <<a[1], a[2], a[3]>>
<1>1. /\ a[1] \in Nat /\ a[2] \in Nat /\ a[3] \in Nat /\ a[2] \in Databases
      /\ b[1] \in Nat /\ b[2] \in Nat /\ b[3] \in Nat /\ a = <<a[1], a[2], a[3]>>
  BY VersionIs
<1>2. a # << >> /\ b # << >>
  BY VersionIs
<1> DEFINE At(k) == a[k] > b[k] /\ \A j \in 1..(k - 1) : a[j] = b[j]
<1>3. Newer(a, b) <=> At(1) \/ At(2) \/ At(3)
  <2>1. \A k : k \in 1..3 <=> k = 1 \/ k = 2 \/ k = 3
    OBVIOUS
  <2>2. Newer(a, b) <=> \E k \in 1..3 : At(k)
    BY <1>2 DEF Newer, NoVersion
  <2> HIDE DEF At
  <2> QED
    BY <2>1, <2>2
<1>4. At(1) <=> a[1] > b[1]
  <2>1. \A j : ~(j \in 1..(1 - 1))
    OBVIOUS
  <2> QED
    BY <2>1
<1>5. At(2) <=> a[2] > b[2] /\ a[1] = b[1]
  <2>1. \A j : j \in 1..(2 - 1) <=> j = 1
    OBVIOUS
  <2> QED
    BY <2>1
<1>6. At(3) <=> a[3] > b[3] /\ a[1] = b[1] /\ a[2] = b[2]
  <2>1. \A j : j \in 1..(3 - 1) <=> j = 1 \/ j = 2
    OBVIOUS
  <2> QED
    BY <2>1
<1> HIDE DEF At
<1> QED
  BY <1>1, <1>2, <1>3, <1>4, <1>5, <1>6 DEF NoVersion

AtMost(v, w) == v = w \/ Newer(w, v)

LEMMA NewerOn ==
    ASSUME NEW a \in Versions, NEW b \in Versions, NEW c \in Versions,
           Newer(a, b), AtMost(c, b)
    PROVE  Newer(a, c) /\ AtMost(c, a) /\ a # c
<1>1. CASE c = b
  BY <1>1, NewerIs DEF AtMost
<1>2. CASE Newer(b, c)
  <2> DEFINE More(x, y) == \/ x[1] > y[1]
                           \/ x[1] = y[1] /\ x[2] > y[2]
                           \/ x[1] = y[1] /\ x[2] = y[2] /\ x[3] > y[3]
  <2>1. /\ \A x, y \in {a, b, c} : Newer(x, y) <=> More(x, y)
        /\ \A x \in {a, b, c} : x[1] \in Nat /\ x[2] \in Nat /\ x[3] \in Nat
    BY NewerIs
  <2>2. More(a, b) /\ More(b, c)
    BY <1>2, <2>1
  <2>3. More(a, c) /\ ~More(c, c)
    BY <2>1, <2>2
  <2> HIDE DEF More
  <2> QED
    BY <2>1, <2>3 DEF AtMost
<1> QED
  BY <1>1, <1>2 DEF AtMost

-----------------------------------------------------------------------------
(* A feed of which nothing was compacted away.                              *)
Whole(s) == s \in Stores /\ s.base = 0

LastOf(s, d) == Max(Entries(s, d))

LEMMA FeedIs ==
    ASSUME NEW s, Whole(s)
    PROVE  /\ Len(s.feed) \in Nat /\ s.vseq \in Nat
           /\ Seqs(s) = 1..Len(s.feed) /\ CurrentSeq(s) = Len(s.feed)
           /\ \A q \in Seqs(s) : Entry(s, q) = s.feed[q] /\ Entry(s, q) \in FeedEntries
           /\ \A d \in Docs : s.docs[d] \in States
<1>1. /\ s.base = 0 /\ Len(s.feed) \in Nat /\ s.vseq \in Nat /\ s.docs \in [Docs -> States]
      /\ \A i \in 1..Len(s.feed) : s.feed[i] \in FeedEntries
  BY StoreFields DEF Whole
<1>2. Seqs(s) = 1..Len(s.feed)
  BY <1>1 DEF Seqs
<1>3. CurrentSeq(s) = Len(s.feed)
  BY <1>1, CurrentSeqIs DEF Whole
<1>4. \A q \in 1..Len(s.feed) : q - 0 = q
  OBVIOUS
<1> QED
  BY <1>1, <1>2, <1>3, <1>4 DEF Entry

LEMMA LastIs ==
    ASSUME NEW s, Whole(s), NEW d
    PROVE  /\ Entries(s, d) \subseteq Seqs(s)
           /\ Entries(s, d) = {} => CurrentVersion(s, d) = NoVersion
           /\ Entries(s, d) # {} =>
                /\ LastOf(s, d) \in Entries(s, d) /\ LastOf(s, d) \in Nat
                /\ \A q \in Entries(s, d) : q <= LastOf(s, d)
                /\ CurrentVersion(s, d) = Entry(s, LastOf(s, d)).version
                /\ CurrentVersion(s, d) \in Versions
<1>1. Entries(s, d) \subseteq 1..Len(s.feed) /\ Len(s.feed) \in Nat
      /\ Seqs(s) = 1..Len(s.feed)
  BY FeedIs DEF Entries
<1>2. ASSUME Entries(s, d) # {}
      PROVE  /\ LastOf(s, d) \in Entries(s, d)
             /\ \A q \in Entries(s, d) : q <= LastOf(s, d)
  <2>1. Entries(s, d) \subseteq Nat /\ \A x \in Entries(s, d) : x <= Len(s.feed)
    BY <1>1
  <2> QED
    BY <1>1, <1>2, <2>1, HasMax DEF LastOf
<1>3. ASSUME Entries(s, d) # {}
      PROVE  /\ CurrentVersion(s, d) = Entry(s, LastOf(s, d)).version
             /\ CurrentVersion(s, d) \in Versions
  <2>1. CurrentVersion(s, d) = Entry(s, LastOf(s, d)).version
    BY <1>3 DEF CurrentVersion, LastOf
  <2>2. Entry(s, LastOf(s, d)) \in FeedEntries
    BY <1>1, <1>2, <1>3, FeedIs
  <2> QED
    BY <2>1, <2>2 DEF FeedEntries
<1> QED
  BY <1>1, <1>2, <1>3 DEF CurrentVersion

(* One more entry.                                                          *)
Adds(s, t, e) == /\ Whole(s) /\ Whole(t) /\ e \in FeedEntries
                 /\ t.feed = Append(s.feed, e)

(* Nothing about d has changed but maybe the document.                      *)
Quiet(s, t, d) == /\ Entries(t, d) = Entries(s, d) /\ LastOf(t, d) = LastOf(s, d)
                  /\ CurrentVersion(t, d) = CurrentVersion(s, d)

(* Every entry is still there as it was.                                    *)
Extends(s, t) == /\ Seqs(s) \subseteq Seqs(t)
                 /\ \A q \in Seqs(s) : Entry(t, q) = Entry(s, q)

LEMMA AddsOne ==
    ASSUME NEW s, NEW t, NEW e, Adds(s, t, e)
    PROVE  /\ Extends(s, t) /\ CurrentSeq(t) = CurrentSeq(s) + 1
           /\ CurrentSeq(t) \in Seqs(t) /\ CurrentSeq(s) \in Nat
           /\ \A q \in Seqs(t) : (q \in Seqs(s) /\ q <= CurrentSeq(s)) \/ q = CurrentSeq(t)
           /\ Entry(t, CurrentSeq(t)) = e
           /\ Entries(t, e.doc) # {} /\ LastOf(t, e.doc) = CurrentSeq(t)
           /\ CurrentVersion(t, e.doc) = e.version
           /\ \A d : d # e.doc => Quiet(s, t, d)
<1> DEFINE N == Len(s.feed)
<1>1. /\ N \in Nat /\ Len(t.feed) = N + 1
      /\ \A i \in 1..N : t.feed[i] = s.feed[i]
      /\ t.feed[N + 1] = e
  <2>1. s.feed \in Seq(FeedEntries)
    BY StoreFields DEF Adds, Whole
  <2> QED
    BY <2>1, AppendProperties, FeedIs DEF Adds
<1>2. /\ Seqs(s) = 1..N /\ Seqs(t) = 1..(N + 1) /\ CurrentSeq(s) = N /\ CurrentSeq(t) = N + 1
      /\ \A q \in Seqs(s) : Entry(s, q) = s.feed[q]
      /\ \A q \in Seqs(t) : Entry(t, q) = t.feed[q]
  BY <1>1, FeedIs DEF Adds
<1> HIDE DEF N
<1>3. Extends(s, t) /\ N + 1 \in Seqs(t) /\ Entry(t, N + 1) = e
      /\ \A q \in Seqs(t) : (q \in Seqs(s) /\ q <= N) \/ q = N + 1
  BY <1>1, <1>2 DEF Extends
<1>4. /\ N + 1 \in Entries(t, e.doc)
      /\ \A d : d # e.doc => Entries(t, d) = Entries(s, d)
  BY <1>3 DEF Entries, Extends
<1>5. LastOf(t, e.doc) = N + 1
  <2>1. /\ LastOf(t, e.doc) \in Seqs(t) /\ LastOf(t, e.doc) \in Nat
        /\ N + 1 <= LastOf(t, e.doc)
    BY <1>4, LastIs DEF Adds
  <2> QED
    BY <1>1, <1>2, <2>1
<1>6. CurrentVersion(t, e.doc) = e.version
  BY <1>3, <1>4, <1>5, LastIs DEF Adds
<1>7. ASSUME NEW d, d # e.doc
      PROVE  Quiet(s, t, d)
  <2>1. Entries(t, d) = Entries(s, d) /\ LastOf(t, d) = LastOf(s, d)
    BY <1>4, <1>7 DEF LastOf
  <2>2. CASE Entries(s, d) = {}
    BY <2>1, <2>2 DEF Quiet, CurrentVersion
  <2>3. CASE Entries(s, d) # {}
    <3>1. LastOf(s, d) \in Seqs(s)
      BY <2>3, LastIs DEF Adds
    <3>2. /\ CurrentVersion(s, d) = Entry(s, LastOf(s, d)).version
          /\ CurrentVersion(t, d) = Entry(t, LastOf(t, d)).version
      BY <2>1, <2>3, LastIs DEF Adds
    <3> QED
      BY <1>3, <2>1, <3>1, <3>2 DEF Quiet, Extends
  <2> QED
    BY <2>2, <2>3
<1> QED
  BY <1>1, <1>2, <1>3, <1>4, <1>5, <1>6, <1>7

-----------------------------------------------------------------------------
(* What the application, a conflict or start() records, ...                 *)
Records(s, t, n, d, op, ts) ==
    /\ Adds(s, t, [doc |-> d, op |-> op, version |-> <<ts, n, s.vseq>>,
                   source |-> "local", pushed |-> FALSE])
    /\ t.vseq = s.vseq + 1
    /\ \A x \in Docs \ {d} : t.docs[x] = s.docs[x]
    /\ op = "delete" => ~t.docs[d].live
    /\ s.colls \subseteq t.colls

(* ... and what is taken over from elsewhere.                               *)
Takes(s, t, c) ==
    /\ Adds(s, t, [doc |-> c.doc, op |-> c.op, version |-> c.version,
                   source |-> "remote", pushed |-> TRUE])
    /\ t.vseq = s.vseq
    /\ \A x \in Docs \ {c.doc} : t.docs[x] = s.docs[x]
    /\ t.docs[c.doc] = c.state
    /\ s.colls \subseteq t.colls

LEMMA LogAdds ==
    ASSUME NEW s, Whole(s), NEW d \in Docs, NEW op \in Ops, NEW version \in Versions,
           NEW source \in {"local", "remote"}
    PROVE  /\ Adds(s, Log(s, d, op, version, source),
                   [doc |-> d, op |-> op, version |-> version, source |-> source,
                    pushed |-> source = "remote"])
           /\ Log(s, d, op, version, source).vseq = s.vseq
           /\ Log(s, d, op, version, source).docs = s.docs
           /\ Log(s, d, op, version, source).colls = s.colls
<1> DEFINE e == [doc |-> d, op |-> op, version |-> version, source |-> source,
                 pushed |-> source = "remote"]
           t == Log(s, d, op, version, source)
<1>1. e \in FeedEntries
  BY DEF FeedEntries, Ops
<1>2. t \in Stores
  BY LogGrows DEF Grows, Whole
<1>3. t = [s EXCEPT !.feed = Append(s.feed, e)]
  BY DEF Log
<1> HIDE DEF e, t
<1>4. /\ t.base = s.base /\ t.feed = Append(s.feed, e) /\ t.vseq = s.vseq
      /\ t.docs = s.docs /\ t.colls = s.colls
  BY <1>3 DEF Whole, Stores
<1>5. Adds(s, t, e)
  BY <1>1, <1>2, <1>4 DEF Adds, Whole
<1> QED
  BY <1>4, <1>5 DEF e, t

LEMMA RecordLocalRecords ==
    ASSUME NEW s, Whole(s), NEW n \in Databases, NEW d \in Docs, NEW ts \in Nat, NEW op \in Ops
    PROVE  LET t == RecordLocal(s, n, d, op, ts)
           IN /\ t \in Stores /\ t.vseq = s.vseq + 1
              /\ t.docs = s.docs /\ t.colls = s.colls
              /\ Adds(s, t, [doc |-> d, op |-> op, version |-> <<ts, n, s.vseq>>,
                             source |-> "local", pushed |-> FALSE])
<1> DEFINE v == <<ts, n, s.vseq>>
           e == [doc |-> d, op |-> op, version |-> v, source |-> "local", pushed |-> FALSE]
           l == Log(s, d, op, v, "local")
           t == RecordLocal(s, n, d, op, ts)
<1>1. v \in Versions /\ s.vseq \in Nat
  BY FeedIs DEF Versions, Databases
<1> HIDE DEF v
<1>2. Adds(s, l, e) /\ l.vseq = s.vseq /\ l.docs = s.docs /\ l.colls = s.colls
  <2>1. ("local" = "remote") = FALSE
    OBVIOUS
  <2> QED
    BY <1>1, <2>1, LogAdds
<1>3. t = [l EXCEPT !.vseq = l.vseq + 1]
  BY DEF RecordLocal, MakeVersion, v
<1>4. t \in Stores
  BY RecordLocalGrows DEF Grows, Whole
<1> HIDE DEF t, l, e
<1>5. /\ t.vseq = s.vseq + 1 /\ t.docs = s.docs /\ t.colls = s.colls
      /\ t.feed = l.feed /\ t.base = l.base
  BY <1>2, <1>3 DEF Adds, Whole, Stores
<1>6. Adds(s, t, e)
  BY <1>2, <1>4, <1>5 DEF Adds, Whole
<1> QED
  BY <1>4, <1>5, <1>6 DEF t, e, v

-----------------------------------------------------------------------------
LEMMA RecordLocalIs ==
    ASSUME NEW s, Whole(s), NEW n \in Databases, NEW d \in Docs, NEW ts \in Nat
    PROVE  /\ Records(s, RecordLocal(s, n, d, "upsert", ts), n, d, "upsert", ts)
           /\ RecordLocal(s, n, d, "upsert", ts).docs = s.docs
BY RecordLocalRecords DEF Records, Ops

LEMMA PutIs ==
    ASSUME NEW s \in Stores, NEW d \in Docs, NEW state \in States
    PROVE  /\ Put(s, d, state) \in Stores
           /\ Put(s, d, state).feed = s.feed /\ Put(s, d, state).base = s.base
           /\ Put(s, d, state).vseq = s.vseq /\ s.colls \subseteq Put(s, d, state).colls
           /\ Put(s, d, state).docs[d] = state
           /\ \A x \in Docs \ {d} : Put(s, d, state).docs[x] = s.docs[x]
<1>1. Put(s, d, state) \in Stores
  BY PutGrows DEF Grows
<1>2. s.docs \in [Docs -> States]
  BY StoreFields
<1> QED
  BY <1>1, <1>2 DEF Put, Stores

LEMMA LocalWriteRecords ==
    ASSUME NEW s, Whole(s), NEW n \in Databases, NEW d \in Docs, NEW op \in Ops, NEW ts \in Nat
    PROVE  Records(s, LocalWrite(s, n, d, op, ts), n, d, op, ts)
<1> DEFINE r == RecordLocal(s, n, d, op, ts)
           state == IF op = "delete" THEN Absent
                    ELSE [origin |-> MakeVersion(ts, n, s.vseq), live |-> TRUE]
           e == [doc |-> d, op |-> op, version |-> <<ts, n, s.vseq>>,
                 source |-> "local", pushed |-> FALSE]
           t == LocalWrite(s, n, d, op, ts)
<1>1. /\ r \in Stores /\ r.vseq = s.vseq + 1 /\ r.docs = s.docs /\ r.colls = s.colls
      /\ Adds(s, r, e)
  BY RecordLocalRecords
<1>2. state \in States
  <2>1. MakeVersion(ts, n, s.vseq) \in Versions
    BY FeedIs DEF MakeVersion, Versions, Databases
  <2> QED
    BY <2>1, AbsentIsState DEF States
<1>3. t = Put(r, d, state)
  BY DEF LocalWrite
<1>4. op = "delete" => ~state.live
  BY DEF Absent
<1> HIDE DEF r, state, e, t
<1>5. /\ t \in Stores /\ t.feed = r.feed /\ t.base = r.base /\ t.vseq = r.vseq
      /\ r.colls \subseteq t.colls /\ t.docs[d] = state
      /\ \A x \in Docs \ {d} : t.docs[x] = r.docs[x]
  BY <1>1, <1>2, <1>3, PutIs
<1>6. Adds(s, t, e)
  BY <1>1, <1>5 DEF Adds, Whole
<1> QED
  BY <1>1, <1>4, <1>5, <1>6 DEF Records, e, t

LEMMA ApplyTakes ==
    ASSUME NEW s, Whole(s), NEW c \in Changes
    PROVE  Takes(s, Apply(s, c), c)
<1> DEFINE l == Log(s, c.doc, c.op, c.version, "remote")
           e == [doc |-> c.doc, op |-> c.op, version |-> c.version,
                 source |-> "remote", pushed |-> TRUE]
           t == Apply(s, c)
<1>1. c.doc \in Docs /\ c.op \in Ops /\ c.version \in Versions /\ c.state \in States
  BY DEF Changes
<1>2. Adds(s, l, e) /\ l.vseq = s.vseq /\ l.docs = s.docs /\ l.colls = s.colls
  <2>1. ("remote" = "remote") = TRUE
    OBVIOUS
  <2> QED
    BY <1>1, <2>1, LogAdds
<1>3. t = Put(l, c.doc, c.state)
  BY DEF Apply
<1> HIDE DEF l, e, t
<1>4. /\ t \in Stores /\ t.feed = l.feed /\ t.base = l.base /\ t.vseq = l.vseq
      /\ l.colls \subseteq t.colls /\ t.docs[c.doc] = c.state
      /\ \A x \in Docs \ {c.doc} : t.docs[x] = l.docs[x]
  BY <1>1, <1>2, <1>3, PutIs DEF Adds, Whole
<1>5. Adds(s, t, e)
  BY <1>2, <1>4 DEF Adds, Whole
<1> QED
  BY <1>2, <1>4, <1>5 DEF Takes, e, t

(* The three things that applyRemote() may do.                              *)
Accepts(s, t, c, resolver) ==
    /\ Takes(s, t, c)
    /\ Entries(s, c.doc) # {} =>
          RemoteWins(c.version, CurrentVersion(s, c.doc), resolver)

Echoes(s, t, c) ==
    t = s /\ Entries(s, c.doc) # {} /\ CurrentVersion(s, c.doc) = c.version

Insists(s, t, n, c, ts) ==
    /\ Records(s, t, n, c.doc, "upsert", ts) /\ t.docs = s.docs
    /\ Entries(s, c.doc) # {}

LEMMA ApplyRemoteIs ==
    ASSUME NEW s, Whole(s), NEW n \in Databases, NEW c \in Changes, NEW ts \in Nat,
           NEW resolver
    PROVE  LET t == ApplyRemote(s, n, c, ts, resolver)
           IN \/ Accepts(s, t, c, resolver) \/ Echoes(s, t, c)
              \/ Insists(s, t, n, c, ts)
<1> DEFINE t == ApplyRemote(s, n, c, ts, resolver)
           local == CurrentVersion(s, c.doc)
<1> SUFFICES Accepts(s, t, c, resolver) \/ Echoes(s, t, c) \/ Insists(s, t, n, c, ts)
  OBVIOUS
<1>1. c.doc \in Docs
  BY DEF Changes
<1>2. local = NoVersion <=> Entries(s, c.doc) = {}
  <2>1. Entries(s, c.doc) # {} => local \in Versions
    BY LastIs
  <2>2. NoVersion \notin Versions
    BY VersionIs DEF NoVersion
  <2> QED
    BY <2>1, <2>2, LastIs
<1>3. Takes(s, Apply(s, c), c)
  BY ApplyTakes
<1>4. /\ Records(s, RecordLocal(s, n, c.doc, "upsert", ts), n, c.doc, "upsert", ts)
      /\ RecordLocal(s, n, c.doc, "upsert", ts).docs = s.docs
  BY <1>1, RecordLocalIs
<1>5. t = IF local = NoVersion THEN Apply(s, c)
          ELSE IF c.version = local THEN s
          ELSE IF RemoteWins(c.version, local, resolver) THEN Apply(s, c)
          ELSE RecordLocal(s, n, c.doc, "upsert", ts)
  BY DEF ApplyRemote
<1> HIDE DEF t
<1>6. CASE local = NoVersion
  BY <1>2, <1>3, <1>5, <1>6 DEF Accepts
<1>7. CASE local # NoVersion /\ c.version = local
  BY <1>2, <1>5, <1>7 DEF Echoes
<1>8. CASE /\ local # NoVersion /\ c.version # local
           /\ RemoteWins(c.version, local, resolver)
  BY <1>3, <1>5, <1>8 DEF Accepts
<1>9. CASE /\ local # NoVersion /\ c.version # local
           /\ ~RemoteWins(c.version, local, resolver)
  BY <1>2, <1>4, <1>5, <1>9 DEF Insists
<1> QED
  BY <1>6, <1>7, <1>8, <1>9

LEMMA TakesOneIsWhole ==
    ASSUME NEW s, NEW t, NEW n, NEW c, NEW ts, NEW resolver, Whole(s),
           Accepts(s, t, c, resolver) \/ Echoes(s, t, c) \/ Insists(s, t, n, c, ts)
    PROVE  Whole(t)
BY DEF Accepts, Echoes, Insists, Takes, Records, Adds

-----------------------------------------------------------------------------
(* A batch: the first of these numbers, in order, without a gap.            *)
LEMMA BatchIs ==
    ASSUME NEW Q, Q \subseteq Nat, IsFiniteSet(Q), NEW limit \in Nat \ {0}
    PROVE  LET b == Batch(Q, limit)
           IN /\ b \in Seq(Q)
              /\ \A i, j \in 1..Len(b) : i < j => b[i] < b[j]
              /\ Q # {} => Len(b) > 0
              /\ \A q \in Q : Len(b) > 0 /\ q <= b[Len(b)] => \E i \in 1..Len(b) : b[i] = q
<1> DEFINE rank(q) == Cardinality({p \in Q : p <= q})
           n == Min({Cardinality(Q), limit})
           b == Batch(Q, limit)
<1> SUFFICES /\ b \in Seq(Q)
             /\ \A i, j \in 1..Len(b) : i < j => b[i] < b[j]
             /\ Q # {} => Len(b) > 0
             /\ \A q \in Q : Len(b) > 0 /\ q <= b[Len(b)] => \E i \in 1..Len(b) : b[i] = q
  OBVIOUS
<1>1. b \in Seq(Q)
  BY BatchWithin
<1>2. b = [i \in 1..n |-> CHOOSE q \in Q : rank(q) = i]
  BY DEF Batch
<1> HIDE DEF b
<1>3. Cardinality(Q) \in Nat
  BY FS_CardinalityType
<1>4. n \in Nat /\ n <= Cardinality(Q) /\ (Cardinality(Q) > 0 => n > 0)
  <2>1. {Cardinality(Q), limit} \subseteq Nat
    BY <1>3
  <2>2. n \in {Cardinality(Q), limit} /\ \A x \in {Cardinality(Q), limit} : n <= x
    BY <2>1, HasMin
  <2> HIDE DEF n
  <2> QED
    BY <1>3, <2>2
<1>5. Len(b) = n
  <2>1. DOMAIN b = 1..n
    BY <1>2
  <2>2. Len(b) \in Nat /\ DOMAIN b = 1..Len(b)
    BY <1>1, LenProperties
  <2> DEFINE m == Len(b)
  <2>3. n \in Nat /\ m \in Nat /\ 1..m = 1..n
    BY <1>4, <2>1, <2>2
  <2> HIDE DEF n, m
  <2>4. (m >= 1 => m \in 1..n) /\ (n >= 1 => n \in 1..m)
    BY <2>3
  <2>5. m = n
    BY <2>3, <2>4
  <2> QED
    BY <2>5 DEF m
<1>6. \A i \in 1..n : b[i] \in Q /\ rank(b[i]) = i
  <2>1. \A i \in 1..n : i \in 1..Cardinality(Q)
    BY <1>3, <1>4
  <2>2. \A i \in 1..Cardinality(Q) : \E q \in Q : rank(q) = i
    BY RankExists
  <2> HIDE DEF n, rank
  <2> QED
    BY <1>2, <2>1, <2>2
<1>7. ASSUME NEW p \in Q, NEW q \in Q
      PROVE  /\ rank(p) \in Nat /\ rank(p) >= 1
             /\ p < q => rank(p) < rank(q)
  <2> DEFINE P == {x \in Q : x <= p}
             R == {x \in Q : x <= q}
  <2>1. IsFiniteSet(P) /\ IsFiniteSet(R) /\ p \in P
    BY FS_Subset
  <2>2. Cardinality(P) \in Nat /\ Cardinality(R) \in Nat
    BY <2>1, FS_CardinalityType
  <2>3. Cardinality(P) # 0
    BY <2>1, FS_EmptySet
  <2>4. ASSUME p < q
        PROVE  Cardinality(P) < Cardinality(R)
    <3>1. p \in Nat /\ q \in Nat /\ \A x \in Q : x \in Nat
      OBVIOUS
    <3>2. /\ \A x \in Q : x <= p => x <= q
          /\ q <= q /\ ~(q <= p)
      BY <2>4, <3>1
    <3>3. P \subseteq R /\ q \in R /\ q \notin P
      BY <3>2
    <3> HIDE DEF P, R
    <3>4. Cardinality(P) <= Cardinality(R) /\ Cardinality(R) # Cardinality(P)
      BY <2>1, <3>3, FS_Subset
    <3> QED
      BY <2>2, <3>4
  <2> QED
    BY <2>2, <2>3, <2>4
<1>8. Q # {} => n > 0
  <2>1. Q # {} => Cardinality(Q) # 0
    BY FS_EmptySet
  <2> QED
    BY <1>3, <1>4, <2>1
<1> HIDE DEF n, rank
<1>9. ASSUME NEW i \in 1..n, NEW j \in 1..n, i < j
      PROVE  b[i] < b[j]
  <2>1. b[i] \in Nat /\ b[j] \in Nat /\ rank(b[i]) = i /\ rank(b[j]) = j
    BY <1>6
  <2>2. ~(b[j] < b[i]) /\ b[i] # b[j]
    BY <1>4, <1>6, <1>7, <1>9, <2>1
  <2> QED
    BY <2>1, <2>2
<1>10. ASSUME NEW q \in Q, n > 0, q <= b[n]
       PROVE  \E i \in 1..n : b[i] = q
  <2>1. n \in 1..n /\ b[n] \in Q /\ rank(b[n]) = n
    BY <1>4, <1>6, <1>10
  <2>2. rank(q) \in Nat /\ rank(q) >= 1
    BY <1>7
  <2>3. rank(q) <= n
    <3>1. CASE q = b[n]
      BY <1>4, <2>1, <3>1
    <3>2. CASE q # b[n]
      <4> DEFINE l == b[n]
      <4>1. l \in Q /\ l \in Nat /\ q \in Nat /\ rank(l) = n /\ q <= l /\ q # l
        BY <1>10, <2>1, <3>2
      <4> HIDE DEF l
      <4>2. q < l
        BY <4>1
      <4>3. rank(q) < rank(l)
        BY <1>7, <4>1, <4>2
      <4> QED
        BY <1>4, <2>2, <4>1, <4>3
    <3> QED
      BY <3>1, <3>2
  <2>4. rank(q) \in 1..n
    BY <1>4, <2>2, <2>3
  <2> DEFINE p == b[rank(q)]
  <2>5. p \in Q /\ rank(p) = rank(q) /\ p \in Nat /\ q \in Nat
    BY <1>6, <2>4
  <2> HIDE DEF p
  <2>6. ~(p < q) /\ ~(q < p)
    BY <1>7, <2>2, <2>5
  <2>7. p = q
    BY <2>5, <2>6
  <2> QED
    BY <2>4, <2>7 DEF p
<1> QED
  BY <1>1, <1>5, <1>8, <1>9, <1>10


-----------------------------------------------------------------------------
(* A node, and the hub. *)

Delivered == [Nodes -> [Docs -> Nat]]

AckedArrived ==
    \A n \in Nodes : \A i \in 1..Len(acked[n]) :
       acked[n][i].seq <= delivered[n][acked[n][i].doc]

Typed == /\ EngineTyped(Nat) /\ EngineHolds
         /\ hub \in Stores /\ delivered \in Delivered

HInv == Typed /\ AckedArrived /\ AckedIsDelivered

-----------------------------------------------------------------------------
LEMMA TypedNow == EngineHolds => now \in Nat
BY Numbered DEF EngineHolds

LEMMA NewStoreTyped ==
    ASSUME NEW docs \in [Docs -> States], NEW colls, colls \subseteq Collections
    PROVE  /\ NewStore(docs, colls) \in Stores
           /\ NewStore(docs, colls).feed = << >>
<1>1. << >> \in Seq(FeedEntries)
  BY EmptySeq
<1> QED
  BY <1>1 DEF NewStore, Stores

LEMMA InitHolds == Init => HInv
<1> SUFFICES ASSUME Init PROVE HInv
  OBVIOUS
<1> USE DEF Init, EngineInit
<1>1. ASSUME NEW n \in Nodes
      PROVE  store[n] \in Stores /\ store[n].feed = << >>
  <2> DEFINE colls == StartColls[n] \cup {CollOf[d] : d \in PreDocs[n]}
  <2>1. colls \subseteq Collections
    BY EngineAssumption
  <2>2. Born(n) \in [Docs -> States]
    <3>1. MakeVersion(0, n, 0) \in Versions
      BY DEF MakeVersion, Versions
    <3> QED
      BY <3>1, AbsentIsState DEF Born, States
  <2>3. store[n] = NewStore(Born(n), colls)
    OBVIOUS
  <2> HIDE DEF colls, Init, EngineInit
  <2> QED
    BY <2>1, <2>2, <2>3, NewStoreTyped
<1>2. hub \in Stores
  <2>1. StartColls[Hub] \subseteq Collections
    BY EngineAssumption
  <2>2. [d \in Docs |-> Absent] \in [Docs -> States]
    BY AbsentIsState
  <2>3. hub = NewStore([d \in Docs |-> Absent], StartColls[Hub])
    OBVIOUS
  <2> HIDE DEF Init, EngineInit
  <2> QED
    BY <2>1, <2>2, <2>3, NewStoreTyped
<1>3. store \in [Nodes -> Stores]
  <2>1. DOMAIN store = Nodes /\ store = [n \in DOMAIN store |-> store[n]]
    OBVIOUS
  <2> HIDE DEF Init, EngineInit
  <2> QED
    BY <1>1, <2>1
<1>4. EngineTyped(Nat)
  BY <1>3, NothingIsChanges DEF EngineTyped, Batches, Phases
<1>5. EngineHolds /\ delivered \in Delivered
  BY Numbered DEF EngineHolds, Delivered
<1>6. AckedArrived
  <2>1. \A n \in Nodes : acked[n] = << >>
    OBVIOUS
  <2> HIDE DEF Init, EngineInit
  <2> QED
    BY <2>1, NothingIsChanges DEF AckedArrived
<1>7. AckedIsDelivered
  <2>1. \A n \in Nodes : store[n].base \in Nat /\ Len(store[n].feed) = 0
    BY <1>1, StoreFields, NothingIsChanges
  <2> HIDE DEF Init, EngineInit
  <2>2. \A n \in Nodes : Seqs(store[n]) = {}
    BY <2>1 DEF Seqs
  <2> QED
    BY <2>2 DEF AckedIsDelivered
<1> QED
  BY <1>2, <1>4, <1>5, <1>6, <1>7 DEF HInv, Typed

-----------------------------------------------------------------------------
(* The numbers in a list of changes have a bound. *)
LEMMA SeqsBounded ==
    ASSUME NEW cs \in Seq(Changes)
    PROVE  \E b \in Nat : \A i \in 1..Len(cs) : cs[i].seq <= b
<1> DEFINE S == {k \in 0..Len(cs) : \E b \in Nat : \A i \in 1..k : cs[i].seq <= b}
<1>1. Len(cs) \in Nat /\ \A i \in 1..Len(cs) : cs[i].seq \in Nat
  <2>1. Len(cs) \in Nat /\ \A i \in 1..Len(cs) : cs[i] \in Changes
    BY LenProperties, ElementOfSeq
  <2> QED
    BY <2>1 DEF Changes
<1>2. 0 \in S
  BY <1>1
<1>3. ASSUME NEW k \in 1..Len(cs), k - 1 \in S
      PROVE  k \in S
  <2>1. PICK b \in Nat : \A i \in 1..(k - 1) : cs[i].seq <= b
    BY <1>3
  <2> DEFINE c == b + cs[k].seq
  <2>2. c \in Nat /\ c >= b /\ c >= cs[k].seq
    BY <1>1
  <2>3. \A i \in 1..k : cs[i].seq <= c
    <3>1. \A i \in 1..k : i = k \/ i \in 1..(k - 1)
      BY <1>1
    <3>2. \A i \in 1..k : cs[i].seq \in Nat
      BY <1>1
    <3> QED
      BY <2>1, <2>2, <3>1, <3>2
  <2> HIDE DEF c
  <2>4. \E x \in Nat : \A i \in 1..k : cs[i].seq <= x
    BY <2>2, <2>3
  <2>5. k \in 0..Len(cs)
    BY <1>1
  <2> QED
    BY <2>4, <2>5
<1> HIDE DEF S
<1>4. 0..Len(cs) \subseteq S
  BY <1>1, <1>2, <1>3, Climb
<1>5. Len(cs) \in S
  BY <1>1, <1>4
<1> QED
  BY <1>5 DEF S

(* What the hub takes in makes its feed grow and is counted as delivered.   *)
LEMMA IngestDelivers ==
    ASSUME Typed, NEW n \in Nodes, NEW k \in 0..Len(outbox[n]), Ingest(n, k)
    PROVE  /\ hub' \in Stores /\ delivered' \in Delivered
           /\ \A m \in Nodes, d \in Docs : delivered[m][d] <= delivered'[m][d]
           /\ \A i \in 1..k :
                outbox[n][i].seq <= delivered'[n][outbox[n][i].doc]
<1> DEFINE sent == SubSeq(outbox[n], 1, k)
           news(d) == {delivered[n][d]} \cup
                      {c.seq : c \in {e \in Range(sent) : e.doc = d}}
<1>1. outbox[n] \in Seq(Changes) /\ sent \in Seq(Changes)
  BY Prefix DEF Typed, EngineTyped
<1>2. Len(sent) = k /\ \A i \in 1..k : sent[i] = outbox[n][i]
  BY <1>1, PrefixIs
<1>3. hub' \in Stores
  <2>1. Clock(Hub) \in Nat /\ Hub \in Databases
    BY ClockTicks, TypedNow DEF Typed, Databases
  <2>2. hub' = ApplyAll(hub, Hub, sent, Clock(Hub), "lww")
    BY DEF Ingest
  <2> HIDE DEF sent
  <2> QED
    BY <1>1, <2>1, <2>2, ApplyAllGrows DEF Grows, Typed
<1>4. delivered' = [delivered EXCEPT ![n] = [d \in Docs |-> Max(news(d))]]
  BY DEF Ingest
<1> HIDE DEF sent
<1>5. /\ Len(sent) \in Nat /\ DOMAIN sent = 1..Len(sent)
      /\ \A i \in 1..Len(sent) : sent[i] \in Changes
  BY <1>1, LenProperties, ElementOfSeq
<1>6. Range(sent) = {sent[i] : i \in 1..Len(sent)}
  BY <1>5 DEF Range
<1>7. ASSUME NEW d \in Docs
      PROVE  /\ Max(news(d)) \in Nat /\ delivered[n][d] <= Max(news(d))
             /\ \A i \in 1..Len(sent) : sent[i].doc = d => sent[i].seq <= Max(news(d))
  <2>1. PICK b \in Nat : \A i \in 1..Len(sent) : sent[i].seq <= b
    BY <1>1, SeqsBounded
  <2>2. delivered[n][d] \in Nat
    BY DEF Typed, Delivered
  <2>3. PICK c \in Nat : c >= b /\ c >= delivered[n][d]
    BY <2>2
  <2>4. \A i \in 1..Len(sent) : sent[i].seq \in Nat
    BY <1>5 DEF Changes
  <2>5. \A x \in news(d) : x \in Nat /\ x <= c
    <3>1. \A x \in news(d) : x = delivered[n][d] \/ \E i \in 1..Len(sent) : x = sent[i].seq
      BY <1>6
    <3> HIDE DEF news
    <3> QED
      BY <2>1, <2>2, <2>3, <2>4, <3>1
  <2>6. /\ delivered[n][d] \in news(d)
        /\ \A i \in 1..Len(sent) : sent[i].doc = d => sent[i].seq \in news(d)
    BY <1>6
  <2> HIDE DEF news
  <2>7. Max(news(d)) \in news(d) /\ \A x \in news(d) : x <= Max(news(d))
    BY <2>3, <2>5, <2>6, HasMax
  <2> QED
    BY <2>5, <2>6, <2>7
<1> HIDE DEF news
<1>8. /\ delivered' \in Delivered
      /\ \A d \in Docs : delivered'[n][d] = Max(news(d))
      /\ \A m \in Nodes : m # n => delivered'[m] = delivered[m]
  BY <1>4, <1>7 DEF Typed, Delivered
<1>9. \A m \in Nodes, d \in Docs : delivered[m][d] <= delivered'[m][d]
  <2>1. \A m \in Nodes, d \in Docs : delivered[m][d] \in Nat
    BY DEF Typed, Delivered
  <2> QED
    BY <1>7, <1>8, <2>1
<1>10. \A i \in 1..k : outbox[n][i].seq <= delivered'[n][outbox[n][i].doc]
  <2>1. \A i \in 1..k : sent[i] = outbox[n][i] /\ sent[i].doc \in Docs
    BY <1>2, <1>5 DEF Changes
  <2> QED
    BY <1>2, <1>7, <1>8, <2>1
<1> QED
  BY <1>3, <1>8, <1>9, <1>10

(* What was delivered stays so, and so do marks that nothing is added to.   *)
LEMMA DeliveredStays ==
    ASSUME Typed, AckedIsDelivered, Typed',
           \A m \in Nodes : Keeps(store[m], store'[m]),
           \A m \in Nodes, d \in Docs : delivered[m][d] <= delivered'[m][d]
    PROVE  AckedIsDelivered'
<1> SUFFICES ASSUME NEW n \in Nodes, NEW q \in Seqs(store'[n]),
                    Entry(store'[n], q).source = "local",
                    Entry(store'[n], q).pushed
             PROVE  q <= delivered'[n][Entry(store'[n], q).doc]
  BY DEF AckedIsDelivered
<1> DEFINE e == Entry(store'[n], q)
<1>1. store[n] \in Stores
  BY DEF Typed, EngineTyped
<1>2. q \in Seqs(store[n]) /\ Entry(store[n], q) = e
  BY DEF Keeps
<1>3. q \in Nat /\ e.doc \in Docs
  <2>1. q \in Nat /\ q - store[n].base \in 1..Len(store[n].feed)
    BY <1>1, <1>2, StoreFields DEF Seqs
  <2> QED
    BY <1>1, <1>2, <2>1, StoreFields DEF Entry, FeedEntries
<1>4. q <= delivered[n][e.doc]
  BY <1>2 DEF AckedIsDelivered
<1>5. delivered[n][e.doc] \in Nat /\ delivered'[n][e.doc] \in Nat
      /\ delivered[n][e.doc] <= delivered'[n][e.doc]
  BY <1>3 DEF Typed, Delivered
<1> QED
  BY <1>3, <1>4, <1>5

LEMMA AckedStays ==
    ASSUME Typed, AckedArrived, Typed',
           \A m \in Nodes : acked'[m] \in {acked[m], << >>},
           \A m \in Nodes, d \in Docs : delivered[m][d] <= delivered'[m][d]
    PROVE  AckedArrived'
<1> SUFFICES ASSUME NEW n \in Nodes, NEW i \in 1..Len(acked'[n])
             PROVE  acked'[n][i].seq <= delivered'[n][acked'[n][i].doc]
  BY DEF AckedArrived
<1>1. acked'[n] = acked[n]
  BY NothingIsChanges
<1>2. acked[n][i] \in Changes
  BY <1>1, ElementOfSeq DEF Typed, EngineTyped
<1>3. acked[n][i].seq <= delivered[n][acked[n][i].doc]
  BY <1>1 DEF AckedArrived
<1>4. /\ acked[n][i].seq \in Nat /\ acked[n][i].doc \in Docs
      /\ delivered[n][acked[n][i].doc] \in Nat
      /\ delivered'[n][acked[n][i].doc] \in Nat
  BY <1>2 DEF Changes, Typed, Delivered
<1> QED
  BY <1>1, <1>3, <1>4

(* markPushed() marks what was acknowledged, and that was delivered.        *)
LEMMA MarksDelivered ==
    ASSUME HInv, NEW n \in Nodes, MarkAcked(n), UNCHANGED delivered
    PROVE  AckedIsDelivered'
<1> DEFINE t == MarkPushed(store[n], acked[n])
<1>1. store[n] \in Stores /\ acked[n] \in Seq(Changes)
  BY DEF HInv, Typed, EngineTyped
<1>2. /\ t \in Stores /\ Seqs(t) = Seqs(store[n])
      /\ \A q \in Seqs(store[n]) :
           \/ Entry(t, q) = Entry(store[n], q)
           \/ \E k \in DOMAIN acked[n] : /\ acked[n][k].doc = Entry(t, q).doc
                                         /\ q <= acked[n][k].seq
  BY <1>1, MarkPushedMarks
<1>3. store' = [store EXCEPT ![n] = t]
  BY DEF MarkAcked
<1> HIDE DEF t
<1>4. store'[n] = t /\ \A m \in Nodes : m # n => store'[m] = store[m]
  BY <1>3 DEF HInv, Typed, EngineTyped
<1>5. ASSUME NEW q \in Seqs(t), Entry(t, q).source = "local", Entry(t, q).pushed
      PROVE  q <= delivered[n][Entry(t, q).doc]
  <2>1. CASE Entry(t, q) = Entry(store[n], q)
    BY <1>2, <1>5, <2>1 DEF HInv, AckedIsDelivered
  <2>2. ASSUME NEW k \in DOMAIN acked[n], acked[n][k].doc = Entry(t, q).doc,
               q <= acked[n][k].seq
        PROVE  q <= delivered[n][Entry(t, q).doc]
    <3>1. k \in 1..Len(acked[n]) /\ acked[n][k] \in Changes
      BY <1>1, LenProperties, ElementOfSeq
    <3>2. acked[n][k].seq <= delivered[n][acked[n][k].doc]
      BY <3>1 DEF HInv, AckedArrived
    <3>3. /\ acked[n][k].seq \in Nat /\ q \in Int
          /\ delivered[n][acked[n][k].doc] \in Nat
      BY <1>2, <3>1, StoreFields DEF Changes, HInv, Typed, Delivered, Seqs
    <3>4. q <= delivered[n][acked[n][k].doc]
      BY <2>2, <3>2, <3>3
    <3> QED
      BY <2>2, <3>4
  <2> QED
    BY <1>2, <2>1, <2>2
<1>6. \A m \in Nodes : m # n =>
         \A q \in Seqs(store[m]) :
            Entry(store[m], q).source = "local" /\ Entry(store[m], q).pushed
              => q <= delivered[m][Entry(store[m], q).doc]
  BY DEF HInv, AckedIsDelivered
<1> QED
  BY <1>4, <1>5, <1>6 DEF AckedIsDelivered

-----------------------------------------------------------------------------
(* A step that leaves hub, delivered and acked alone.                       *)
LEMMA StepHolds == HInv /\ [Next]_vars => HInv'
<1> SUFFICES ASSUME HInv, [Next]_vars PROVE HInv'
  OBVIOUS
<1>0. Typed /\ now \in Nat
  BY TypedNow DEF HInv, Typed
<1>1. ASSUME NEW n \in Nodes, NodeStep(n), UNCHANGED <<hub, delivered>>
      PROVE  HInv'
  <2>1. Typed' /\ \A m \in Nodes : acked'[m] \in {acked[m], << >>}
    BY <1>0, <1>1, NodeTyped DEF Typed
  <2>2. \A m \in Nodes, d \in Docs : delivered[m][d] <= delivered'[m][d]
    BY <1>0, <1>1 DEF Typed, Delivered
  <2>3. AckedArrived'
    BY <1>0, <2>1, <2>2, AckedStays DEF HInv
  <2>4. MarkAcked(n) \/ \A m \in Nodes : Keeps(store[m], store'[m])
    BY <1>0, <1>1, NodeKeeps DEF Typed
  <2>5. AckedIsDelivered'
    BY <1>0, <1>1, <2>1, <2>2, <2>4, DeliveredStays, MarksDelivered DEF HInv
  <2> QED
    BY <2>1, <2>3, <2>5 DEF HInv
<1>2. ASSUME Typed', store' = store, \A m \in Nodes : acked'[m] \in {acked[m], << >>},
             \A m \in Nodes, d \in Docs : delivered[m][d] <= delivered'[m][d]
      PROVE  HInv'
  BY <1>0, <1>2, StoresAlone, AckedStays, DeliveredStays DEF HInv
<1>3. \A m \in Nodes, d \in Docs : delivered[m][d] <= delivered[m][d]
  BY <1>0 DEF Typed, Delivered
<1>4. CASE Tick /\ UNCHANGED <<hub, delivered>>
  <2>1. now' \in 0..MaxTime
    BY <1>0, <1>4, Numbered DEF Tick
  <2>2. Typed'
    BY <1>0, <1>4, <2>1 DEF Typed, EngineTyped, EngineHolds, Tick, engine
  <2> QED
    BY <1>2, <1>3, <1>4, <2>2 DEF Tick, engine
<1>5. ASSUME NEW n \in Nodes, Pull(n)
      PROVE  HInv'
  <2> DEFINE answer == ChangesSince(hub, cursor[n], Colls(n), BatchSize)
  <2>1. answer \in Batches(Nat)
    <3>1. hub \in Stores /\ cursor[n] \in Nat
      BY <1>0 DEF Typed, EngineTyped
    <3> QED
      BY <3>1, Numbered, ChangesSinceTyped DEF Batches
  <2>2. /\ inbox' = [inbox EXCEPT ![n] = answer]
        /\ phase[n] = "pull" /\ phase' = [phase EXCEPT ![n] = "apply"]
        /\ UNCHANGED <<store, cursor, everPushed, outbox, acked, limits, hub, delivered>>
    BY <1>5 DEF Pull, PullAnswered
  <2> HIDE DEF answer
  <2>3. Typed'
    BY <1>0, <2>1, <2>2 DEF Typed, EngineTyped, EngineHolds, limits, Phases
  <2> QED
    BY <1>2, <1>3, <2>2, <2>3
<1>6. ASSUME NEW n \in Nodes, Push(n)
      PROVE  HInv'
  <2>1. outbox[n] \in Seq(Changes) /\ Len(outbox[n]) \in Nat
    BY <1>0, LenProperties DEF Typed, EngineTyped
  <2>2. Len(outbox[n]) \in 0..Len(outbox[n]) /\ Ingest(n, Len(outbox[n]))
    BY <1>6, <2>1 DEF Push
  <2>3. /\ hub' \in Stores /\ delivered' \in Delivered
        /\ \A m \in Nodes, d \in Docs : delivered[m][d] <= delivered'[m][d]
        /\ \A i \in 1..Len(outbox[n]) :
             outbox[n][i].seq <= delivered'[n][outbox[n][i].doc]
    BY <1>0, <2>2, IngestDelivers
  <2>4. /\ phase[n] = "send" /\ phase' = [phase EXCEPT ![n] = "ack"]
        /\ outbox' = [outbox EXCEPT ![n] = << >>]
        /\ acked' = [acked EXCEPT ![n] = outbox[n]]
        /\ UNCHANGED <<store, cursor, everPushed, inbox, limits>>
    BY <1>6 DEF Push, PushAnswered
  <2>5. EngineTyped(Nat)'
    BY <1>0, <2>1, <2>4, NothingIsChanges DEF Typed, EngineTyped, Phases
  <2>6. EngineHolds'
    BY <1>0, <2>4 DEF Typed, EngineTyped, EngineHolds, limits
  <2>7. Typed'
    BY <2>3, <2>5, <2>6 DEF Typed
  <2>8. AckedIsDelivered'
    BY <1>0, <2>3, <2>4, <2>7, StoresAlone, DeliveredStays DEF HInv
  <2>9. AckedArrived'
    <3>1. ASSUME NEW m \in Nodes, m # n, NEW i \in 1..Len(acked'[m])
          PROVE  acked'[m][i].seq <= delivered'[m][acked'[m][i].doc]
      <4>1. acked'[m] = acked[m] /\ acked[m] \in Seq(Changes)
        BY <1>0, <2>4, <3>1 DEF Typed, EngineTyped
      <4>2. /\ acked[m][i] \in Changes
            /\ acked[m][i].seq <= delivered[m][acked[m][i].doc]
        BY <3>1, <4>1, ElementOfSeq DEF HInv, AckedArrived
      <4>3. /\ acked[m][i].seq \in Nat /\ acked[m][i].doc \in Docs
            /\ delivered[m][acked[m][i].doc] \in Nat
            /\ delivered'[m][acked[m][i].doc] \in Nat
        BY <1>0, <2>3, <4>2 DEF Changes, Typed, Delivered
      <4> QED
        BY <2>3, <4>1, <4>2, <4>3
    <3>2. acked'[n] = outbox[n]
      BY <1>0, <2>4 DEF Typed, EngineTyped
    <3> QED
      BY <2>3, <3>1, <3>2 DEF AckedArrived
  <2> QED
    BY <2>7, <2>8, <2>9 DEF HInv
<1>7. ASSUME NEW n \in Nodes, PushFails(n)
      PROVE  HInv'
  <2>1. Len(outbox[n]) \in Nat
    BY <1>0, LenProperties DEF Typed, EngineTyped
  <2>2. PICK k \in 0..Len(outbox[n]) : Ingest(n, k)
    BY <1>7, <2>1 DEF PushFails
  <2>3. /\ hub' \in Stores /\ delivered' \in Delivered
        /\ \A m \in Nodes, d \in Docs : delivered[m][d] <= delivered'[m][d]
    BY <1>0, <2>2, IngestDelivers
  <2>4. faults' \in 0..MaxFaults
    BY <1>0, <1>7, Numbered DEF PushFails, Typed, EngineHolds
  <2>5. Typed'
    BY <1>0, <1>7, <2>3, <2>4
       DEF PushFails, Typed, EngineTyped, EngineHolds, engine
  <2> QED
    BY <1>2, <1>7, <2>3, <2>5 DEF PushFails, engine
<1>8. CASE CompactHub
  <2>1. hub' \in Stores
    BY <1>0, <1>8, CompactKeeps, EngineAssumption DEF CompactHub, Typed
  <2>2. Typed'
    BY <1>0, <1>8, <2>1
       DEF CompactHub, Typed, EngineTyped, EngineHolds, engine, limits
  <2> QED
    BY <1>2, <1>3, <1>8, <2>2 DEF CompactHub, engine
<1>9. ASSUME NEW d \in Docs, NEW op \in Ops, HubWrite(d, op)
      PROVE  HInv'
  <2>1. Hub \in Databases /\ Clock(Hub) \in Nat
    BY <1>0, ClockTicks DEF Databases
  <2>2. hub' \in Stores
    BY <1>0, <1>9, <2>1, LocalWriteGrows DEF HubWrite, Typed, Grows
  <2>3. writes' \in 0..MaxWrites
    BY <1>0, <1>9, Numbered DEF HubWrite, Typed, EngineHolds
  <2>4. Typed'
    BY <1>0, <1>9, <2>2, <2>3
       DEF HubWrite, Typed, EngineTyped, EngineHolds, engine
  <2> QED
    BY <1>2, <1>3, <1>9, <2>4 DEF HubWrite, engine
<1>10. CASE UNCHANGED vars
  <2>1. Typed'
    BY <1>0, <1>10 DEF vars, engine, limits, Typed, EngineTyped, EngineHolds
  <2> QED
    BY <1>2, <1>3, <1>10, <2>1 DEF vars, engine
<1> QED
  BY <1>1, <1>4, <1>5, <1>6, <1>7, <1>8, <1>9, <1>10 DEF Next, Ops

LEMMA InvariantHolds == Spec => []HInv
<1>1. Init => HInv
  BY InitHolds
<1>2. HInv /\ [Next]_vars => HInv'
  BY StepHolds
<1> QED
  BY <1>1, <1>2, PTL DEF Spec

(* The databases, cursors and batches keep their types, and what is under   *)
(* way is there only in its phase of the round.                             *)
THEOREM TypeCorrect == Spec => []TypeOK
<1>1. HInv => TypeOK
  BY DEF HInv, Typed, Delivered, EngineTyped, EngineHolds, TypeOK, EngineTypeOK
<1> QED
  BY <1>1, InvariantHolds, PTL

(* A local change is marked as pushed only when the hub has taken in that   *)
(* change or a later one of the document (markPushed(), pushOnce()).        *)
THEOREM MarkedIsDelivered == Spec => []AckedIsDelivered
<1>1. HInv => AckedIsDelivered
  BY DEF HInv
<1> QED
  BY <1>1, InvariantHolds, PTL

(* Only markPushed() takes a change out of the push queue: compaction, a    *)
(* restart, a batch that was applied in part, and a write do not.           *)
THEOREM QueueLosesNothing == Spec => UnpushedKept
<1> DEFINE Kept == \A n \in Nodes :
                      phase[n] # "ack" => Unpushed(store[n]) \subseteq Unpushed(store'[n])
<1>1. HInv /\ [Next]_vars => [Kept]_vars
  <2> SUFFICES ASSUME HInv, Next PROVE Kept
    OBVIOUS
  <2>1. Typed /\ now \in Nat
    BY TypedNow DEF HInv, Typed
  <2>2. ASSUME \A m \in Nodes : Keeps(store[m], store'[m])
        PROVE  Kept
    BY <2>2 DEF Keeps
  <2>3. ASSUME NEW n \in Nodes, NodeStep(n)
        PROVE  Kept
    <3>1. CASE MarkAcked(n)
      <4>1. phase[n] = "ack" /\ \A m \in Nodes : m # n => store'[m] = store[m]
        BY <2>1, <3>1 DEF MarkAcked, Typed, EngineTyped
      <4> QED
        BY <4>1
    <3>2. CASE \A m \in Nodes : Keeps(store[m], store'[m])
      BY <2>2, <3>2
    <3> QED
      BY <2>1, <2>3, <3>1, <3>2, NodeKeeps DEF Typed
  <2>4. CASE store' = store
    BY <2>4
  <2> QED
    BY <2>3, <2>4 DEF Next, Tick, Pull, PullAnswered, Push, PushAnswered, PushFails,
                      HubWrite, CompactHub, engine
<1>2. Spec => [][Kept]_vars
  BY <1>1, InvariantHolds, PTL DEF Spec
<1> QED
  BY <1>2 DEF UnpushedKept, Kept

-----------------------------------------------------------------------------
(* Nothing has yet the version that the hub would give next.                *)
Frontier(h, ts) == <<ts, Hub, h.vseq>>

Behind(s, f) == \A q \in Seqs(s) : Newer(f, Entry(s, q).version)

DeletesGone(s) ==
    \A d \in Docs : Entries(s, d) # {} /\ Entry(s, LastOf(s, d)).op = "delete"
                      => ~s.docs[d].live

HubFine(h, ts) == Whole(h) /\ Behind(h, Frontier(h, ts)) /\ DeletesGone(h)

(* The versions a node gives itself are numbered in order, and Reopen()     *)
(* finds the number it has left off at.                                     *)
Own(s) == {q \in Seqs(s) : Entry(s, q).source = "local"}

Counters(n, s) ==
    \A q \in Own(s) :
       /\ Entry(s, q).version[2] = n /\ Entry(s, q).version[3] < s.vseq
       /\ \A p \in Own(s) : p < q => Entry(s, p).version[3] < Entry(s, q).version[3]

Resumes(s) ==
    /\ Own(s) = {} => s.vseq = 0
    /\ \A q \in Own(s) : (\A p \in Own(s) : p <= q) => s.vseq = Entry(s, q).version[3] + 1

OwnCounted(n, s, h) ==
    \A q \in Seqs(h) : Entry(h, q).version[2] = n => Entry(h, q).version[3] < s.vseq

(* A version of d that the hub has had. *)
Known(h, d, v) == Entries(h, d) # {} /\ AtMost(v, CurrentVersion(h, d))

RemotesKnown(s, h) ==
    \A q \in Seqs(s) : Entry(s, q).source = "remote" =>
       Known(h, Entry(s, q).doc, Entry(s, q).version)

SameState(x, y) == x.live = y.live /\ (x.live => x.origin = y.origin)

(* What has the same version has the same content. *)
Agree(s, h) ==
    \A d \in Docs : Entries(h, d) # {} /\ Entries(s, d) # {}
                    /\ CurrentVersion(s, d) = CurrentVersion(h, d)
                      => SameState(s.docs[d], h.docs[d])

AllOpen(s) == Explicit = {} => Collections \subseteq s.colls

(* A node and the hub at time ts. *)
Paired(n, s, h, ts) ==
    /\ Whole(s) /\ DeletesGone(s) /\ Behind(s, Frontier(h, ts))
    /\ Counters(n, s) /\ Resumes(s) /\ OwnCounted(n, s, h)
    /\ RemotesKnown(s, h) /\ Agree(s, h) /\ AllOpen(s)

LEMMA ResumesReopen == ASSUME NEW s, Whole(s), Resumes(s) PROVE Reopen(s) = s
<1> DEFINE v == IF Own(s) = {} THEN 0 ELSE Entry(s, Max(Own(s))).version[3] + 1
<1>1. v = s.vseq
  <2>1. CASE Own(s) = {}
    BY <2>1 DEF Resumes
  <2>2. CASE Own(s) # {}
    <3>1. Own(s) \subseteq Nat /\ \A q \in Own(s) : q <= Len(s.feed)
      BY FeedIs DEF Own
    <3>2. Max(Own(s)) \in Own(s) /\ \A q \in Own(s) : q <= Max(Own(s))
      BY <2>2, <3>1, FeedIs, HasMax
    <3> QED
      BY <2>2, <3>2 DEF Resumes
  <2> QED
    BY <2>1, <2>2
<1>2. Reopen(s) = [s EXCEPT !.vseq = v]
  BY DEF Reopen, Own
<1> HIDE DEF v
<1> QED
  BY <1>1, <1>2 DEF Whole, Stores

LEMMA FrontierIs ==
    ASSUME NEW h, Whole(h), NEW ts \in Nat
    PROVE  /\ Frontier(h, ts) \in Versions
           /\ Frontier(h, ts)[1] = ts /\ Frontier(h, ts)[2] = Hub
           /\ Frontier(h, ts)[3] = h.vseq
BY FeedIs DEF Frontier, Versions

LEMMA VersionsIn ==
    ASSUME NEW s, Whole(s), NEW q \in Seqs(s)
    PROVE  /\ Entry(s, q).version \in Versions /\ Entry(s, q).doc \in Docs
           /\ Entry(s, q).source \in {"local", "remote"}
           /\ q \in Entries(s, Entry(s, q).doc)
BY FeedIs DEF FeedEntries, Entries

(* Entries that stay what they were keep what is said of each.              *)
LEMMA DeletesStayGone ==
    ASSUME NEW s, NEW t, NEW e, Adds(s, t, e), DeletesGone(s),
           \A x \in Docs \ {e.doc} : t.docs[x] = s.docs[x],
           e.op = "delete" => ~t.docs[e.doc].live
    PROVE  DeletesGone(t)
<1> SUFFICES ASSUME NEW d \in Docs, Entries(t, d) # {},
                    Entry(t, LastOf(t, d)).op = "delete"
             PROVE  ~t.docs[d].live
  BY DEF DeletesGone
<1>1. CASE d = e.doc
  BY <1>1, AddsOne
<1>2. CASE d # e.doc
  <2>1. Quiet(s, t, d) /\ Extends(s, t)
    BY <1>2, AddsOne
  <2>2. Entries(s, d) # {} /\ LastOf(s, d) \in Seqs(s)
    BY <2>1, LastIs DEF Quiet, Adds
  <2>3. Entry(s, LastOf(s, d)).op = "delete"
    BY <2>1, <2>2 DEF Quiet, Extends
  <2> QED
    BY <1>2, <2>2, <2>3 DEF DeletesGone
<1> QED
  BY <1>1, <1>2

LEMMA BehindStays ==
    ASSUME NEW s, NEW t, NEW e, Adds(s, t, e), NEW f, Behind(s, f), Newer(f, e.version)
    PROVE  Behind(t, f)
BY AddsOne DEF Behind, Extends

(* A later frontier. *)
LEMMA FrontierAdvances ==
    ASSUME NEW s, Whole(s), NEW f \in Versions, NEW g \in Versions, AtMost(f, g), Behind(s, f)
    PROVE  Behind(s, g)
<1> SUFFICES ASSUME NEW q \in Seqs(s), g # f PROVE Newer(g, Entry(s, q).version)
  BY DEF Behind
<1>1. Newer(g, f) /\ Newer(f, Entry(s, q).version)
  BY DEF AtMost, Behind
<1> QED
  BY <1>1, VersionsIn, NewerOn DEF AtMost

-----------------------------------------------------------------------------
(* A change that a node may take over from the hub. *)
FromHub(h, c) ==
    /\ Known(h, c.doc, c.version)
    /\ c.version = CurrentVersion(h, c.doc) => SameState(c.state, h.docs[c.doc])
    /\ c.op = "delete" => ~c.state.live

Earlier(w, n, ts) == w < ts \/ (w = ts /\ n < Hub)

LEMMA NodeRecords ==
    ASSUME NEW ts \in Nat, NEW h, HubFine(h, ts), NEW n \in Nodes, NEW s,
           Paired(n, s, h, ts), NEW d \in Docs, NEW op \in Ops, NEW w \in Nat,
           Earlier(w, n, ts), NEW t, Records(s, t, n, d, op, w)
    PROVE  Paired(n, t, h, ts)
<1> DEFINE v == <<w, n, s.vseq>>
           e == [doc |-> d, op |-> op, version |-> v, source |-> "local", pushed |-> FALSE]
<1>0. Whole(s) /\ Whole(t) /\ Whole(h) /\ Adds(s, t, e) /\ t.vseq = s.vseq + 1
      /\ s.vseq \in Nat /\ n \in Nat /\ Hub \in Nat /\ n # Hub
  BY FeedIs, Numbered, EngineAssumption DEF Records, Adds, HubFine
<1>1. v \in Versions /\ v[1] = w /\ v[2] = n /\ v[3] = s.vseq
  BY <1>0 DEF Versions
<1>2. e.doc = d /\ e.op = op /\ e.version = v /\ e.source = "local"
  OBVIOUS
<1> HIDE DEF v, e
<1>3. /\ Extends(s, t) /\ CurrentSeq(t) \in Seqs(t) /\ Entry(t, CurrentSeq(t)) = e
      /\ CurrentSeq(t) = CurrentSeq(s) + 1 /\ CurrentSeq(s) \in Nat
      /\ \A q \in Seqs(t) : (q \in Seqs(s) /\ q <= CurrentSeq(s)) \/ q = CurrentSeq(t)
      /\ Entries(t, d) # {} /\ CurrentVersion(t, d) = v
      /\ \A x : x # d => Quiet(s, t, x)
  BY <1>0, <1>2, AddsOne
<1>4. DeletesGone(t)
  BY <1>0, <1>2, DeletesStayGone DEF Paired, Records
<1>5. Behind(t, Frontier(h, ts))
  <2>1. Newer(Frontier(h, ts), v)
    BY <1>0, <1>1, FrontierIs, NewerIs DEF Earlier
  <2> QED
    BY <1>0, <1>2, <2>1, BehindStays DEF Paired
<1>6. Own(t) = Own(s) \cup {CurrentSeq(t)}
  BY <1>2, <1>3 DEF Own, Extends
<1>7. \A q \in Own(s) : /\ Entry(t, q) = Entry(s, q) /\ q <= CurrentSeq(s) /\ q \in Nat
                        /\ Entry(s, q).version[3] \in Nat
  BY <1>0, <1>3, FeedIs, VersionsIn, VersionIs DEF Own, Extends
<1>8. Counters(n, t)
  <2>1. ASSUME NEW q \in Own(s)
        PROVE  /\ Entry(t, q).version[2] = n /\ Entry(t, q).version[3] < t.vseq
               /\ \A p \in Own(t) : p < q => Entry(t, p).version[3] < Entry(t, q).version[3]
    <3>1. Entry(t, q) = Entry(s, q) /\ q < CurrentSeq(t)
      BY <1>3, <1>7
    <3>2. Entry(s, q).version[2] = n /\ Entry(s, q).version[3] < s.vseq
      BY DEF Paired, Counters
    <3>3. \A p \in Own(t) : p < q => p \in Own(s)
      BY <1>3, <1>6, <1>7
    <3> QED
      BY <1>0, <1>7, <3>1, <3>2, <3>3 DEF Paired, Counters
  <2>2. Entry(t, CurrentSeq(t)).version = v
    BY <1>2, <1>3
  <2>3. \A p \in Own(t) : p < CurrentSeq(t) => Entry(t, p).version[3] < v[3]
    BY <1>1, <1>3, <1>6, <1>7 DEF Paired, Counters
  <2> QED
    BY <1>0, <1>1, <1>6, <2>1, <2>2, <2>3 DEF Counters
<1>9. Resumes(t)
  <2>1. \A q \in Own(t) : (\A p \in Own(t) : p <= q) => q = CurrentSeq(t)
    BY <1>3, <1>6, <1>7
  <2> QED
    BY <1>0, <1>1, <1>2, <1>3, <1>6, <2>1 DEF Resumes
<1>10. OwnCounted(n, t, h)
  <2>1. \A q \in Seqs(h) : Entry(h, q).version[3] \in Nat
    BY <1>0, VersionsIn, VersionIs
  <2> QED
    BY <1>0, <2>1 DEF OwnCounted, Paired
<1>11. RemotesKnown(t, h)
  BY <1>2, <1>3 DEF RemotesKnown, Extends, Paired
<1>12. Agree(t, h)
  <2> SUFFICES ASSUME NEW x \in Docs, Entries(h, x) # {}, Entries(t, x) # {},
                      CurrentVersion(t, x) = CurrentVersion(h, x)
               PROVE  SameState(t.docs[x], h.docs[x])
    BY DEF Agree
  <2>1. x # d
    <3>1. LastOf(h, x) \in Seqs(h) /\ CurrentVersion(h, x) = Entry(h, LastOf(h, x)).version
      BY <1>0, LastIs
    <3>2. v # Entry(h, LastOf(h, x)).version
      BY <1>0, <1>1, <3>1 DEF Paired, OwnCounted
    <3> QED
      BY <1>3, <3>1, <3>2
  <2>2. Quiet(s, t, x) /\ t.docs[x] = s.docs[x]
    BY <1>3, <2>1 DEF Records
  <2> QED
    BY <2>2 DEF Quiet, Paired, Agree
<1> QED
  BY <1>0, <1>4, <1>5, <1>8, <1>9, <1>10, <1>11, <1>12 DEF Paired, Records, AllOpen

LEMMA NodeTakes ==
    ASSUME NEW ts \in Nat, NEW h, HubFine(h, ts), NEW n \in Nodes, NEW s,
           Paired(n, s, h, ts), NEW c \in Changes, FromHub(h, c), NEW t, Takes(s, t, c)
    PROVE  Paired(n, t, h, ts)
<1> DEFINE e == [doc |-> c.doc, op |-> c.op, version |-> c.version,
                 source |-> "remote", pushed |-> TRUE]
<1>0. Whole(s) /\ Whole(t) /\ Whole(h) /\ Adds(s, t, e) /\ t.vseq = s.vseq
      /\ c.version \in Versions /\ c.doc \in Docs
  BY DEF Takes, Adds, HubFine, Changes
<1>1. e.doc = c.doc /\ e.op = c.op /\ e.version = c.version /\ e.source = "remote"
  OBVIOUS
<1> HIDE DEF e
<1>2. /\ Extends(s, t) /\ CurrentSeq(t) \in Seqs(t) /\ Entry(t, CurrentSeq(t)) = e
      /\ \A q \in Seqs(t) : q \in Seqs(s) \/ q = CurrentSeq(t)
      /\ Entries(t, c.doc) # {} /\ CurrentVersion(t, c.doc) = c.version
      /\ \A x : x # c.doc => Quiet(s, t, x)
  BY <1>0, <1>1, AddsOne
<1>3. DeletesGone(t)
  BY <1>0, <1>1, DeletesStayGone DEF Paired, Takes, FromHub
<1>4. Behind(t, Frontier(h, ts))
  <2>1. /\ LastOf(h, c.doc) \in Seqs(h) /\ CurrentVersion(h, c.doc) \in Versions
        /\ CurrentVersion(h, c.doc) = Entry(h, LastOf(h, c.doc)).version
    BY <1>0, LastIs DEF FromHub, Known
  <2>2. Newer(Frontier(h, ts), CurrentVersion(h, c.doc))
    BY <2>1 DEF HubFine, Behind
  <2>3. Newer(Frontier(h, ts), c.version)
    BY <1>0, <2>1, <2>2, FrontierIs, NewerOn DEF FromHub, Known
  <2> QED
    BY <1>0, <1>1, <2>3, BehindStays DEF Paired
<1>5. /\ Own(t) = Own(s) /\ \A q \in Own(s) : Entry(t, q) = Entry(s, q)
  BY <1>1, <1>2 DEF Own, Extends
<1>6. Counters(n, t) /\ Resumes(t)
  BY <1>0, <1>5 DEF Paired, Counters, Resumes
<1>7. OwnCounted(n, t, h)
  BY <1>0 DEF Paired, OwnCounted
<1>8. RemotesKnown(t, h)
  BY <1>1, <1>2 DEF RemotesKnown, Extends, Paired, FromHub
<1>9. Agree(t, h)
  <2> SUFFICES ASSUME NEW x \in Docs, Entries(h, x) # {}, Entries(t, x) # {},
                      CurrentVersion(t, x) = CurrentVersion(h, x)
               PROVE  SameState(t.docs[x], h.docs[x])
    BY DEF Agree
  <2>1. CASE x = c.doc
    BY <1>2, <2>1 DEF Takes, FromHub
  <2>2. CASE x # c.doc
    <3>1. Quiet(s, t, x) /\ t.docs[x] = s.docs[x]
      BY <1>2, <2>2 DEF Takes
    <3> QED
      BY <3>1 DEF Quiet, Paired, Agree
  <2> QED
    BY <2>1, <2>2
<1> QED
  BY <1>0, <1>3, <1>4, <1>6, <1>7, <1>8, <1>9 DEF Paired, Takes, AllOpen

-----------------------------------------------------------------------------
(* How the hub may change: a document that something is noted of has a new  *)
(* version, later than any it had.                                          *)
Moves(h, g) ==
    /\ Whole(h) /\ Whole(g) /\ Extends(h, g) /\ CurrentSeq(h) <= CurrentSeq(g)
    /\ \A d \in Docs :
         \/ Quiet(h, g, d) /\ g.docs[d] = h.docs[d]
         \/ /\ Entries(g, d) # {} /\ LastOf(g, d) > CurrentSeq(h)
            /\ Entries(h, d) # {} => Newer(CurrentVersion(g, d), CurrentVersion(h, d))

LEMMA MovesSelf == ASSUME NEW h, Whole(h) PROVE Moves(h, h)
BY FeedIs DEF Moves, Extends, Quiet

LEMMA MovesKeep ==
    ASSUME NEW h, NEW g, Moves(h, g), NEW d \in Docs, Entries(h, d) # {}
    PROVE  /\ Entries(g, d) # {}
           /\ LastOf(h, d) <= LastOf(g, d) /\ LastOf(h, d) <= CurrentSeq(h)
           /\ LastOf(h, d) \in Nat /\ LastOf(g, d) \in Nat
<1>1. Whole(h) /\ Whole(g) /\ CurrentSeq(h) = Len(h.feed) /\ Len(h.feed) \in Nat
  BY FeedIs DEF Moves
<1>2. LastOf(h, d) \in Nat /\ LastOf(h, d) <= CurrentSeq(h)
  BY <1>1, LastIs, FeedIs
<1>3. Entries(g, d) # {}
  BY DEF Moves, Quiet
<1>4. LastOf(g, d) \in Nat
  BY <1>1, <1>3, LastIs
<1>5. LastOf(g, d) = LastOf(h, d) \/ LastOf(g, d) > CurrentSeq(h)
  BY DEF Moves, Quiet
<1> QED
  BY <1>1, <1>2, <1>3, <1>4, <1>5

LEMMA MovesOn ==
    ASSUME NEW h, NEW g, NEW f, Moves(h, g), Moves(g, f)
    PROVE  Moves(h, f)
<1>1. /\ Whole(h) /\ Whole(g) /\ Whole(f) /\ Extends(h, f)
      /\ CurrentSeq(h) \in Nat /\ CurrentSeq(g) \in Nat /\ CurrentSeq(f) \in Nat
      /\ CurrentSeq(h) <= CurrentSeq(g) /\ CurrentSeq(g) <= CurrentSeq(f)
  BY FeedIs DEF Moves, Extends
<1>2. ASSUME NEW d \in Docs
      PROVE  \/ Quiet(h, f, d) /\ f.docs[d] = h.docs[d]
             \/ /\ Entries(f, d) # {} /\ LastOf(f, d) > CurrentSeq(h)
                /\ Entries(h, d) # {} => Newer(CurrentVersion(f, d), CurrentVersion(h, d))
  <2>1. CASE Quiet(h, g, d) /\ g.docs[d] = h.docs[d]
    <3>1. CASE Quiet(g, f, d) /\ f.docs[d] = g.docs[d]
      BY <2>1, <3>1 DEF Quiet
    <3>2. CASE ~(Quiet(g, f, d) /\ f.docs[d] = g.docs[d])
      <4>1. /\ Entries(f, d) # {} /\ LastOf(f, d) > CurrentSeq(g)
            /\ Entries(g, d) # {} => Newer(CurrentVersion(f, d), CurrentVersion(g, d))
        BY <3>2 DEF Moves
      <4>2. LastOf(f, d) \in Nat
        BY <1>1, <4>1, LastIs
      <4> QED
        BY <1>1, <2>1, <4>1, <4>2 DEF Quiet
    <3> QED
      BY <3>1, <3>2
  <2>2. CASE ~(Quiet(h, g, d) /\ g.docs[d] = h.docs[d])
    <3>1. /\ Entries(g, d) # {} /\ LastOf(g, d) > CurrentSeq(h)
          /\ Entries(h, d) # {} => Newer(CurrentVersion(g, d), CurrentVersion(h, d))
      BY <2>2 DEF Moves
    <3>2. /\ Entries(f, d) # {} /\ LastOf(g, d) <= LastOf(f, d)
          /\ LastOf(g, d) \in Nat /\ LastOf(f, d) \in Nat
      BY <3>1, MovesKeep
    <3>3. CurrentVersion(g, d) \in Versions /\ CurrentVersion(f, d) \in Versions
      BY <1>1, <3>1, <3>2, LastIs
    <3>4. AtMost(CurrentVersion(g, d), CurrentVersion(f, d))
      BY <3>1 DEF Moves, Quiet, AtMost
    <3>5. ASSUME Entries(h, d) # {}
          PROVE  Newer(CurrentVersion(f, d), CurrentVersion(h, d))
      <4>1. Newer(CurrentVersion(g, d), CurrentVersion(h, d)) /\ CurrentVersion(h, d) \in Versions
        BY <1>1, <3>1, <3>5, LastIs
      <4>2. CASE CurrentVersion(f, d) = CurrentVersion(g, d)
        BY <4>1, <4>2
      <4>3. CASE Newer(CurrentVersion(f, d), CurrentVersion(g, d))
        BY <3>3, <4>1, <4>3, NewerOn DEF AtMost
      <4> QED
        BY <3>4, <4>2, <4>3 DEF AtMost
    <3> QED
      BY <1>1, <3>1, <3>2, <3>5
  <2> QED
    BY <2>1, <2>2
<1> QED
  BY <1>1, <1>2 DEF Moves

LEMMA MovesKnown ==
    ASSUME NEW h, NEW g, Moves(h, g), NEW d \in Docs, NEW v \in Versions, Known(h, d, v)
    PROVE  /\ Known(g, d, v)
           /\ v = CurrentVersion(g, d) =>
                v = CurrentVersion(h, d) /\ Quiet(h, g, d) /\ g.docs[d] = h.docs[d]
<1>1. /\ Entries(h, d) # {} /\ Entries(g, d) # {} /\ AtMost(v, CurrentVersion(h, d))
      /\ CurrentVersion(h, d) \in Versions /\ CurrentVersion(g, d) \in Versions
  BY MovesKeep, LastIs DEF Known, Moves
<1>2. CASE Quiet(h, g, d) /\ g.docs[d] = h.docs[d]
  BY <1>1, <1>2 DEF Known, Quiet
<1>3. CASE ~(Quiet(h, g, d) /\ g.docs[d] = h.docs[d])
  <2>1. Newer(CurrentVersion(g, d), CurrentVersion(h, d))
    BY <1>1, <1>3 DEF Moves
  <2>2. AtMost(v, CurrentVersion(g, d)) /\ CurrentVersion(g, d) # v
    BY <1>1, <2>1, NewerOn
  <2> QED
    BY <1>1, <2>2 DEF Known
<1> QED
  BY <1>2, <1>3

(* A node beside a hub that has moved: only what they agree on is at stake. *)
LEMMA MovesPaired ==
    ASSUME NEW ts \in Nat, NEW h, NEW g, Moves(h, g), h.vseq <= g.vseq, NEW n, NEW s,
           Paired(n, s, h, ts), OwnCounted(n, s, g), Agree(s, g)
    PROVE  Paired(n, s, g, ts)
<1>1. Whole(h) /\ Whole(g) /\ Whole(s) /\ h.vseq \in Nat /\ g.vseq \in Nat
  BY FeedIs DEF Moves, Paired
<1>2. AtMost(Frontier(h, ts), Frontier(g, ts))
  <2>1. CASE h.vseq = g.vseq
    BY <2>1 DEF Frontier, AtMost
  <2>2. CASE h.vseq < g.vseq
    BY <1>1, <2>2, FrontierIs, NewerIs DEF AtMost
  <2> QED
    BY <1>1, <2>1, <2>2
<1>3. Behind(s, Frontier(g, ts))
  BY <1>1, <1>2, FrontierIs, FrontierAdvances DEF Paired
<1>4. RemotesKnown(s, g)
  BY <1>1, VersionsIn, MovesKnown DEF RemotesKnown, Paired
<1> QED
  BY <1>3, <1>4 DEF Paired

LEMMA AddsMoves ==
    ASSUME NEW h, NEW g, NEW e, Adds(h, g, e),
           \A x \in Docs \ {e.doc} : g.docs[x] = h.docs[x],
           Entries(h, e.doc) # {} => Newer(e.version, CurrentVersion(h, e.doc))
    PROVE  Moves(h, g)
<1>1. /\ Extends(h, g) /\ CurrentSeq(g) = CurrentSeq(h) + 1 /\ CurrentSeq(h) \in Nat
      /\ Entries(g, e.doc) # {} /\ LastOf(g, e.doc) = CurrentSeq(g)
      /\ CurrentVersion(g, e.doc) = e.version
      /\ \A d : d # e.doc => Quiet(h, g, d)
  BY AddsOne
<1> QED
  BY <1>1 DEF Moves, Adds

(* The hub's own write, or the winner of a conflict recorded again.         *)
LEMMA HubRecords ==
    ASSUME NEW ts \in Nat, NEW h, HubFine(h, ts), NEW d \in Docs, NEW op \in Ops,
           NEW g, Records(h, g, Hub, d, op, ts)
    PROVE  /\ HubFine(g, ts) /\ Moves(h, g)
           /\ \A n \in Nodes : \A s : Paired(n, s, h, ts) => Paired(n, s, g, ts)
<1> DEFINE v == <<ts, Hub, h.vseq>>
           e == [doc |-> d, op |-> op, version |-> v, source |-> "local", pushed |-> FALSE]
<1>0. Whole(h) /\ Whole(g) /\ Adds(h, g, e) /\ g.vseq = h.vseq + 1
      /\ h.vseq \in Nat /\ Hub \in Nat
  BY FeedIs, Numbered DEF Records, Adds, HubFine
<1>1. v \in Versions /\ v[1] = ts /\ v[2] = Hub /\ v = Frontier(h, ts)
  BY <1>0 DEF Versions, Frontier
<1>2. e.doc = d /\ e.op = op /\ e.version = v
  OBVIOUS
<1> HIDE DEF v, e
<1>3. Moves(h, g)
  <2>1. ASSUME Entries(h, d) # {}
        PROVE  Newer(v, CurrentVersion(h, d))
    <3>1. /\ LastOf(h, d) \in Seqs(h)
          /\ CurrentVersion(h, d) = Entry(h, LastOf(h, d)).version
      BY <1>0, <2>1, LastIs
    <3> QED
      BY <1>1, <3>1 DEF HubFine, Behind
  <2> QED
    BY <1>0, <1>2, <2>1, AddsMoves DEF Records
<1>4. /\ CurrentSeq(g) \in Seqs(g) /\ Entry(g, CurrentSeq(g)) = e /\ Extends(h, g)
      /\ \A q \in Seqs(g) : q \in Seqs(h) \/ q = CurrentSeq(g)
      /\ CurrentVersion(g, d) = v
      /\ \A x : x # d => Quiet(h, g, x)
  BY <1>0, <1>2, AddsOne
<1>5. HubFine(g, ts)
  <2>1. Newer(Frontier(g, ts), Frontier(h, ts))
    BY <1>0, FrontierIs, NewerIs
  <2>2. Behind(h, Frontier(g, ts))
    BY <1>0, <2>1, FrontierIs, FrontierAdvances DEF HubFine, AtMost
  <2>3. Behind(g, Frontier(g, ts))
    BY <1>0, <1>1, <1>2, <2>1, <2>2, BehindStays
  <2>4. DeletesGone(g)
    BY <1>0, <1>2, DeletesStayGone DEF HubFine, Records
  <2> QED
    BY <1>0, <2>3, <2>4 DEF HubFine
<1>6. ASSUME NEW n \in Nodes, NEW s, Paired(n, s, h, ts)
      PROVE  Paired(n, s, g, ts)
  <2>1. OwnCounted(n, s, g)
    <3>1. n # Hub
      BY EngineAssumption
    <3> QED
      BY <1>1, <1>2, <1>4, <1>6, <3>1 DEF OwnCounted, Paired, Extends
  <2>2. Agree(s, g)
    <3> SUFFICES ASSUME NEW x \in Docs, Entries(g, x) # {}, Entries(s, x) # {},
                        CurrentVersion(s, x) = CurrentVersion(g, x)
                 PROVE  SameState(s.docs[x], g.docs[x])
      BY DEF Agree
    <3>1. Whole(s)
      BY <1>6 DEF Paired
    <3>2. x # d
      <4>1. /\ LastOf(s, x) \in Seqs(s)
            /\ CurrentVersion(s, x) = Entry(s, LastOf(s, x)).version
            /\ CurrentVersion(s, x) \in Versions
        BY <3>1, LastIs
      <4>2. Newer(v, CurrentVersion(s, x))
        BY <1>1, <1>6, <4>1 DEF Paired, Behind
      <4>3. v # CurrentVersion(s, x)
        BY <1>1, <4>1, <4>2, NewerOn DEF AtMost
      <4> QED
        BY <1>4, <4>3
    <3>3. Quiet(h, g, x) /\ g.docs[x] = h.docs[x]
      BY <1>4, <3>2 DEF Records
    <3> QED
      BY <1>6, <3>3 DEF Quiet, Paired, Agree
  <2> QED
    BY <1>0, <1>3, <1>6, <2>1, <2>2, MovesPaired
<1> QED
  BY <1>3, <1>5, <1>6

(* A change in the push queue of node m, whose database is r.               *)
Stands(r, c) == /\ c.seq \in Entries(r, c.doc)
                /\ Entry(r, c.seq).version = c.version
                /\ Entry(r, c.seq).source = "local"

ToPush(r, c) ==
    /\ Stands(r, c)
    /\ c.op = "delete" => ~c.state.live
    /\ c.seq = LastOf(r, c.doc) => SameState(c.state, r.docs[c.doc])

(* A node's versions differ. *)
LEMMA OwnVersionsDiffer ==
    ASSUME NEW n, NEW s, Whole(s), Counters(n, s), NEW p \in Own(s), NEW q \in Own(s),
           Entry(s, p).version = Entry(s, q).version
    PROVE  p = q
<1>1. p \in Nat /\ q \in Nat
  BY FeedIs DEF Own
<1>2. Entry(s, p).version[3] \in Nat /\ Entry(s, q).version[3] \in Nat
  BY VersionsIn, VersionIs DEF Own
<1>3. /\ p < q => Entry(s, p).version[3] < Entry(s, q).version[3]
      /\ q < p => Entry(s, q).version[3] < Entry(s, p).version[3]
  BY DEF Counters
<1> QED
  BY <1>1, <1>2, <1>3

LEMMA SameStateIs ==
    /\ \A x, y : SameState(x, y) <=> SameState(y, x)
    /\ \A x, y, z : SameState(x, y) /\ SameState(y, z) => SameState(x, z)
BY DEF SameState

LEMMA HubTakes ==
    ASSUME NEW ts \in Nat, NEW h, HubFine(h, ts), NEW m \in Nodes, NEW r,
           Paired(m, r, h, ts), NEW c \in Changes, ToPush(r, c),
           NEW g, Accepts(h, g, c, "lww")
    PROVE  /\ HubFine(g, ts) /\ Moves(h, g) /\ Paired(m, r, g, ts)
           /\ \A n \in Nodes \ {m} : \A s : Paired(n, s, h, ts) => Paired(n, s, g, ts)
<1> DEFINE e == [doc |-> c.doc, op |-> c.op, version |-> c.version,
                 source |-> "remote", pushed |-> TRUE]
<1>0. Whole(h) /\ Whole(g) /\ Whole(r) /\ Adds(h, g, e) /\ g.vseq = h.vseq /\ Takes(h, g, c)
      /\ c.version \in Versions /\ c.doc \in Docs /\ h.vseq \in Nat
  BY FeedIs DEF Accepts, Takes, Adds, HubFine, Changes, Paired
<1>1. e.doc = c.doc /\ e.op = c.op /\ e.version = c.version
  OBVIOUS
<1> HIDE DEF e
<1>2. Entries(h, c.doc) # {} => Newer(c.version, CurrentVersion(h, c.doc))
  BY DEF Accepts, RemoteWins
<1>3. Moves(h, g)
  BY <1>0, <1>1, <1>2, AddsMoves DEF Takes
<1>4. /\ CurrentSeq(g) \in Seqs(g) /\ Entry(g, CurrentSeq(g)) = e /\ Extends(h, g)
      /\ \A q \in Seqs(g) : q \in Seqs(h) \/ q = CurrentSeq(g)
      /\ CurrentVersion(g, c.doc) = c.version
      /\ \A x : x # c.doc => Quiet(h, g, x)
  BY <1>0, <1>1, AddsOne
<1>5. c.seq \in Own(r) /\ Entry(r, c.seq).version = c.version
      /\ c.version[2] = m /\ c.version[3] < r.vseq
  BY DEF ToPush, Stands, Own, Entries, Paired, Counters
<1>6. HubFine(g, ts)
  <2>1. Frontier(g, ts) = Frontier(h, ts)
    BY <1>0 DEF Frontier
  <2>2. Newer(Frontier(h, ts), c.version)
    BY <1>5 DEF Paired, Behind, Own
  <2>3. Behind(g, Frontier(g, ts))
    BY <1>0, <1>1, <2>1, <2>2, BehindStays DEF HubFine
  <2>4. DeletesGone(g)
    BY <1>0, <1>1, DeletesStayGone DEF HubFine, Takes, ToPush
  <2> QED
    BY <1>0, <2>3, <2>4 DEF HubFine
<1>7. ASSUME NEW n \in Nodes, NEW s, Paired(n, s, h, ts), n = m => s = r
      PROVE  Paired(n, s, g, ts)
  <2>0. Whole(s)
    BY <1>7 DEF Paired
  <2>1. OwnCounted(n, s, g)
    BY <1>1, <1>4, <1>5, <1>7 DEF OwnCounted, Paired, Extends
  <2>2. Agree(s, g)
    <3> SUFFICES ASSUME NEW x \in Docs, Entries(g, x) # {}, Entries(s, x) # {},
                        CurrentVersion(s, x) = CurrentVersion(g, x)
                 PROVE  SameState(s.docs[x], g.docs[x])
      BY DEF Agree
    <3>1. CASE x # c.doc
      <4>1. Quiet(h, g, x) /\ g.docs[x] = h.docs[x]
        BY <1>0, <1>4, <3>1 DEF Takes
      <4> QED
        BY <1>7, <4>1 DEF Quiet, Paired, Agree
    <3>2. CASE x = c.doc
      <4> DEFINE q == LastOf(s, x)
      <4>1. q \in Seqs(s) /\ q \in Entries(s, x) /\ Entry(s, q).version = c.version
        BY <1>4, <2>0, <3>2, LastIs
      <4> HIDE DEF q
      <4>2. Entry(s, q).doc = c.doc
        BY <3>2, <4>1 DEF Entries
      <4>3. Entry(s, q).source # "remote"
        <5>1. SUFFICES ASSUME Entry(s, q).source = "remote" PROVE FALSE
          OBVIOUS
        <5>2. Known(h, c.doc, c.version)
          BY <1>7, <4>1, <4>2, <5>1 DEF Paired, RemotesKnown
        <5>3. /\ Newer(c.version, CurrentVersion(h, c.doc))
              /\ AtMost(c.version, CurrentVersion(h, c.doc))
              /\ CurrentVersion(h, c.doc) \in Versions
          BY <1>0, <1>2, <5>2, LastIs DEF Known
        <5> QED
          BY <1>0, <5>3, NewerOn
      <4>4. q \in Own(s)
        BY <2>0, <4>1, <4>3, VersionsIn DEF Own
      <4>5. n = m /\ s = r
        BY <1>5, <1>7, <4>1, <4>4 DEF Paired, Counters
      <4>6. q = c.seq
        BY <1>5, <1>7, <2>0, <4>1, <4>4, <4>5, OwnVersionsDiffer DEF Paired
      <4>7. SameState(c.state, s.docs[x])
        BY <3>2, <4>5, <4>6 DEF q, ToPush
      <4> QED
        BY <1>0, <3>2, <4>7, SameStateIs DEF Takes
    <3> QED
      BY <3>1, <3>2
  <2> QED
    BY <1>0, <1>3, <1>7, <2>1, <2>2, MovesPaired
<1> QED
  BY <1>3, <1>6, <1>7

(* Each change a node pulls is the last of its document, as the hub has it. *)
UpToDate(h, from, c) ==
    /\ c.doc \in Docs /\ c.seq \in Entries(h, c.doc) /\ from < c.seq
    /\ FromHub(h, c) /\ c.version = CurrentVersion(h, c.doc)

LEMMA LatestIs ==
    ASSUME NEW h, Whole(h), NEW from \in Nat, NEW colls
    PROVE  LET Q == Latest(h, Within(h, {q \in Seqs(h) : q > from}, colls))
           IN /\ Q \subseteq Seqs(h)
              /\ \A q \in Q : /\ q > from /\ Entry(h, q).doc \in Docs
                              /\ q \in Entries(h, Entry(h, q).doc)
                              /\ q = LastOf(h, Entry(h, q).doc)
              /\ \A d \in Docs : /\ colls = {} \/ CollOf[d] \in colls
                                 /\ Entries(h, d) # {} /\ from < LastOf(h, d)
                                 => LastOf(h, d) \in Q /\ Entry(h, LastOf(h, d)).doc = d
<1> DEFINE W == Within(h, {q \in Seqs(h) : q > from}, colls)
           Q == Latest(h, W)
<1> SUFFICES /\ Q \subseteq Seqs(h)
             /\ \A q \in Q : /\ q > from /\ Entry(h, q).doc \in Docs
                             /\ q \in Entries(h, Entry(h, q).doc)
                             /\ q = LastOf(h, Entry(h, q).doc)
             /\ \A d \in Docs : /\ colls = {} \/ CollOf[d] \in colls
                                /\ Entries(h, d) # {} /\ from < LastOf(h, d)
                                => LastOf(h, d) \in Q /\ Entry(h, LastOf(h, d)).doc = d
  OBVIOUS
<1>1. \A q : q \in W <=> /\ q \in Seqs(h) /\ q > from
                         /\ colls = {} \/ CollOf[Entry(h, q).doc] \in colls
  BY DEF Within
<1>2. \A q : q \in Q <=> /\ q \in W
                         /\ \A p \in W : Entry(h, p).doc = Entry(h, q).doc => p <= q
  BY DEF Latest
<1> HIDE DEF W, Q
<1>3. ASSUME NEW q \in Q
      PROVE  /\ q \in Seqs(h) /\ q > from /\ Entry(h, q).doc \in Docs
             /\ q \in Entries(h, Entry(h, q).doc)
             /\ q = LastOf(h, Entry(h, q).doc)
  <2>1. q \in Seqs(h) /\ q > from /\ q \in Nat /\ q \in W
    BY <1>1, <1>2, FeedIs
  <2> DEFINE d == Entry(h, q).doc
             l == LastOf(h, d)
  <2>2. d \in Docs /\ q \in Entries(h, d)
    BY <2>1, VersionsIn
  <2>3. l \in Entries(h, d) /\ l \in Seqs(h) /\ l \in Nat /\ q <= l /\ Entry(h, l).doc = d
    BY <2>2, LastIs DEF Entries
  <2> HIDE DEF l
  <2>4. l \in W
    BY <1>1, <2>1, <2>3
  <2>5. l <= q
    BY <1>2, <2>3, <2>4
  <2>6. l = q
    BY <2>1, <2>3, <2>5
  <2> QED
    BY <2>1, <2>2, <2>6 DEF l
<1>4. ASSUME NEW d \in Docs, colls = {} \/ CollOf[d] \in colls,
             Entries(h, d) # {}, from < LastOf(h, d)
      PROVE  LastOf(h, d) \in Q /\ Entry(h, LastOf(h, d)).doc = d
  <2> DEFINE l == LastOf(h, d)
  <2>1. /\ l \in Seqs(h) /\ Entry(h, l).doc = d /\ l \in Nat
        /\ \A p \in Entries(h, d) : p <= l
    BY <1>4, LastIs DEF Entries
  <2> HIDE DEF l
  <2>2. l \in W
    BY <1>1, <1>4, <2>1 DEF l
  <2>3. \A p \in W : Entry(h, p).doc = d => p <= l
    BY <1>1, <2>1 DEF Entries
  <2> QED
    BY <1>2, <2>1, <2>2, <2>3 DEF l
<1> QED
  BY <1>3, <1>4

LEMMA ChangeAtFields ==
    ASSUME NEW s, NEW q
    PROVE  /\ ChangeAt(s, q).seq = q /\ ChangeAt(s, q).doc = Entry(s, q).doc
           /\ ChangeAt(s, q).version = Entry(s, q).version
           /\ ChangeAt(s, q).op = "delete" => ~ChangeAt(s, q).state.live
           /\ \/ ChangeAt(s, q).state = s.docs[Entry(s, q).doc]
              \/ /\ ChangeAt(s, q).state = Absent
                 /\ Entry(s, q).op = "delete" \/ ~s.docs[Entry(s, q).doc].live
BY DEF ChangeAt, Absent

LEMMA ChangeAtLast ==
    ASSUME NEW s, Whole(s), DeletesGone(s), NEW d \in Docs, Entries(s, d) # {}
    PROVE  SameState(ChangeAt(s, LastOf(s, d)).state, s.docs[d])
<1> DEFINE l == LastOf(s, d)
<1>1. Entry(s, l).doc = d
  BY LastIs DEF Entries
<1>2. Entry(s, l).op = "delete" => ~s.docs[d].live
  BY DEF DeletesGone
<1>3. s.docs[d].live \in BOOLEAN
  BY FeedIs DEF States
<1> HIDE DEF l
<1>4. CASE ChangeAt(s, l).state = s.docs[d]
  BY <1>4 DEF l, SameState
<1>5. CASE ChangeAt(s, l).state = Absent /\ ~s.docs[d].live
  <2>1. Absent.live = FALSE
    BY DEF Absent
  <2> QED
    BY <1>3, <1>5, <2>1 DEF l, SameState
<1> QED
  BY <1>1, <1>2, <1>4, <1>5, ChangeAtFields

LEMMA ChangesSinceIs ==
    ASSUME NEW h, Whole(h), DeletesGone(h), NEW from \in Nat, from <= CurrentSeq(h),
           NEW colls, NEW limit \in Nat \ {0}
    PROVE  LET a == ChangesSince(h, from, colls, limit)
           IN /\ a.cursor \in from..CurrentSeq(h)
              /\ \A i \in 1..Len(a.changes) : UpToDate(h, from, a.changes[i])
              /\ \A i, j \in 1..Len(a.changes) : a.changes[i].doc = a.changes[j].doc => i = j
              /\ \A d \in Docs :
                    /\ colls = {} \/ CollOf[d] \in colls
                    /\ Entries(h, d) # {} /\ from < LastOf(h, d) /\ LastOf(h, d) <= a.cursor
                    => \E i \in 1..Len(a.changes) :
                          /\ a.changes[i].doc = d
                          /\ a.changes[i].version = CurrentVersion(h, d)
<1> DEFINE Q == Latest(h, Within(h, {q \in Seqs(h) : q > from}, colls))
           b == Batch(Q, limit)
           cs == [i \in DOMAIN b |-> ChangeAt(h, b[i])]
           top == IF b = << >> THEN from ELSE b[Len(b)]
           a == ChangesSince(h, from, colls, limit)
<1> SUFFICES /\ a.cursor \in from..CurrentSeq(h)
             /\ \A i \in 1..Len(a.changes) : UpToDate(h, from, a.changes[i])
             /\ \A i, j \in 1..Len(a.changes) : a.changes[i].doc = a.changes[j].doc => i = j
             /\ \A d \in Docs :
                   /\ colls = {} \/ CollOf[d] \in colls
                   /\ Entries(h, d) # {} /\ from < LastOf(h, d) /\ LastOf(h, d) <= a.cursor
                   => \E i \in 1..Len(a.changes) :
                         /\ a.changes[i].doc = d
                         /\ a.changes[i].version = CurrentVersion(h, d)
  OBVIOUS
<1>1. a = [changes |-> cs, cursor |-> top]
  BY DEF ChangesSince
<1>2. /\ Q \subseteq Seqs(h)
      /\ \A q \in Q : /\ q > from /\ Entry(h, q).doc \in Docs
                      /\ q \in Entries(h, Entry(h, q).doc)
                      /\ q = LastOf(h, Entry(h, q).doc)
      /\ \A d \in Docs : /\ colls = {} \/ CollOf[d] \in colls
                         /\ Entries(h, d) # {} /\ from < LastOf(h, d)
                         => LastOf(h, d) \in Q /\ Entry(h, LastOf(h, d)).doc = d
  BY LatestIs
<1> HIDE DEF a, Q
<1>3. Q \subseteq Nat /\ IsFiniteSet(Q) /\ \A q \in Q : q <= CurrentSeq(h)
  <2>1. h \in Stores
    BY DEF Whole
  <2>2. Seqs(h) \subseteq Nat /\ IsFiniteSet(Seqs(h))
    BY <2>1, SeqsFinite
  <2> QED
    BY <1>2, <2>2, FS_Subset, FeedIs
<1>4. /\ b \in Seq(Q)
      /\ \A i, j \in 1..Len(b) : i < j => b[i] < b[j]
      /\ Q # {} => Len(b) > 0
      /\ \A q \in Q : Len(b) > 0 /\ q <= b[Len(b)] => \E i \in 1..Len(b) : b[i] = q
  BY <1>3, BatchIs
<1> HIDE DEF b
<1>5. Len(b) \in Nat /\ DOMAIN b = 1..Len(b) /\ \A i \in 1..Len(b) : b[i] \in Q
  BY <1>4, LenProperties, ElementOfSeq
<1>6. Len(cs) = Len(b) /\ \A i \in 1..Len(b) : cs[i] = ChangeAt(h, b[i])
  <2>1. cs = [i \in 1..Len(b) |-> ChangeAt(h, b[i])]
    BY <1>5
  <2>2. cs \in [1..Len(b) -> {ChangeAt(h, q) : q \in Q}]
    BY <1>5, <2>1
  <2>3. Len(cs) = Len(b)
    BY <1>5, <2>2, FunctionAsSeq
  <2> QED
    BY <1>5, <2>3
<1> HIDE DEF cs
<1>7. /\ top \in from..CurrentSeq(h)
      /\ Len(b) > 0 => top = b[Len(b)]
      /\ Len(b) = 0 => top = from
  <2>1. CASE b = << >>
    BY <2>1, EmptySeq, FeedIs
  <2>2. CASE b # << >>
    <3>1. Len(b) > 0
      BY <1>4, <1>5, <2>2, EmptySeq
    <3>2. Len(b) \in 1..Len(b)
      BY <1>5, <3>1
    <3>3. b[Len(b)] \in Q /\ b[Len(b)] \in Nat
      BY <1>3, <1>5, <3>2
    <3> QED
      BY <1>2, <1>3, <2>2, <3>1, <3>3, FeedIs
  <2> QED
    BY <2>1, <2>2
<1> HIDE DEF top
<1>8. ASSUME NEW i \in 1..Len(b)
      PROVE  UpToDate(h, from, cs[i]) /\ cs[i].doc = Entry(h, b[i]).doc
  <2>1. /\ b[i] > from /\ Entry(h, b[i]).doc \in Docs
        /\ b[i] \in Entries(h, Entry(h, b[i]).doc)
        /\ b[i] = LastOf(h, Entry(h, b[i]).doc)
    BY <1>2, <1>5
  <2>2. /\ cs[i].seq = b[i] /\ cs[i].doc = Entry(h, b[i]).doc
        /\ cs[i].version = Entry(h, b[i]).version
        /\ cs[i].op = "delete" => ~cs[i].state.live
    BY <1>6, ChangeAtFields
  <2>3. SameState(cs[i].state, h.docs[cs[i].doc])
    BY <1>6, <2>1, <2>2, ChangeAtLast
  <2>4. cs[i].version = CurrentVersion(h, cs[i].doc)
    BY <2>1, <2>2, LastIs
  <2>5. from < b[i]
    BY <1>3, <1>5, <2>1
  <2> QED
    BY <2>1, <2>2, <2>3, <2>4, <2>5 DEF UpToDate, FromHub, Known, AtMost
<1>9. ASSUME NEW i \in 1..Len(b), NEW j \in 1..Len(b), cs[i].doc = cs[j].doc
      PROVE  i = j
  <2>1. b[i] = b[j] /\ b[i] \in Nat
    BY <1>2, <1>3, <1>5, <1>8, <1>9
  <2>2. ~(i < j) /\ ~(j < i)
    BY <1>4, <2>1
  <2> QED
    BY <2>2
<1>10. ASSUME NEW d \in Docs, colls = {} \/ CollOf[d] \in colls,
              Entries(h, d) # {}, from < LastOf(h, d), LastOf(h, d) <= top
       PROVE  \E i \in 1..Len(b) : cs[i].doc = d /\ cs[i].version = CurrentVersion(h, d)
  <2>1. LastOf(h, d) \in Q /\ Entry(h, LastOf(h, d)).doc = d
    BY <1>2, <1>10
  <2>2. Len(b) > 0
    BY <1>4, <2>1
  <2>3. PICK i \in 1..Len(b) : b[i] = LastOf(h, d)
    BY <1>4, <1>7, <1>10, <2>1, <2>2
  <2> QED
    BY <1>8, <2>1, <2>3 DEF UpToDate
<1> QED
  BY <1>1, <1>6, <1>7, <1>8, <1>9, <1>10

(* What pending() reads from the push queue.                                *)
LEMMA PendingIs ==
    ASSUME NEW s, Whole(s), DeletesGone(s), NEW colls, NEW limit \in Nat
    PROVE  \A i \in 1..Len(Pending(s, colls, limit)) : ToPush(s, Pending(s, colls, limit)[i])
<1> DEFINE Q == Latest(s, Within(s, Unpushed(s), colls))
           b == Batch(Q, limit)
           cs == [i \in DOMAIN b |-> ChangeAt(s, b[i])]
<1>1. Pending(s, colls, limit) = cs
  BY DEF Pending
<1>2. Q \subseteq Unpushed(s)
  BY DEF Latest, Within
<1> HIDE DEF Q
<1>3. Q \subseteq Nat /\ IsFiniteSet(Q) /\ Q \subseteq Seqs(s)
  <2>1. s \in Stores
    BY DEF Whole
  <2>2. Seqs(s) \subseteq Nat /\ IsFiniteSet(Seqs(s)) /\ Q \subseteq Seqs(s)
    BY <1>2, <2>1, SeqsFinite DEF Unpushed
  <2> QED
    BY <2>2, FS_Subset
<1>4. b \in Seq(Q)
  BY <1>3, BatchWithin
<1> HIDE DEF b
<1>5. Len(b) \in Nat /\ DOMAIN b = 1..Len(b) /\ \A i \in 1..Len(b) : b[i] \in Q
  BY <1>4, LenProperties, ElementOfSeq
<1>6. Len(cs) = Len(b) /\ \A i \in 1..Len(b) : cs[i] = ChangeAt(s, b[i])
  <2>1. cs = [i \in 1..Len(b) |-> ChangeAt(s, b[i])]
    BY <1>5
  <2>2. cs \in [1..Len(b) -> {ChangeAt(s, q) : q \in Q}]
    BY <1>5, <2>1
  <2>3. Len(cs) = Len(b)
    BY <1>5, <2>2, FunctionAsSeq
  <2> QED
    BY <1>5, <2>3
<1> HIDE DEF cs
<1>7. ASSUME NEW i \in 1..Len(b)
      PROVE  ToPush(s, cs[i])
  <2>1. /\ cs[i].seq = b[i] /\ cs[i].doc = Entry(s, b[i]).doc
        /\ cs[i].version = Entry(s, b[i]).version
        /\ cs[i].op = "delete" => ~cs[i].state.live
    BY <1>6, ChangeAtFields
  <2>2. /\ b[i] \in Seqs(s) /\ Entry(s, b[i]).source = "local"
        /\ Entry(s, b[i]).doc \in Docs /\ b[i] \in Entries(s, Entry(s, b[i]).doc)
    BY <1>2, <1>3, <1>5, VersionsIn DEF Unpushed
  <2>3. b[i] = LastOf(s, cs[i].doc) => SameState(cs[i].state, s.docs[cs[i].doc])
    BY <1>6, <2>1, <2>2, ChangeAtLast
  <2> QED
    BY <2>1, <2>2, <2>3 DEF ToPush, Stands
<1> QED
  BY <1>1, <1>6, <1>7

(* markPushed() changes nothing but that mark. *)
Marks(s, t, cs) ==
    /\ Whole(s) /\ Whole(t) /\ Seqs(t) = Seqs(s)
    /\ t.docs = s.docs /\ t.vseq = s.vseq /\ t.colls = s.colls
    /\ \A q \in Seqs(s) :
         /\ Entry(t, q).doc = Entry(s, q).doc /\ Entry(t, q).op = Entry(s, q).op
         /\ Entry(t, q).version = Entry(s, q).version
         /\ Entry(t, q).source = Entry(s, q).source
         /\ \/ Entry(t, q).pushed = Entry(s, q).pushed
            \/ \E k \in DOMAIN cs : cs[k].doc = Entry(s, q).doc /\ q <= cs[k].seq

LEMMA MarkPushedIs ==
    ASSUME NEW s, Whole(s), NEW cs
    PROVE  Marks(s, MarkPushed(s, cs), cs)
<1> DEFINE hit(i) == /\ s.feed[i].source = "local"
                     /\ \E k \in DOMAIN cs : /\ cs[k].doc = s.feed[i].doc
                                             /\ s.base + i <= cs[k].seq
           g == [i \in 1..Len(s.feed) |->
                   IF hit(i) THEN [s.feed[i] EXCEPT !.pushed = TRUE] ELSE s.feed[i]]
           t == MarkPushed(s, cs)
<1>1. /\ s \in Stores /\ s.base = 0 /\ Len(s.feed) \in Nat /\ DOMAIN s.feed = 1..Len(s.feed)
      /\ \A i \in 1..Len(s.feed) : s.feed[i] \in FeedEntries
  BY StoreFields DEF Whole
<1>2. t = [s EXCEPT !.feed = g]
  BY <1>1 DEF MarkPushed
<1>3. t \in Stores
  BY <1>1, MarkPushedMarks
<1> HIDE DEF hit
<1>4. \A i \in 1..Len(s.feed) :
         /\ g[i].doc = s.feed[i].doc /\ g[i].op = s.feed[i].op
         /\ g[i].version = s.feed[i].version /\ g[i].source = s.feed[i].source
         /\ ~hit(i) => g[i] = s.feed[i]
  BY <1>1 DEF FeedEntries
<1> HIDE DEF g, t
<1>5. /\ t.feed = g /\ t.base = 0 /\ t.docs = s.docs /\ t.vseq = s.vseq /\ t.colls = s.colls
  BY <1>1, <1>2 DEF Stores
<1>6. Whole(t)
  BY <1>3, <1>5 DEF Whole
<1>7. Seqs(t) = Seqs(s)
  BY <1>1, MarkPushedMarks DEF t
<1>8. /\ Seqs(s) = 1..Len(s.feed)
      /\ \A q \in Seqs(s) : Entry(t, q) = g[q] /\ Entry(s, q) = s.feed[q]
  BY <1>5, <1>6, <1>7, FeedIs
<1>9. \A i \in 1..Len(s.feed) : hit(i) =>
         \E k \in DOMAIN cs : cs[k].doc = s.feed[i].doc /\ i <= cs[k].seq
  <2>1. \A i \in 1..Len(s.feed) : s.base + i = i
    BY <1>1
  <2> QED
    BY <2>1 DEF hit
<1>10. Marks(s, t, cs)
  BY <1>4, <1>5, <1>6, <1>7, <1>8, <1>9 DEF Marks
<1> QED
  BY <1>10 DEF t

-----------------------------------------------------------------------------
(* The last change of d is a node's own and has still to be pushed.         *)
Waiting(s, d) == Entries(s, d) # {} /\ LastOf(s, d) \in Unpushed(s)

Reached(s, h, d) == Entries(s, d) # {} /\ CurrentVersion(s, d) = CurrentVersion(h, d)

Pulled(d) == Explicit = {} \/ CollOf[d] \in Explicit

(* A cursor has passed only what the node has, or has an answer to.         *)
Passed(s, h, cur) ==
    \A d \in Docs : Pulled(d) /\ Entries(h, d) # {} /\ LastOf(h, d) <= cur
                      => Waiting(s, d) \/ Reached(s, h, d)

(* A pulled batch: changes of the hub past the cursor, one for a document,  *)
(* and all that there are up to the cursor it comes with.                   *)
Distinct(cs) == \A i, j \in 1..Len(cs) : cs[i].doc = cs[j].doc => i = j

Offered(h, cur, c) ==
    /\ c.doc \in Docs /\ c.seq \in Entries(h, c.doc) /\ cur < c.seq /\ FromHub(h, c)

Complete(h, cur, box) ==
    \A d \in Docs :
       Pulled(d) /\ Entries(h, d) # {} /\ cur < LastOf(h, d) /\ LastOf(h, d) <= box.cursor
         => \E i \in 1..Len(box.changes) :
               box.changes[i].doc = d /\ box.changes[i].version = CurrentVersion(h, d)

BoxFine(h, cur, box) ==
    /\ cur \in 0..CurrentSeq(h) /\ box.cursor \in cur..CurrentSeq(h)
    /\ \A i \in 1..Len(box.changes) : Offered(h, cur, box.changes[i])
    /\ Distinct(box.changes) /\ Complete(h, cur, box)

(* A batch to push, and what of it was acknowledged: the hub had it, and    *)
(* has it still unless it has a later change that the node has not pulled.  *)
OutFine(s, out) == \A i \in 1..Len(out) : ToPush(s, out[i])

Arrived(h, cur, c) ==
    /\ Entries(h, c.doc) # {}
    /\ LastOf(h, c.doc) > cur \/ CurrentVersion(h, c.doc) = c.version

AckFine(s, h, cur, ack) ==
    \A i \in 1..Len(ack) : ack[i].doc \in Docs /\ Stands(s, ack[i]) /\ Arrived(h, cur, ack[i])

NodeFine(n, s, h, ts, cur, box, out, ack) ==
    /\ Paired(n, s, h, ts) /\ Passed(s, h, cur) /\ BoxFine(h, cur, box)
    /\ OutFine(s, out) /\ AckFine(s, h, cur, ack)

(* What the application does to a node's database: a document that          *)
(* something is noted of waits to be pushed.                                *)
Wrote(s, t) ==
    /\ Whole(s) /\ Whole(t) /\ Extends(s, t) /\ CurrentSeq(s) <= CurrentSeq(t)
    /\ \A d \in Docs : \/ Quiet(s, t, d) /\ t.docs[d] = s.docs[d]
                       \/ Waiting(t, d) /\ LastOf(t, d) > CurrentSeq(s)

LEMMA QuietWaits ==
    ASSUME NEW s, NEW t, Whole(s), Whole(t), Extends(s, t), NEW d, Quiet(s, t, d)
    PROVE  Waiting(t, d) <=> Waiting(s, d)
<1>1. CASE Entries(s, d) = {}
  BY <1>1 DEF Waiting, Quiet
<1>2. CASE Entries(s, d) # {}
  <2>1. LastOf(s, d) \in Seqs(s) /\ LastOf(t, d) = LastOf(s, d)
    BY <1>2, LastIs DEF Quiet
  <2> QED
    BY <2>1 DEF Waiting, Quiet, Unpushed, Extends
<1> QED
  BY <1>1, <1>2

LEMMA RecordsWrote ==
    ASSUME NEW s, NEW t, NEW n, NEW d \in Docs, NEW op, NEW w, Records(s, t, n, d, op, w)
    PROVE  Wrote(s, t)
<1> DEFINE e == [doc |-> d, op |-> op, version |-> <<w, n, s.vseq>>,
                 source |-> "local", pushed |-> FALSE]
<1>1. Adds(s, t, e) /\ Whole(s) /\ Whole(t)
  BY DEF Records, Adds
<1>2. e.doc = d /\ e.source = "local" /\ e.pushed = FALSE
  OBVIOUS
<1> HIDE DEF e
<1>3. /\ Extends(s, t) /\ CurrentSeq(t) = CurrentSeq(s) + 1 /\ CurrentSeq(s) \in Nat
      /\ CurrentSeq(t) \in Seqs(t) /\ Entry(t, CurrentSeq(t)) = e
      /\ Entries(t, d) # {} /\ LastOf(t, d) = CurrentSeq(t)
      /\ \A x : x # d => Quiet(s, t, x)
  BY <1>1, <1>2, AddsOne
<1>4. Waiting(t, d)
  BY <1>2, <1>3 DEF Waiting, Unpushed
<1> QED
  BY <1>1, <1>3, <1>4 DEF Wrote, Records

LEMMA WroteSelf == ASSUME NEW s, Whole(s) PROVE Wrote(s, s)
BY FeedIs DEF Wrote, Extends, Quiet

LEMMA WroteOn ==
    ASSUME NEW s, NEW t, NEW u, Wrote(s, t), Wrote(t, u)
    PROVE  Wrote(s, u)
<1>1. /\ Whole(s) /\ Whole(t) /\ Whole(u) /\ Extends(s, u) /\ Extends(t, u)
      /\ CurrentSeq(s) \in Nat /\ CurrentSeq(t) \in Nat /\ CurrentSeq(u) \in Nat
      /\ CurrentSeq(s) <= CurrentSeq(t) /\ CurrentSeq(t) <= CurrentSeq(u)
  BY FeedIs DEF Wrote, Extends
<1>2. ASSUME NEW d \in Docs
      PROVE  \/ Quiet(s, u, d) /\ u.docs[d] = s.docs[d]
             \/ Waiting(u, d) /\ LastOf(u, d) > CurrentSeq(s)
  <2>1. CASE Waiting(u, d) /\ LastOf(u, d) > CurrentSeq(t)
    <3>1. LastOf(u, d) \in Nat
      BY <1>1, <2>1, LastIs DEF Waiting
    <3> QED
      BY <1>1, <2>1, <3>1
  <2>2. CASE Quiet(t, u, d) /\ u.docs[d] = t.docs[d]
    <3>1. CASE Quiet(s, t, d) /\ t.docs[d] = s.docs[d]
      BY <2>2, <3>1 DEF Quiet
    <3>2. CASE Waiting(t, d) /\ LastOf(t, d) > CurrentSeq(s)
      <4>1. Waiting(u, d)
        BY <1>1, <2>2, <3>2, QuietWaits
      <4> QED
        BY <2>2, <3>2, <4>1 DEF Quiet
    <3> QED
      BY <3>1, <3>2 DEF Wrote
  <2> QED
    BY <2>1, <2>2 DEF Wrote
<1> QED
  BY <1>1, <1>2 DEF Wrote

LEMMA WroteFine ==
    ASSUME NEW n, NEW s, NEW t, NEW h, NEW ts, NEW cur, NEW box, NEW out, NEW ack,
           NodeFine(n, s, h, ts, cur, box, out, ack), Wrote(s, t), Paired(n, t, h, ts)
    PROVE  NodeFine(n, t, h, ts, cur, box, out, ack)
<1>0. Whole(s) /\ Whole(t) /\ Extends(s, t)
  BY DEF Wrote
<1>1. Passed(t, h, cur)
  <2> SUFFICES ASSUME NEW d \in Docs, Waiting(s, d) \/ Reached(s, h, d)
               PROVE  Waiting(t, d) \/ Reached(t, h, d)
    BY DEF NodeFine, Passed
  <2>1. CASE Quiet(s, t, d)
    BY <1>0, <2>1, QuietWaits DEF Reached, Quiet
  <2>2. CASE ~Quiet(s, t, d)
    BY <2>2 DEF Wrote
  <2> QED
    BY <2>1, <2>2
<1>2. ASSUME NEW c, Stands(s, c)
      PROVE  Stands(t, c)
  BY <1>0, <1>2 DEF Stands, Extends, Entries
<1>3. OutFine(t, out)
  <2> SUFFICES ASSUME NEW i \in 1..Len(out) PROVE ToPush(t, out[i])
    BY DEF OutFine
  <2> DEFINE c == out[i]
  <2>1. ToPush(s, c)
    BY DEF NodeFine, OutFine
  <2> HIDE DEF c
  <2>2. c.seq \in Seqs(s) /\ Entry(s, c.seq).doc = c.doc
    BY <2>1 DEF ToPush, Stands, Entries
  <2>3. c.doc \in Docs /\ c.seq <= CurrentSeq(s) /\ c.seq \in Nat /\ CurrentSeq(s) \in Nat
    BY <1>0, <2>2, VersionsIn, FeedIs
  <2>4. c.seq = LastOf(t, c.doc) => SameState(c.state, t.docs[c.doc])
    <3>1. CASE Quiet(s, t, c.doc) /\ t.docs[c.doc] = s.docs[c.doc]
      BY <2>1, <3>1 DEF ToPush, Quiet
    <3>2. CASE LastOf(t, c.doc) > CurrentSeq(s)
      BY <2>3, <3>2
    <3> QED
      BY <2>3, <3>1, <3>2 DEF Wrote
  <2>5. ToPush(t, c)
    BY <1>2, <2>1, <2>4 DEF ToPush
  <2> QED
    BY <2>5 DEF c
<1>4. AckFine(t, h, cur, ack)
  BY <1>2 DEF NodeFine, AckFine
<1> QED
  BY <1>1, <1>3, <1>4 DEF NodeFine

LEMMA ArrivedStays ==
    ASSUME NEW h, NEW g, Moves(h, g), NEW cur \in Nat, cur <= CurrentSeq(h),
           NEW c, c.doc \in Docs, Arrived(h, cur, c)
    PROVE  Arrived(g, cur, c)
<1>1. Whole(g) /\ CurrentSeq(h) \in Nat
  BY FeedIs DEF Moves
<1>2. CASE Quiet(h, g, c.doc)
  BY <1>2 DEF Arrived, Quiet
<1>3. CASE ~Quiet(h, g, c.doc)
  <2>1. Entries(g, c.doc) # {} /\ LastOf(g, c.doc) > CurrentSeq(h)
    BY <1>3 DEF Moves
  <2>2. LastOf(g, c.doc) \in Nat
    BY <1>1, <2>1, LastIs
  <2> QED
    BY <1>1, <2>1, <2>2 DEF Arrived
<1> QED
  BY <1>2, <1>3

LEMMA HubMovesFine ==
    ASSUME NEW n, NEW s, NEW h, NEW g, NEW ts, NEW cur, NEW box, NEW out, NEW ack,
           NodeFine(n, s, h, ts, cur, box, out, ack), Moves(h, g), Paired(n, s, g, ts),
           \A i \in 1..Len(box.changes) : box.changes[i] \in Changes
    PROVE  NodeFine(n, s, g, ts, cur, box, out, ack)
<1>0. /\ Whole(h) /\ Whole(g) /\ Extends(h, g)
      /\ CurrentSeq(h) \in Nat /\ CurrentSeq(g) \in Nat /\ CurrentSeq(h) <= CurrentSeq(g)
      /\ cur \in 0..CurrentSeq(h) /\ box.cursor \in cur..CurrentSeq(h)
  BY FeedIs DEF Moves, NodeFine, BoxFine
<1>1. ASSUME NEW d \in Docs, Entries(g, d) # {}, LastOf(g, d) <= CurrentSeq(h)
      PROVE  Quiet(h, g, d)
  <2>1. LastOf(g, d) \in Nat
    BY <1>0, <1>1, LastIs
  <2> QED
    BY <1>0, <1>1, <2>1 DEF Moves
<1>2. Passed(s, g, cur)
  <2> SUFFICES ASSUME NEW d \in Docs, Pulled(d), Entries(g, d) # {}, LastOf(g, d) <= cur
               PROVE  Waiting(s, d) \/ Reached(s, g, d)
    BY DEF Passed
  <2>1. LastOf(g, d) \in Nat
    BY <1>0, LastIs
  <2>2. Quiet(h, g, d)
    BY <1>0, <1>1, <2>1
  <2> QED
    BY <2>2 DEF NodeFine, Passed, Quiet, Reached
<1>3. ASSUME NEW i \in 1..Len(box.changes)
      PROVE  Offered(g, cur, box.changes[i])
  <2> DEFINE c == box.changes[i]
  <2>1. Offered(h, cur, c) /\ c \in Changes
    BY <1>3 DEF NodeFine, BoxFine
  <2> HIDE DEF c
  <2>2. c.version \in Versions /\ c.doc \in Docs
    BY <2>1 DEF Changes
  <2>3. c.seq \in Entries(g, c.doc)
    BY <1>0, <2>1 DEF Offered, Extends, Entries
  <2>4. FromHub(g, c)
    <3>1. Known(h, c.doc, c.version)
      BY <2>1 DEF Offered, FromHub
    <3>2. /\ Known(g, c.doc, c.version)
          /\ c.version = CurrentVersion(g, c.doc) =>
               c.version = CurrentVersion(h, c.doc) /\ g.docs[c.doc] = h.docs[c.doc]
      BY <2>2, <3>1, MovesKnown
    <3> QED
      BY <2>1, <3>2 DEF Offered, FromHub
  <2>5. Offered(g, cur, c)
    BY <2>1, <2>3, <2>4 DEF Offered
  <2> QED
    BY <2>5 DEF c
<1>4. Complete(g, cur, box)
  <2> SUFFICES ASSUME NEW d \in Docs, Pulled(d), Entries(g, d) # {},
                      cur < LastOf(g, d), LastOf(g, d) <= box.cursor
               PROVE  \E i \in 1..Len(box.changes) :
                         /\ box.changes[i].doc = d
                         /\ box.changes[i].version = CurrentVersion(g, d)
    BY DEF Complete
  <2>1. LastOf(g, d) \in Nat
    BY <1>0, LastIs
  <2>2. Quiet(h, g, d)
    BY <1>0, <1>1, <2>1
  <2> QED
    BY <2>2 DEF NodeFine, BoxFine, Complete, Quiet
<1>5. BoxFine(g, cur, box)
  <2>1. cur \in 0..CurrentSeq(g) /\ box.cursor \in cur..CurrentSeq(g)
    BY <1>0
  <2> QED
    BY <1>3, <1>4, <2>1 DEF NodeFine, BoxFine
<1>6. cur \in Nat /\ cur <= CurrentSeq(h)
  BY <1>0
<1>7. AckFine(s, g, cur, ack)
  BY <1>6, ArrivedStays DEF NodeFine, AckFine
<1> QED
  BY <1>2, <1>5, <1>7 DEF NodeFine

-----------------------------------------------------------------------------
(* One change that a node pulled, ...                                       *)
LEMMA NodeApplies ==
    ASSUME NEW ts \in Nat, NEW h, HubFine(h, ts), NEW n \in Nodes, NEW t,
           Paired(n, t, h, ts), NEW c \in Changes, FromHub(h, c),
           NEW w \in Nat, Earlier(w, n, ts), NEW resolver
    PROVE  LET u == ApplyRemote(t, n, c, w, resolver)
           IN /\ Paired(n, u, h, ts) /\ Whole(u) /\ Extends(t, u)
              /\ \A d : d # c.doc => Quiet(t, u, d)
              /\ \/ Waiting(u, c.doc)
                 \/ Entries(u, c.doc) # {} /\ CurrentVersion(u, c.doc) = c.version
<1> DEFINE u == ApplyRemote(t, n, c, w, resolver)
<1> SUFFICES /\ Paired(n, u, h, ts) /\ Whole(u) /\ Extends(t, u)
             /\ \A d : d # c.doc => Quiet(t, u, d)
             /\ \/ Waiting(u, c.doc)
                \/ Entries(u, c.doc) # {} /\ CurrentVersion(u, c.doc) = c.version
  OBVIOUS
<1>1. Whole(t) /\ n \in Databases /\ c.doc \in Docs
  BY DEF Paired, Databases, Changes
<1>2. Accepts(t, u, c, resolver) \/ Echoes(t, u, c) \/ Insists(t, u, n, c, w)
  BY <1>1, ApplyRemoteIs
<1> HIDE DEF u
<1>3. CASE Accepts(t, u, c, resolver)
  <2> DEFINE e == [doc |-> c.doc, op |-> c.op, version |-> c.version,
                   source |-> "remote", pushed |-> TRUE]
  <2>1. Takes(t, u, c) /\ Adds(t, u, e) /\ e.doc = c.doc /\ e.version = c.version
    BY <1>3 DEF Accepts, Takes
  <2> HIDE DEF e
  <2>2. Whole(u)
    BY <2>1 DEF Adds
  <2> QED
    BY <2>1, <2>2, AddsOne, NodeTakes
<1>4. CASE Echoes(t, u, c)
  BY <1>1, <1>4 DEF Echoes, Extends, Quiet
<1>5. CASE Insists(t, u, n, c, w)
  <2>1. Records(t, u, n, c.doc, "upsert", w) /\ "upsert" \in Ops
    BY <1>5 DEF Insists, Ops
  <2> DEFINE e == [doc |-> c.doc, op |-> "upsert", version |-> <<w, n, t.vseq>>,
                   source |-> "local", pushed |-> FALSE]
  <2>2. Adds(t, u, e) /\ e.doc = c.doc /\ e.source = "local" /\ e.pushed = FALSE
    BY <2>1 DEF Records
  <2> HIDE DEF e
  <2>3. Whole(u)
    BY <2>2 DEF Adds
  <2>4. Waiting(u, c.doc)
    BY <2>2, AddsOne DEF Waiting, Unpushed
  <2> QED
    BY <1>1, <2>1, <2>2, <2>3, <2>4, AddsOne, NodeRecords
<1> QED
  BY <1>2, <1>3, <1>4, <1>5

(* ... and the first k of a batch: it has all of them, or its own waits.    *)
Batched(s, t, cs, k) ==
    /\ Whole(t) /\ Extends(s, t)
    /\ \A d : (\A i \in 1..k : cs[i].doc # d) => Quiet(s, t, d)
    /\ \A i \in 1..k : \/ Waiting(t, cs[i].doc)
                       \/ /\ Entries(t, cs[i].doc) # {}
                          /\ CurrentVersion(t, cs[i].doc) = cs[i].version

LEMMA NodeAppliesAll ==
    ASSUME NEW ts \in Nat, NEW h, HubFine(h, ts), NEW n \in Nodes, NEW s,
           Paired(n, s, h, ts), NEW cs \in Seq(Changes), Distinct(cs),
           \A i \in 1..Len(cs) : FromHub(h, cs[i]),
           NEW w \in Nat, Earlier(w, n, ts), NEW resolver
    PROVE  LET t == ApplyAll(s, n, cs, w, resolver)
           IN Paired(n, t, h, ts) /\ Batched(s, t, cs, Len(cs))
<1> DEFINE R == {p \in Nat \X Stores : /\ Paired(n, p[2], h, ts)
                                       /\ Batched(s, p[2], cs, p[1])}
<1>1. s \in Stores /\ n \in Databases /\ Whole(s)
  BY DEF Paired, Whole, Databases
<1>2. <<0, s>> \in R
  <2>1. Batched(s, s, cs, 0)
    BY <1>1 DEF Batched, Extends, Quiet
  <2> QED
    BY <1>1, <2>1
<1>3. ASSUME NEW k \in 1..Len(cs), NEW t \in Stores, <<k - 1, t>> \in R
      PROVE  <<k, ApplyRemote(t, n, cs[k], w, resolver)>> \in R
  <2> DEFINE u == ApplyRemote(t, n, cs[k], w, resolver)
             c == cs[k]
  <2>1. Len(cs) \in Nat /\ k \in Nat /\ \A i \in 1..k : i = k \/ i \in 1..(k - 1)
    BY LenProperties
  <2>2. \A i \in 1..(k - 1) : i # k /\ i \in 1..k /\ i \in 1..Len(cs)
    BY <2>1
  <2>3. Paired(n, t, h, ts) /\ Batched(s, t, cs, k - 1)
    BY <1>3
  <2>4. c \in Changes /\ FromHub(h, c)
    BY ElementOfSeq
  <2> HIDE DEF c
  <2>5. /\ Paired(n, ApplyRemote(t, n, c, w, resolver), h, ts)
        /\ Whole(ApplyRemote(t, n, c, w, resolver))
        /\ Extends(t, ApplyRemote(t, n, c, w, resolver))
        /\ \A d : d # c.doc => Quiet(t, ApplyRemote(t, n, c, w, resolver), d)
        /\ \/ Waiting(ApplyRemote(t, n, c, w, resolver), c.doc)
           \/ /\ Entries(ApplyRemote(t, n, c, w, resolver), c.doc) # {}
              /\ CurrentVersion(ApplyRemote(t, n, c, w, resolver), c.doc) = c.version
    BY <2>3, <2>4, NodeApplies
  <2>6. /\ Paired(n, u, h, ts) /\ Whole(u) /\ Extends(t, u)
        /\ \A d : d # c.doc => Quiet(t, u, d)
        /\ \/ Waiting(u, c.doc)
           \/ Entries(u, c.doc) # {} /\ CurrentVersion(u, c.doc) = c.version
    BY <2>5 DEF c
  <2> HIDE DEF u
  <2>7. Extends(s, u) /\ Whole(t)
    BY <2>3, <2>6 DEF Extends, Batched
  <2>8. ASSUME NEW d, \A i \in 1..k : cs[i].doc # d
        PROVE  Quiet(s, u, d)
    <3>1. k \in 1..k
      BY <2>1
    <3>2. Quiet(s, t, d)
      BY <2>2, <2>3, <2>8 DEF Batched
    <3>3. Quiet(t, u, d)
      BY <2>6, <2>8, <3>1 DEF c
    <3> QED
      BY <3>2, <3>3 DEF Quiet
  <2>9. ASSUME NEW i \in 1..k
        PROVE  \/ Waiting(u, cs[i].doc)
               \/ /\ Entries(u, cs[i].doc) # {}
                  /\ CurrentVersion(u, cs[i].doc) = cs[i].version
    <3>1. CASE i = k
      BY <2>6, <3>1 DEF c
    <3>2. CASE i # k
      <4>1. i \in 1..(k - 1) /\ i \in 1..Len(cs)
        BY <2>1, <2>2, <3>2
      <4>2. cs[i].doc # c.doc
        BY <3>2, <4>1 DEF Distinct, c
      <4>3. Quiet(t, u, cs[i].doc)
        BY <2>6, <4>2
      <4>4. Waiting(u, cs[i].doc) <=> Waiting(t, cs[i].doc)
        BY <2>6, <2>7, <4>3, QuietWaits
      <4> QED
        BY <2>3, <4>1, <4>3, <4>4 DEF Batched, Quiet
    <3> QED
      BY <3>1, <3>2
  <2>10. Batched(s, u, cs, k)
    BY <2>6, <2>7, <2>8, <2>9 DEF Batched
  <2>11. u \in Stores
    BY <2>6 DEF Whole
  <2>12. <<k, u>> \in R
    BY <2>1, <2>6, <2>10, <2>11
  <2> QED
    BY <2>12 DEF u
<1> HIDE DEF R
<1>4. <<Len(cs), ApplyAll(s, n, cs, w, resolver)>> \in R
  BY <1>1, <1>2, <1>3, ApplyAllReaches
<1> QED
  BY <1>4 DEF R

-----------------------------------------------------------------------------
(* What the hub makes of a change that node m pushes.                       *)
AllPaired(st, h, ts) == \A n \in Nodes : Paired(n, st[n], h, ts)

LEMMA HubApplies ==
    ASSUME NEW ts \in Nat, NEW h, HubFine(h, ts), NEW st, AllPaired(st, h, ts),
           NEW m \in Nodes, NEW c \in Changes, ToPush(st[m], c)
    PROVE  LET g == ApplyRemote(h, Hub, c, ts, "lww")
           IN /\ HubFine(g, ts) /\ Moves(h, g) /\ AllPaired(st, g, ts)
              /\ Entries(g, c.doc) # {}
              /\ LastOf(g, c.doc) > CurrentSeq(h) \/ CurrentVersion(g, c.doc) = c.version
<1> DEFINE g == ApplyRemote(h, Hub, c, ts, "lww")
<1> SUFFICES /\ HubFine(g, ts) /\ Moves(h, g) /\ AllPaired(st, g, ts)
             /\ Entries(g, c.doc) # {}
             /\ LastOf(g, c.doc) > CurrentSeq(h) \/ CurrentVersion(g, c.doc) = c.version
  OBVIOUS
<1>1. Whole(h) /\ Hub \in Databases /\ c.doc \in Docs /\ Paired(m, st[m], h, ts)
  BY DEF HubFine, Databases, Changes, AllPaired
<1>2. Accepts(h, g, c, "lww") \/ Echoes(h, g, c) \/ Insists(h, g, Hub, c, ts)
  BY <1>1, ApplyRemoteIs
<1> HIDE DEF g
<1>3. CASE Accepts(h, g, c, "lww")
  <2> DEFINE e == [doc |-> c.doc, op |-> c.op, version |-> c.version,
                   source |-> "remote", pushed |-> TRUE]
  <2>1. Adds(h, g, e) /\ e.doc = c.doc /\ e.version = c.version
    BY <1>3 DEF Accepts, Takes
  <2> HIDE DEF e
  <2>2. HubFine(g, ts) /\ Moves(h, g) /\ Paired(m, st[m], g, ts)
        /\ \A n \in Nodes \ {m} : \A s : Paired(n, s, h, ts) => Paired(n, s, g, ts)
    BY <1>1, <1>3, HubTakes
  <2>3. AllPaired(st, g, ts)
    BY <2>2 DEF AllPaired
  <2> QED
    BY <2>1, <2>2, <2>3, AddsOne
<1>4. CASE Echoes(h, g, c)
  BY <1>1, <1>4, MovesSelf DEF Echoes
<1>5. CASE Insists(h, g, Hub, c, ts)
  <2>1. Records(h, g, Hub, c.doc, "upsert", ts) /\ "upsert" \in Ops
    BY <1>5 DEF Insists, Ops
  <2> DEFINE e == [doc |-> c.doc, op |-> "upsert", version |-> <<ts, Hub, h.vseq>>,
                   source |-> "local", pushed |-> FALSE]
  <2>2. Adds(h, g, e) /\ e.doc = c.doc
    BY <2>1 DEF Records
  <2> HIDE DEF e
  <2>3. HubFine(g, ts) /\ Moves(h, g)
        /\ \A n \in Nodes : \A s : Paired(n, s, h, ts) => Paired(n, s, g, ts)
    BY <1>1, <2>1, HubRecords
  <2>4. AllPaired(st, g, ts)
    BY <2>3 DEF AllPaired
  <2>5. /\ Entries(g, c.doc) # {} /\ LastOf(g, c.doc) = CurrentSeq(g)
        /\ CurrentSeq(g) = CurrentSeq(h) + 1 /\ CurrentSeq(h) \in Nat
    BY <2>2, AddsOne
  <2>6. LastOf(g, c.doc) > CurrentSeq(h)
    BY <2>5
  <2> QED
    BY <2>3, <2>4, <2>5, <2>6
<1> QED
  BY <1>2, <1>3, <1>4, <1>5

(* A hub h that has become g, and has taken in the first k changes. *)
Ingested(h, g, st, ts, cur, cs, k) ==
    /\ HubFine(g, ts) /\ Moves(h, g) /\ AllPaired(st, g, ts)
    /\ \A i \in 1..k : Arrived(g, cur, cs[i])

LEMMA HubAppliesAll ==
    ASSUME NEW ts \in Nat, NEW h, HubFine(h, ts), NEW st, AllPaired(st, h, ts),
           NEW m \in Nodes, NEW cs \in Seq(Changes), OutFine(st[m], cs),
           NEW cur \in 0..CurrentSeq(h)
    PROVE  Ingested(h, ApplyAll(h, Hub, cs, ts, "lww"), st, ts, cur, cs, Len(cs))
<1> DEFINE R == {p \in Nat \X Stores : Ingested(h, p[2], st, ts, cur, cs, p[1])}
<1>1. /\ h \in Stores /\ Hub \in Databases /\ Whole(h) /\ CurrentSeq(h) \in Nat
      /\ cur \in Nat /\ cur <= CurrentSeq(h)
  <2>1. Whole(h) /\ h \in Stores /\ Hub \in Databases
    BY DEF HubFine, Whole, Databases
  <2>2. CurrentSeq(h) \in Nat
    BY <2>1, FeedIs
  <2> QED
    BY <2>1, <2>2
<1>2. <<0, h>> \in R
  BY <1>1, MovesSelf DEF Ingested
<1>3. ASSUME NEW k \in 1..Len(cs), NEW t \in Stores, <<k - 1, t>> \in R
      PROVE  <<k, ApplyRemote(t, Hub, cs[k], ts, "lww")>> \in R
  <2> DEFINE u == ApplyRemote(t, Hub, cs[k], ts, "lww")
             c == cs[k]
  <2>1. Len(cs) \in Nat /\ k \in Nat /\ \A i \in 1..k : i = k \/ i \in 1..(k - 1)
    BY LenProperties
  <2>2. Ingested(h, t, st, ts, cur, cs, k - 1)
    BY <1>3
  <2>3. c \in Changes /\ ToPush(st[m], c)
    BY ElementOfSeq DEF OutFine
  <2> HIDE DEF c
  <2>4. LET g == ApplyRemote(t, Hub, c, ts, "lww")
        IN /\ HubFine(g, ts) /\ Moves(t, g) /\ AllPaired(st, g, ts)
           /\ Entries(g, c.doc) # {}
           /\ LastOf(g, c.doc) > CurrentSeq(t) \/ CurrentVersion(g, c.doc) = c.version
    BY <2>2, <2>3, HubApplies DEF Ingested
  <2>5. /\ HubFine(u, ts) /\ Moves(t, u) /\ AllPaired(st, u, ts)
        /\ Entries(u, c.doc) # {}
        /\ LastOf(u, c.doc) > CurrentSeq(t) \/ CurrentVersion(u, c.doc) = c.version
    BY <2>4 DEF c
  <2> HIDE DEF u
  <2>6. Moves(h, t) /\ Moves(h, u)
    BY <2>2, <2>5, MovesOn DEF Ingested
  <2>7. Whole(t) /\ Whole(u) /\ CurrentSeq(t) \in Nat /\ cur <= CurrentSeq(t)
    <3>1. Whole(t) /\ Whole(u) /\ CurrentSeq(h) <= CurrentSeq(t)
      BY <2>5, <2>6 DEF Moves
    <3>2. CurrentSeq(t) \in Nat
      BY <3>1, FeedIs
    <3> QED
      BY <1>1, <3>1, <3>2
  <2>8. Arrived(u, cur, c)
    <3>1. LastOf(u, c.doc) \in Nat
      BY <2>5, <2>7, LastIs
    <3> QED
      BY <1>1, <2>5, <2>7, <3>1 DEF Arrived
  <2>9. ASSUME NEW i \in 1..k PROVE Arrived(u, cur, cs[i])
    <3>1. CASE i = k
      BY <2>8, <3>1 DEF c
    <3>2. CASE i # k
      <4>1. i \in 1..(k - 1) /\ i \in 1..Len(cs)
        BY <2>1, <3>2
      <4>2. cs[i] \in Changes
        BY <4>1, ElementOfSeq
      <4>3. cs[i].doc \in Docs
        BY <4>2 DEF Changes
      <4> QED
        BY <1>1, <2>2, <2>5, <2>7, <4>1, <4>3, ArrivedStays DEF Ingested
    <3> QED
      BY <3>1, <3>2
  <2>10. Ingested(h, u, st, ts, cur, cs, k) /\ u \in Stores
    BY <2>5, <2>6, <2>7, <2>9 DEF Ingested, Whole
  <2>11. <<k, u>> \in R
    BY <2>1, <2>10
  <2> QED
    BY <2>11 DEF u
<1> HIDE DEF R
<1>4. <<Len(cs), ApplyAll(h, Hub, cs, ts, "lww")>> \in R
  BY <1>1, <1>2, <1>3, ApplyAllReaches
<1> QED
  BY <1>4 DEF R

-----------------------------------------------------------------------------
(* A part of a batch, or all of it, and the cursor that it may then have.   *)
LEMMA BatchPasses ==
    ASSUME NEW s, NEW h, NEW cur, NEW box, NEW k, Whole(s), Whole(h),
           Passed(s, h, cur), BoxFine(h, cur, box),
           NEW t, Batched(s, t, box.changes, k), k \in 0..Len(box.changes),
           Len(box.changes) \in Nat
    PROVE  /\ Passed(t, h, cur)
           /\ k = Len(box.changes) => Passed(t, h, box.cursor)
<1> DEFINE cs == box.changes
<1>0. /\ Whole(t) /\ Extends(s, t) /\ CurrentSeq(h) \in Nat
      /\ cur \in Nat /\ box.cursor \in Nat
      /\ \A i \in 1..k : i \in 1..Len(cs)
  <2>1. CurrentSeq(h) \in Nat /\ cur \in 0..CurrentSeq(h) /\ box.cursor \in cur..CurrentSeq(h)
    BY FeedIs DEF BoxFine
  <2>2. \A i \in 1..k : i \in 1..Len(cs)
    OBVIOUS
  <2> QED
    BY <2>1, <2>2 DEF Batched
<1>1. ASSUME NEW d \in Docs, Pulled(d), Entries(h, d) # {}, LastOf(h, d) <= cur
      PROVE  Waiting(t, d) \/ Reached(t, h, d)
  <2>1. ASSUME NEW i \in 1..k
        PROVE  cs[i].doc # d
    <3>1. Offered(h, cur, cs[i])
      BY <1>0 DEF BoxFine
    <3> SUFFICES ASSUME cs[i].doc = d PROVE FALSE
      OBVIOUS
    <3> DEFINE q == cs[i].seq
               l == LastOf(h, d)
    <3>2. q \in Entries(h, d) /\ cur < q /\ Entries(h, d) \subseteq Seqs(h)
      BY <3>1, LastIs DEF Offered
    <3>3. q <= l /\ l \in Nat /\ q \in Nat /\ l <= cur
      BY <1>1, <3>2, LastIs, FeedIs
    <3> HIDE DEF q, l
    <3> QED
      BY <1>0, <3>2, <3>3
  <2>2. Quiet(s, t, d)
    BY <2>1 DEF Batched
  <2>3. Waiting(t, d) <=> Waiting(s, d)
    BY <1>0, <2>2, QuietWaits
  <2> QED
    BY <1>1, <2>2, <2>3 DEF Passed, Reached, Quiet
<1>2. ASSUME k = Len(cs), NEW d \in Docs, Pulled(d), Entries(h, d) # {},
             LastOf(h, d) <= box.cursor, ~(LastOf(h, d) <= cur)
      PROVE  Waiting(t, d) \/ Reached(t, h, d)
  <2>1. cur < LastOf(h, d)
    BY <1>0, <1>2, LastIs
  <2>2. PICK i \in 1..Len(cs) : cs[i].doc = d /\ cs[i].version = CurrentVersion(h, d)
    BY <1>2, <2>1 DEF BoxFine, Complete
  <2> QED
    BY <1>2, <2>2 DEF Batched, Reached
<1> QED
  BY <1>1, <1>2 DEF Passed

LEMMA EmptyBoxFine ==
    ASSUME NEW h, Whole(h), NEW cur \in 0..CurrentSeq(h)
    PROVE  BoxFine(h, cur, [changes |-> << >>, cursor |-> cur])
<1> DEFINE box == [changes |-> << >>, cursor |-> cur]
<1>1. box.changes = << >> /\ Len(<< >>) = 0 /\ box.cursor = cur
  BY EmptySeq
<1>2. CurrentSeq(h) \in Nat /\ cur \in Nat /\ \A i : ~(i \in 1..0)
  BY FeedIs
<1> HIDE DEF box
<1>3. Complete(h, cur, box)
  <2> SUFFICES ASSUME NEW d \in Docs, Entries(h, d) # {}, cur < LastOf(h, d),
                      LastOf(h, d) <= box.cursor
               PROVE  FALSE
    BY DEF Complete
  <2> QED
    BY <1>1, <1>2, LastIs
<1>4. BoxFine(h, cur, box)
  BY <1>1, <1>2, <1>3 DEF BoxFine, Distinct
<1> QED
  BY <1>4 DEF box

LEMMA NothingSent ==
    /\ \A s : OutFine(s, << >>)
    /\ \A s, h, cur : AckFine(s, h, cur, << >>)
<1>1. Len(<< >>) = 0 /\ \A i : ~(i \in 1..0)
  BY EmptySeq
<1> QED
  BY <1>1 DEF OutFine, AckFine

-----------------------------------------------------------------------------
LEMMA MarksQuiet ==
    ASSUME NEW s, NEW t, NEW cs, Marks(s, t, cs), NEW d
    PROVE  Quiet(s, t, d)
<1>1. Entries(t, d) = Entries(s, d) /\ LastOf(t, d) = LastOf(s, d) /\ Whole(s) /\ Whole(t)
  <2>1. Entries(t, d) = Entries(s, d) /\ Whole(s) /\ Whole(t)
    BY DEF Marks, Entries
  <2> QED
    BY <2>1 DEF LastOf
<1>2. CASE Entries(s, d) = {}
  BY <1>1, <1>2 DEF Quiet, CurrentVersion
<1>3. CASE Entries(s, d) # {}
  <2>1. /\ LastOf(s, d) \in Seqs(s) /\ CurrentVersion(s, d) = Entry(s, LastOf(s, d)).version
        /\ CurrentVersion(t, d) = Entry(t, LastOf(t, d)).version
    BY <1>1, <1>3, LastIs
  <2> QED
    BY <1>1, <2>1 DEF Quiet, Marks
<1> QED
  BY <1>2, <1>3

LEMMA MarksPaired ==
    ASSUME NEW n, NEW s, NEW t, NEW h, NEW ts, NEW cs, Marks(s, t, cs), Paired(n, s, h, ts)
    PROVE  Paired(n, t, h, ts)
<1>0. /\ Whole(s) /\ Whole(t) /\ Seqs(t) = Seqs(s)
      /\ t.docs = s.docs /\ t.vseq = s.vseq /\ t.colls = s.colls
      /\ \A d : Quiet(s, t, d)
  BY MarksQuiet DEF Marks
<1>1. \A q \in Seqs(s) : /\ Entry(t, q).doc = Entry(s, q).doc
                         /\ Entry(t, q).op = Entry(s, q).op
                         /\ Entry(t, q).version = Entry(s, q).version
                         /\ Entry(t, q).source = Entry(s, q).source
  BY DEF Marks
<1>2. DeletesGone(t)
  <2> SUFFICES ASSUME NEW d \in Docs, Entries(t, d) # {},
                      Entry(t, LastOf(t, d)).op = "delete"
               PROVE  ~t.docs[d].live
    BY DEF DeletesGone
  <2>1. Entries(s, d) # {} /\ LastOf(t, d) = LastOf(s, d) /\ LastOf(s, d) \in Seqs(s)
    BY <1>0, LastIs DEF Quiet
  <2> QED
    BY <1>0, <1>1, <2>1 DEF DeletesGone, Paired
<1>3. Behind(t, Frontier(h, ts)) /\ RemotesKnown(t, h)
  BY <1>0, <1>1 DEF Behind, RemotesKnown, Paired
<1>4. Own(t) = Own(s) /\ \A q \in Own(s) : Entry(t, q).version = Entry(s, q).version
  BY <1>0, <1>1 DEF Own
<1>5. Counters(n, t) /\ Resumes(t) /\ OwnCounted(n, t, h)
  BY <1>0, <1>4 DEF Counters, Resumes, OwnCounted, Paired
<1>6. Agree(t, h)
  BY <1>0 DEF Agree, Quiet, Paired
<1> QED
  BY <1>0, <1>2, <1>3, <1>5, <1>6 DEF Paired, AllOpen

LEMMA MarksFine ==
    ASSUME NEW n, NEW s, NEW t, NEW h, NEW ts, NEW cur, NEW box, NEW out, NEW ack,
           NodeFine(n, s, h, ts, cur, box, out, ack), HubFine(h, ts), Marks(s, t, ack),
           DOMAIN ack = 1..Len(ack)
    PROVE  NodeFine(n, t, h, ts, cur, box, out, << >>)
<1>0. /\ Whole(s) /\ Whole(t) /\ Whole(h) /\ Seqs(t) = Seqs(s) /\ t.docs = s.docs
      /\ \A d : Quiet(s, t, d)
      /\ \A q \in Seqs(s) : /\ Entry(t, q).version = Entry(s, q).version
                            /\ Entry(t, q).source = Entry(s, q).source
  BY MarksQuiet DEF Marks, HubFine
<1>1. cur \in Nat
  <2>1. CurrentSeq(h) \in Nat /\ cur \in 0..CurrentSeq(h)
    BY <1>0, FeedIs DEF NodeFine, BoxFine
  <2> QED
    BY <2>1
<1>2. Passed(t, h, cur)
  <2> SUFFICES ASSUME NEW d \in Docs, Pulled(d), Entries(h, d) # {}, LastOf(h, d) <= cur
               PROVE  Waiting(t, d) \/ Reached(t, h, d)
    BY DEF Passed
  <2>1. CASE Reached(s, h, d)
    BY <1>0, <2>1 DEF Reached, Quiet
  <2>2. CASE Waiting(s, d)
    <3> DEFINE l == LastOf(s, d)
    <3>1. /\ l \in Entries(s, d) /\ l \in Seqs(s) /\ l \in Nat /\ Entry(s, l).doc = d
          /\ Entry(s, l).source = "local" /\ Entry(s, l).pushed = FALSE
          /\ CurrentVersion(s, d) = Entry(s, l).version
          /\ \A q \in Entries(s, d) : q <= l
      <4>1. /\ l \in Entries(s, d) /\ l \in Seqs(s) /\ l \in Nat
            /\ CurrentVersion(s, d) = Entry(s, l).version
            /\ \A q \in Entries(s, d) : q <= l
        BY <1>0, <2>2, LastIs DEF Waiting
      <4>2. Entry(s, l).pushed \in BOOLEAN
        BY <1>0, <4>1, FeedIs DEF FeedEntries
      <4> QED
        BY <2>2, <4>1, <4>2 DEF Waiting, Unpushed, Entries
    <3>2. Entries(t, d) # {} /\ LastOf(t, d) = l /\ CurrentVersion(t, d) = CurrentVersion(s, d)
      BY <1>0, <2>2 DEF Quiet, Waiting
    <3> HIDE DEF l
    <3>3. CASE Entry(t, l).pushed = Entry(s, l).pushed
      BY <1>0, <3>1, <3>2, <3>3 DEF Waiting, Unpushed
    <3>4. CASE Entry(t, l).pushed # Entry(s, l).pushed
      <4>1. PICK k \in 1..Len(ack) : ack[k].doc = d /\ l <= ack[k].seq
        BY <3>1, <3>4 DEF Marks
      <4> DEFINE c == ack[k]
      <4>2. Stands(s, c) /\ Arrived(h, cur, c) /\ c.doc = d /\ l <= c.seq
        BY <4>1 DEF NodeFine, AckFine
      <4> HIDE DEF c
      <4>3. c.seq <= l /\ c.seq \in Nat
        BY <1>0, <3>1, <4>2, FeedIs DEF Stands, Entries
      <4>4. c.seq = l
        BY <3>1, <4>2, <4>3
      <4>5. CurrentVersion(t, d) = c.version
        BY <3>1, <3>2, <4>2, <4>4 DEF Stands
      <4>6. LastOf(h, d) \in Nat
        BY <1>0, LastIs
      <4>7. CurrentVersion(h, d) = c.version
        BY <1>1, <4>2, <4>6 DEF Arrived
      <4> QED
        BY <3>2, <4>5, <4>7 DEF Reached
    <3> QED
      BY <3>3, <3>4
  <2> QED
    BY <2>1, <2>2 DEF NodeFine, Passed
<1>3. OutFine(t, out)
  BY <1>0 DEF NodeFine, OutFine, ToPush, Stands, Quiet, Entries
<1> QED
  BY <1>2, <1>3, MarksPaired, NothingSent DEF NodeFine

-----------------------------------------------------------------------------
(* A database whose feed is the same. *)
LEMMA FeedAlone ==
    ASSUME NEW s, Whole(s), NEW t \in Stores, t.feed = s.feed, t.base = s.base,
           t.docs = s.docs, t.vseq = s.vseq, s.colls \subseteq t.colls
    PROVE  /\ Wrote(s, t)
           /\ \A n, h, ts : Paired(n, s, h, ts) => Paired(n, t, h, ts)
<1>1. /\ Whole(t) /\ Seqs(t) = Seqs(s) /\ Own(t) = Own(s)
      /\ \A q : Entry(t, q) = Entry(s, q)
      /\ \A d : Quiet(s, t, d) /\ Extends(s, t)
  <2>1. Whole(t) /\ Seqs(t) = Seqs(s) /\ \A q : Entry(t, q) = Entry(s, q)
    BY DEF Whole, Seqs, Entry
  <2>2. \A d : Entries(t, d) = Entries(s, d)
    BY <2>1 DEF Entries
  <2>3. \A d : LastOf(t, d) = LastOf(s, d)
    BY <2>2 DEF LastOf
  <2>4. \A d : CurrentVersion(t, d) = CurrentVersion(s, d)
    BY <2>1, <2>2 DEF CurrentVersion
  <2> QED
    BY <2>1, <2>2, <2>3, <2>4 DEF Own, Quiet, Extends
<1>2. CurrentSeq(s) = CurrentSeq(t) /\ CurrentSeq(s) \in Nat
  BY <1>1, FeedIs
<1>3. Wrote(s, t)
  BY <1>1, <1>2 DEF Wrote
<1>4. ASSUME NEW n, NEW h, NEW ts, Paired(n, s, h, ts)
      PROVE  Paired(n, t, h, ts)
  <2>1. DeletesGone(t) /\ Agree(t, h)
    BY <1>1, <1>4 DEF DeletesGone, Agree, Quiet, Paired
  <2>2. Behind(t, Frontier(h, ts)) /\ RemotesKnown(t, h)
    BY <1>1, <1>4 DEF Behind, RemotesKnown, Paired
  <2>3. Counters(n, t) /\ Resumes(t) /\ OwnCounted(n, t, h)
    BY <1>1, <1>4 DEF Counters, Resumes, OwnCounted, Paired
  <2> QED
    BY <1>1, <1>4, <2>1, <2>2, <2>3 DEF Paired, AllOpen
<1> QED
  BY <1>3, <1>4

LEMMA NodeSeeds ==
    ASSUME NEW ts \in Nat, NEW h, HubFine(h, ts), NEW n \in Nodes, NEW s,
           Paired(n, s, h, ts), Earlier(0, n, ts), NEW colls
    PROVE  Wrote(s, Seed(s, n, colls)) /\ Paired(n, Seed(s, n, colls), h, ts)
<1> DEFINE R == {t \in Stores : Wrote(s, t) /\ Paired(n, t, h, ts)}
<1>1. s \in R /\ s \in Stores /\ n \in Databases
  BY WroteSelf DEF Paired, Whole, Databases
<1>2. ASSUME NEW d \in Docs, NEW t \in Stores, t \in R
      PROVE  RecordLocal(t, n, d, "upsert", 0) \in R
  <2> DEFINE u == RecordLocal(t, n, d, "upsert", 0)
  <2>1. Wrote(s, t) /\ Paired(n, t, h, ts) /\ Whole(t) /\ "upsert" \in Ops
    BY <1>2 DEF Paired, Ops
  <2>2. Records(t, u, n, d, "upsert", 0)
    BY <1>1, <2>1, RecordLocalIs
  <2> HIDE DEF u
  <2>3. Paired(n, u, h, ts) /\ Wrote(t, u)
    BY <2>1, <2>2, NodeRecords, RecordsWrote
  <2>4. u \in R
    BY <2>1, <2>3, WroteOn DEF Paired, Whole
  <2> QED
    BY <2>4 DEF u
<1> HIDE DEF R
<1>3. Seed(s, n, colls) \in R
  BY <1>1, <1>2, SeedReaches
<1> QED
  BY <1>3 DEF R

(* Time passes. *)
LEMMA LaterFine ==
    ASSUME NEW h, NEW ts \in Nat, HubFine(h, ts)
    PROVE  /\ HubFine(h, ts + 1)
           /\ \A n, s : Paired(n, s, h, ts) => Paired(n, s, h, ts + 1)
<1>1. Whole(h) /\ ts + 1 \in Nat /\ Hub \in Nat /\ h.vseq \in Nat
  BY FeedIs, Numbered DEF HubFine
<1> DEFINE f == Frontier(h, ts)
           g == Frontier(h, ts + 1)
<1>2. f \in Versions /\ g \in Versions /\ f[1] = ts /\ g[1] = ts + 1
  BY <1>1, FrontierIs
<1> HIDE DEF f, g
<1>3. AtMost(f, g)
  BY <1>2, NewerIs DEF AtMost
<1>4. \A s : Whole(s) /\ Behind(s, f) => Behind(s, g)
  BY <1>2, <1>3, FrontierAdvances
<1> QED
  BY <1>1, <1>4 DEF HubFine, Paired, f, g

-----------------------------------------------------------------------------
(* The hub's clock is never behind that of a node, and ids order a tie, as  *)
(* versions do.  A hub that is behind may give its own write a version that *)
(* is older than one it has acknowledged.                                   *)
HubLeads ==
    \A n \in Nodes : Skew[n] < Skew[Hub] \/ (Skew[n] = Skew[Hub] /\ n < Hub)

(* Which collections a node replicates does not change: its engine names    *)
(* them, or they were all there from the start.                             *)
CollectionsFixed == Explicit # {} \/ \A n \in Nodes : StartColls[n] = Collections

(* What holds of the hub and, for each node, of its store, its cursor and   *)
(* the batches that it has pulled, sent or seen acknowledged.               *)
Converging ==
    /\ HubFine(hub, Clock(Hub))
    /\ \A n \in Nodes : NodeFine(n, store[n], hub, Clock(Hub), cursor[n], inbox[n],
                                 outbox[n], acked[n])

CInv == Typed /\ Converging

LEMMA ConvergingMeansEqual == CInv => CaughtUpMeansEqual
<1> SUFFICES ASSUME CInv, NEW n \in Nodes, NEW d \in Docs, CollOf[d] \in Colls(n),
                    Entries(hub, d) # {}, Max(Entries(hub, d)) <= cursor[n],
                    Unpushed(store[n]) \cap Entries(store[n], d) = {}
             PROVE  Same(store[n], hub, d)
  BY DEF CaughtUpMeansEqual
<1>1. /\ Paired(n, store[n], hub, Clock(Hub)) /\ Passed(store[n], hub, cursor[n])
      /\ Whole(store[n])
  BY DEF CInv, Converging, NodeFine, Paired
<1>2. Pulled(d)
  BY DEF Pulled, Colls
<1>3. Waiting(store[n], d) \/ Reached(store[n], hub, d)
  BY <1>1, <1>2 DEF Passed, LastOf
<1>4. ~Waiting(store[n], d)
  BY <1>1, LastIs DEF Waiting
<1>5. SameState(store[n].docs[d], hub.docs[d])
  BY <1>1, <1>3, <1>4 DEF Reached, Paired, Agree
<1> QED
  BY <1>5 DEF SameState, Same

-----------------------------------------------------------------------------
LEMMA EmptyIs ==
    ASSUME NEW s, Whole(s), Len(s.feed) = 0
    PROVE  /\ Seqs(s) = {} /\ CurrentSeq(s) = 0 /\ Own(s) = {}
           /\ \A d : Entries(s, d) = {}
<1>1. Seqs(s) = 1..0 /\ CurrentSeq(s) = 0
  BY FeedIs
<1>2. Seqs(s) = {}
  BY <1>1
<1> QED
  BY <1>1, <1>2 DEF Own, Entries

LEMMA ConvergesInit == CollectionsFixed /\ Init => Converging
<1> SUFFICES ASSUME CollectionsFixed, Init PROVE Converging
  OBVIOUS
<1>1. Typed /\ Clock(Hub) \in Nat
  BY InitHolds, TypedNow, ClockTicks DEF HInv, Typed, Databases
<1>2. /\ hub.feed = << >> /\ hub.base = 0 /\ Whole(hub) /\ Len(hub.feed) = 0
  BY <1>1, EmptySeq DEF Init, NewStore, Typed, Whole
<1>3. HubFine(hub, Clock(Hub)) /\ CurrentSeq(hub) = 0
  BY <1>2, EmptyIs DEF HubFine, Behind, DeletesGone
<1>4. ASSUME NEW n \in Nodes
      PROVE  NodeFine(n, store[n], hub, Clock(Hub), cursor[n], inbox[n],
                      outbox[n], acked[n])
  <2> DEFINE s == store[n]
  <2>1. /\ s = NewStore(Born(n), StartColls[n] \cup {CollOf[d] : d \in PreDocs[n]})
        /\ cursor[n] = 0 /\ outbox[n] = << >> /\ acked[n] = << >>
        /\ inbox[n] = [changes |-> << >>, cursor |-> 0]
    BY DEF Init, EngineInit
  <2>2. /\ s.feed = << >> /\ s.base = 0 /\ s.vseq = 0
        /\ StartColls[n] \subseteq s.colls /\ s \in Stores
    <3>1. s \in Stores
      BY <1>1 DEF Typed, EngineTyped
    <3> HIDE DEF s
    <3> QED
      BY <2>1, <3>1 DEF NewStore
  <2> HIDE DEF s
  <2>3. Whole(s) /\ Len(s.feed) = 0
    BY <2>2, EmptySeq DEF Whole
  <2>4. Seqs(s) = {} /\ Own(s) = {} /\ \A d : Entries(s, d) = {}
    BY <2>3, EmptyIs
  <2>5. Seqs(hub) = {} /\ \A d : Entries(hub, d) = {}
    BY <1>2, EmptyIs
  <2>6. AllOpen(s)
    BY <2>2 DEF AllOpen, CollectionsFixed
  <2>7. DeletesGone(s) /\ Behind(s, Frontier(hub, Clock(Hub)))
    BY <2>4 DEF DeletesGone, Behind
  <2>8. Counters(n, s) /\ Resumes(s) /\ OwnCounted(n, s, hub)
    BY <2>2, <2>4, <2>5 DEF Counters, Resumes, OwnCounted
  <2>9. RemotesKnown(s, hub) /\ Agree(s, hub) /\ Passed(s, hub, 0)
    BY <2>4, <2>5 DEF RemotesKnown, Agree, Passed
  <2>10. BoxFine(hub, 0, [changes |-> << >>, cursor |-> 0])
    BY <1>2, <1>3, EmptyBoxFine
  <2> QED
    BY <2>1, <2>3, <2>6, <2>7, <2>8, <2>9, <2>10, NothingSent
       DEF NodeFine, Paired, s
<1> QED
  BY <1>3, <1>4 DEF Converging

-----------------------------------------------------------------------------
(* A step of node n. *)
OnlyOf(n) ==
    /\ UNCHANGED <<hub, now>>
    /\ \A m \in Nodes \ {n} :
         /\ store'[m] = store[m] /\ cursor'[m] = cursor[m] /\ inbox'[m] = inbox[m]
         /\ outbox'[m] = outbox[m] /\ acked'[m] = acked[m]

LEMMA OneNode ==
    ASSUME Converging, NEW n \in Nodes, OnlyOf(n),
           NodeFine(n, store'[n], hub, Clock(Hub), cursor'[n], inbox'[n],
                    outbox'[n], acked'[n])
    PROVE  Converging'
<1>1. hub' = hub /\ Clock(Hub)' = Clock(Hub)
  BY DEF OnlyOf, Clock
<1>2. ASSUME NEW m \in Nodes
      PROVE  NodeFine(m, store'[m], hub, Clock(Hub), cursor'[m], inbox'[m],
                      outbox'[m], acked'[m])
  <2>1. CASE m = n
    BY <2>1
  <2>2. CASE m # n
    BY <2>2 DEF OnlyOf, Converging
  <2> QED
    BY <2>1, <2>2
<1> QED
  BY <1>1, <1>2 DEF Converging

(* What every step of a node finds. *)
LEMMA Found ==
    ASSUME HubLeads, CInv, NEW n \in Nodes
    PROVE  /\ Clock(Hub) \in Nat /\ Clock(n) \in Nat /\ n \in Databases
           /\ HubFine(hub, Clock(Hub)) /\ Whole(hub) /\ CurrentSeq(hub) \in Nat
           /\ NodeFine(n, store[n], hub, Clock(Hub), cursor[n], inbox[n],
                       outbox[n], acked[n])
           /\ Paired(n, store[n], hub, Clock(Hub)) /\ Whole(store[n])
           /\ Earlier(Clock(n), n, Clock(Hub)) /\ Earlier(0, n, Clock(Hub))
           /\ store[n] \in Stores /\ cursor[n] \in Nat /\ cursor[n] \in 0..CurrentSeq(hub)
           /\ inbox[n].changes \in Seq(Changes) /\ Len(inbox[n].changes) \in Nat
           /\ inbox[n].cursor \in cursor[n]..CurrentSeq(hub)
           /\ outbox[n] \in Seq(Changes) /\ acked[n] \in Seq(Changes)
<1>1. Typed /\ now \in Nat /\ n \in Databases /\ Hub \in Databases
  BY TypedNow DEF CInv, Typed, Databases
<1>2. Clock(Hub) \in Nat /\ Clock(n) \in Nat
  BY <1>1, ClockTicks
<1>3. /\ HubFine(hub, Clock(Hub)) /\ Whole(hub) /\ CurrentSeq(hub) \in Nat
      /\ NodeFine(n, store[n], hub, Clock(Hub), cursor[n], inbox[n], outbox[n], acked[n])
      /\ Paired(n, store[n], hub, Clock(Hub)) /\ Whole(store[n])
      /\ cursor[n] \in 0..CurrentSeq(hub) /\ inbox[n].cursor \in cursor[n]..CurrentSeq(hub)
  <2>1. /\ HubFine(hub, Clock(Hub)) /\ Whole(hub)
        /\ NodeFine(n, store[n], hub, Clock(Hub), cursor[n], inbox[n], outbox[n], acked[n])
    BY DEF CInv, Converging, HubFine
  <2> QED
    BY <2>1, FeedIs DEF NodeFine, BoxFine, Paired
<1>4. Earlier(Clock(n), n, Clock(Hub)) /\ Earlier(0, n, Clock(Hub))
  <2>1. Skew[n] \in Nat /\ Skew[Hub] \in Nat
    BY <1>1, Numbered
  <2>2. 0 < Clock(Hub)
    BY <1>1, <2>1 DEF Clock
  <2>3. Clock(n) < Clock(Hub) \/ (Clock(n) = Clock(Hub) /\ n < Hub)
    BY <1>1, <2>1 DEF Clock, HubLeads
  <2> QED
    BY <2>2, <2>3 DEF Earlier
<1>5. /\ store[n] \in Stores /\ cursor[n] \in Nat /\ inbox[n].changes \in Seq(Changes)
      /\ outbox[n] \in Seq(Changes) /\ acked[n] \in Seq(Changes)
  BY <1>1 DEF Typed, EngineTyped, Batches
<1>6. Len(inbox[n].changes) \in Nat
  BY <1>5, LenProperties
<1> QED
  BY <1>1, <1>2, <1>3, <1>4, <1>5, <1>6

LEMMA ApplicationConverges ==
    ASSUME HubLeads, KeepLast = NoCompaction, CInv, NEW n \in Nodes,
           UNCHANGED <<hub, delivered>>,
           \/ \E d \in Docs, op \in {"upsert", "delete"} : Write(n, d, op)
           \/ \E c \in Collections : OpenCollection(n, c)
           \/ CompactChanges(n) \/ Start(n) \/ BeginRound(n)
    PROVE  Converging'
<1> DEFINE ts == Clock(Hub)
           s == store[n]
<1>0. /\ ts \in Nat /\ Clock(n) \in Nat /\ n \in Databases /\ HubFine(hub, ts)
      /\ NodeFine(n, s, hub, ts, cursor[n], inbox[n], outbox[n], acked[n])
      /\ Paired(n, s, hub, ts) /\ Whole(s) /\ s \in Stores
      /\ Earlier(Clock(n), n, ts) /\ Earlier(0, n, ts)
  BY Found
<1>1. ASSUME NEW t, Wrote(s, t), Paired(n, t, hub, ts), store' = [store EXCEPT ![n] = t],
             UNCHANGED <<cursor, inbox, outbox, acked, now>>
      PROVE  Converging'
  <2>1. NodeFine(n, t, hub, ts, cursor[n], inbox[n], outbox[n], acked[n])
    BY <1>0, <1>1, WroteFine
  <2>2. store'[n] = t /\ \A m \in Nodes \ {n} : store'[m] = store[m]
    BY <1>1 DEF CInv, Typed, EngineTyped
  <2>3. OnlyOf(n)
    BY <1>1, <2>2 DEF OnlyOf
  <2> QED
    BY <1>1, <2>1, <2>2, <2>3, OneNode DEF CInv
<1>2. ASSUME UNCHANGED <<store, cursor, inbox, outbox, acked, now>>
      PROVE  Converging'
  <2>1. OnlyOf(n)
    BY <1>2 DEF OnlyOf
  <2> QED
    BY <1>0, <1>2, <2>1, OneNode DEF CInv
<1>3. ASSUME NEW d \in Docs, NEW op \in {"upsert", "delete"}, Write(n, d, op)
      PROVE  Converging'
  <2> DEFINE t == LocalWrite(s, n, d, op, Clock(n))
  <2>1. op \in Ops
    BY DEF Ops
  <2>2. Records(s, t, n, d, op, Clock(n))
    BY <1>0, <2>1, LocalWriteRecords
  <2>3. store' = [store EXCEPT ![n] = t] /\ UNCHANGED <<cursor, inbox, outbox, acked, now>>
    BY <1>3 DEF Write, engine
  <2> HIDE DEF t, s, ts
  <2>4. Wrote(s, t) /\ Paired(n, t, hub, ts)
    BY <1>0, <2>1, <2>2, NodeRecords, RecordsWrote
  <2> QED
    BY <1>1, <2>3, <2>4
<1>4. ASSUME NEW c \in Collections, OpenCollection(n, c)
      PROVE  Converging'
  <2> DEFINE t == [s EXCEPT !.colls = @ \cup {c}]
  <2>1. /\ t \in Stores /\ t.feed = s.feed /\ t.base = s.base
        /\ t.docs = s.docs /\ t.vseq = s.vseq /\ s.colls \subseteq t.colls
    BY <1>0 DEF Stores
  <2>2. store' = [store EXCEPT ![n] = t] /\ UNCHANGED <<cursor, inbox, outbox, acked, now>>
    BY <1>4 DEF OpenCollection, engine, limits
  <2> HIDE DEF t, s, ts
  <2>3. Wrote(s, t) /\ Paired(n, t, hub, ts)
    BY <1>0, <2>1, FeedAlone
  <2> QED
    BY <1>1, <2>2, <2>3
<1>5. CASE CompactChanges(n)
  BY <1>5 DEF CompactChanges
<1>6. CASE Start(n)
  <2>1. UNCHANGED <<cursor, inbox, outbox, acked, now>>
    BY <1>6 DEF Start, limits
  <2>2. CASE everPushed[n]
    BY <1>2, <1>6, <2>1, <2>2 DEF Start
  <2>3. CASE ~everPushed[n]
    <3> DEFINE t == Seed(s, n, Colls(n))
    <3>1. store' = [store EXCEPT ![n] = t]
      BY <1>6, <2>3 DEF Start
    <3>2. Wrote(s, t) /\ Paired(n, t, hub, ts)
      BY <1>0, NodeSeeds
    <3> HIDE DEF t, s, ts
    <3> QED
      BY <1>1, <2>1, <3>1, <3>2
  <2> QED
    BY <2>2, <2>3
<1>7. CASE BeginRound(n)
  BY <1>2, <1>7 DEF BeginRound, limits
<1> QED
  BY <1>3, <1>4, <1>5, <1>6, <1>7

(* A batch may be applied in part, if the process dies in the middle of it, *)
(* and is then pulled again.                                                *)
LEMMA PartConverges ==
    ASSUME HubLeads, CInv, NEW n \in Nodes, NEW k \in 0..Len(inbox[n].changes)
    PROVE  /\ Paired(n, Applied(n, k), hub, Clock(Hub))
           /\ Passed(Applied(n, k), hub, cursor[n])
           /\ k = Len(inbox[n].changes) => Passed(Applied(n, k), hub, inbox[n].cursor)
<1> DEFINE ts == Clock(Hub)
           s == store[n]
           cs == inbox[n].changes
           taken == SubSeq(cs, 1, k)
           t == Applied(n, k)
<1>0. /\ ts \in Nat /\ Clock(n) \in Nat /\ HubFine(hub, ts) /\ Whole(hub) /\ Whole(s)
      /\ NodeFine(n, s, hub, ts, cursor[n], inbox[n], outbox[n], acked[n])
      /\ Paired(n, s, hub, ts) /\ Earlier(Clock(n), n, ts)
      /\ cs \in Seq(Changes) /\ Len(cs) \in Nat
  BY Found
<1>1. t = ApplyAll(s, n, taken, Clock(n), Resolver)
  BY DEF Applied
<1>2. /\ taken \in Seq(Changes) /\ Len(taken) = k
      /\ \A i \in 1..k : i \in 1..Len(cs) /\ taken[i] = cs[i]
  BY <1>0, PrefixIs
<1>3. Passed(s, hub, cursor[n]) /\ BoxFine(hub, cursor[n], inbox[n])
  BY <1>0 DEF NodeFine
<1> HIDE DEF t, taken, s, ts
<1>4. Distinct(taken) /\ \A i \in 1..Len(taken) : FromHub(hub, taken[i])
  BY <1>2, <1>3 DEF BoxFine, Distinct, Offered
<1>5. Paired(n, t, hub, ts) /\ Batched(s, t, taken, k)
  BY <1>0, <1>1, <1>2, <1>4, NodeAppliesAll
<1>6. Batched(s, t, inbox[n].changes, k)
  BY <1>2, <1>5 DEF Batched
<1>7. Passed(t, hub, cursor[n]) /\ (k = Len(cs) => Passed(t, hub, inbox[n].cursor))
  BY <1>0, <1>3, <1>6, BatchPasses
<1> QED
  BY <1>5, <1>7 DEF t, ts

(* The steps of a round that leave the hub as it is. *)
LEMMA RoundConverges ==
    ASSUME HubLeads, CInv, NEW n \in Nodes, UNCHANGED <<hub, delivered>>,
           \/ ApplyPulled(n) \/ ApplyFails(n) \/ ReadPending(n) \/ MarkAcked(n)
           \/ RetriesExhausted(n) \/ Crash(n)
    PROVE  Converging'
<1> DEFINE ts == Clock(Hub)
           s == store[n]
<1>0. /\ ts \in Nat /\ HubFine(hub, ts) /\ Whole(hub) /\ CurrentSeq(hub) \in Nat
      /\ NodeFine(n, s, hub, ts, cursor[n], inbox[n], outbox[n], acked[n])
      /\ Paired(n, s, hub, ts) /\ Whole(s)
      /\ cursor[n] \in 0..CurrentSeq(hub) /\ inbox[n].cursor \in cursor[n]..CurrentSeq(hub)
      /\ cursor[n] \in Nat /\ acked[n] \in Seq(Changes) /\ Len(inbox[n].changes) \in Nat
  BY Found
<1>1. /\ store \in [Nodes -> Stores] /\ cursor \in [Nodes -> Nat]
      /\ inbox \in [Nodes -> Batches(Nat)] /\ outbox \in [Nodes -> Seq(Changes)]
      /\ acked \in [Nodes -> Seq(Changes)]
      /\ outbox[n] # << >> => phase[n] = "send"
      /\ acked[n] # << >> => phase[n] \in {"send", "ack"}
  BY DEF CInv, Typed, EngineTyped, EngineHolds
<1>2. ASSUME NEW t, NEW cur \in 0..CurrentSeq(hub), Paired(n, t, hub, ts),
             Passed(t, hub, cur), InboxEmptied(n), cursor'[n] = cur,
             outbox'[n] = << >>, acked'[n] = << >>, store'[n] = t, OnlyOf(n)
      PROVE  Converging'
  <2>1. inbox'[n] = [changes |-> << >>, cursor |-> cur]
    BY <1>1, <1>2 DEF InboxEmptied
  <2>2. BoxFine(hub, cur, [changes |-> << >>, cursor |-> cur])
    BY <1>0, EmptyBoxFine
  <2>3. NodeFine(n, t, hub, ts, cur, inbox'[n], << >>, << >>)
    BY <1>2, <2>1, <2>2, NothingSent DEF NodeFine
  <2> QED
    BY <1>2, <2>3, OneNode DEF CInv
<1>3. CASE ApplyPulled(n)
  <2> DEFINE k == Len(inbox[n].changes)
             t == Applied(n, k)
  <2>1. Paired(n, t, hub, ts) /\ Passed(t, hub, inbox[n].cursor)
    <3>1. k \in 0..Len(inbox[n].changes)
      BY <1>0
    <3> QED
      BY <3>1, PartConverges
  <2>2. /\ InboxEmptied(n) /\ cursor'[n] = inbox[n].cursor /\ store'[n] = t
        /\ outbox'[n] = << >> /\ acked'[n] = << >>
    BY <1>1, <1>3 DEF ApplyPulled
  <2>3. OnlyOf(n)
    BY <1>1, <1>3 DEF ApplyPulled, OnlyOf, limits, InboxEmptied
  <2>4. inbox[n].cursor \in 0..CurrentSeq(hub)
    BY <1>0
  <2> QED
    BY <1>2, <2>1, <2>2, <2>3, <2>4
<1>4. CASE ApplyFails(n)
  <2>1. PICK k \in 0..(Len(inbox[n].changes) - 1) :
             store' = [store EXCEPT ![n] = Applied(n, k)]
    BY <1>4 DEF ApplyFails
  <2> DEFINE t == Applied(n, k)
  <2>2. Paired(n, t, hub, ts) /\ Passed(t, hub, cursor[n])
    <3>1. k \in 0..Len(inbox[n].changes)
      BY <1>0
    <3> QED
      BY <3>1, PartConverges
  <2>3. /\ InboxEmptied(n) /\ cursor'[n] = cursor[n] /\ store'[n] = t
        /\ outbox'[n] = << >> /\ acked'[n] = << >>
    BY <1>1, <1>4, <2>1 DEF ApplyFails
  <2>4. OnlyOf(n)
    BY <1>1, <1>4, <2>1 DEF ApplyFails, OnlyOf, InboxEmptied
  <2> QED
    BY <1>0, <1>2, <2>2, <2>3, <2>4
<1>5. CASE Crash(n)
  <2>1. PICK k \in 0..Len(inbox[n].changes) :
             store' = [store EXCEPT ![n] = Reopen(Applied(n, k))]
    BY <1>5 DEF Crash
  <2> DEFINE t == Applied(n, k)
  <2>2. Paired(n, t, hub, ts) /\ Passed(t, hub, cursor[n])
    BY PartConverges
  <2>3. Reopen(t) = t
    BY <2>2, ResumesReopen DEF Paired
  <2>4. /\ InboxEmptied(n) /\ cursor'[n] = cursor[n] /\ store'[n] = t
        /\ outbox'[n] = << >> /\ acked'[n] = << >>
    BY <1>1, <1>5, <2>1, <2>3 DEF Crash
  <2>5. OnlyOf(n)
    BY <1>1, <1>5, <2>1 DEF Crash, OnlyOf, InboxEmptied
  <2> QED
    BY <1>0, <1>2, <2>2, <2>4, <2>5
<1>6. CASE ReadPending(n)
  <2> DEFINE out == Pending(s, Explicit, BatchSize)
  <2>1. /\ store'[n] = s /\ cursor'[n] = cursor[n] /\ inbox'[n] = inbox[n]
        /\ outbox'[n] = out /\ acked'[n] = acked[n] /\ OnlyOf(n)
    BY <1>1, <1>6 DEF ReadPending, OnlyOf, limits
  <2>2. OutFine(s, out)
    BY <1>0, PendingIs, Numbered DEF OutFine, Paired
  <2> HIDE DEF out
  <2>3. NodeFine(n, s, hub, ts, cursor[n], inbox[n], out, acked[n])
    BY <1>0, <2>2 DEF NodeFine
  <2> QED
    BY <2>1, <2>3, OneNode DEF CInv
<1>7. CASE MarkAcked(n)
  <2> DEFINE t == MarkPushed(s, acked[n])
  <2>1. /\ store'[n] = t /\ cursor'[n] = cursor[n] /\ inbox'[n] = inbox[n]
        /\ outbox'[n] = outbox[n] /\ acked'[n] = << >> /\ OnlyOf(n)
    BY <1>1, <1>7 DEF MarkAcked, OnlyOf, limits
  <2>2. Marks(s, t, acked[n]) /\ DOMAIN acked[n] = 1..Len(acked[n])
    BY <1>0, MarkPushedIs, LenProperties
  <2> HIDE DEF t
  <2>3. NodeFine(n, t, hub, ts, cursor[n], inbox[n], outbox[n], << >>)
    BY <1>0, <2>2, MarksFine
  <2> QED
    BY <2>1, <2>3, OneNode DEF CInv
<1>8. CASE RetriesExhausted(n)
  <2>1. /\ store'[n] = s /\ cursor'[n] = cursor[n] /\ inbox'[n] = inbox[n]
        /\ outbox'[n] = << >> /\ acked'[n] = << >> /\ OnlyOf(n)
    BY <1>1, <1>8 DEF RetriesExhausted, OnlyOf
  <2>2. NodeFine(n, s, hub, ts, cursor[n], inbox[n], << >>, << >>)
    BY <1>0, NothingSent DEF NodeFine
  <2> QED
    BY <2>1, <2>2, OneNode DEF CInv
<1> QED
  BY <1>3, <1>4, <1>5, <1>6, <1>7, <1>8

(* The answer of the hub to a pull: a batch and a cursor.                   *)
LEMMA PullConverges ==
    ASSUME HubLeads, CInv, NEW n \in Nodes, Pull(n)
    PROVE  Converging'
<1> DEFINE ts == Clock(Hub)
           s == store[n]
           cur == cursor[n]
           colls == Colls(n)
           box == ChangesSince(hub, cur, colls, BatchSize)
<1>0. /\ HubFine(hub, ts) /\ Whole(hub) /\ CurrentSeq(hub) \in Nat /\ DeletesGone(hub)
      /\ NodeFine(n, s, hub, ts, cur, inbox[n], outbox[n], acked[n])
      /\ Paired(n, s, hub, ts) /\ cur \in Nat /\ cur \in 0..CurrentSeq(hub)
      /\ cur <= CurrentSeq(hub)
  BY Found DEF HubFine
<1>1. /\ store'[n] = s /\ cursor'[n] = cur /\ inbox'[n] = box
      /\ outbox'[n] = outbox[n] /\ acked'[n] = acked[n] /\ OnlyOf(n)
  BY DEF Pull, PullAnswered, OnlyOf, limits, CInv, Typed, EngineTyped
<1>2. \A d \in Docs : Pulled(d) => colls = {} \/ CollOf[d] \in colls
  BY <1>0, EngineAssumption DEF Pulled, Colls, Paired, AllOpen
<1>3. BatchSize \in Nat \ {0}
  BY EngineAssumption
<1> HIDE DEF cur, colls, s, ts
<1>4. /\ box.cursor \in cur..CurrentSeq(hub)
      /\ \A i \in 1..Len(box.changes) : UpToDate(hub, cur, box.changes[i])
      /\ Distinct(box.changes)
      /\ \A d \in Docs :
            /\ colls = {} \/ CollOf[d] \in colls
            /\ Entries(hub, d) # {} /\ cur < LastOf(hub, d) /\ LastOf(hub, d) <= box.cursor
            => \E i \in 1..Len(box.changes) :
                  /\ box.changes[i].doc = d
                  /\ box.changes[i].version = CurrentVersion(hub, d)
  BY <1>0, <1>3, ChangesSinceIs DEF Distinct
<1> HIDE DEF box
<1>5. BoxFine(hub, cur, box)
  <2>1. Complete(hub, cur, box)
    BY <1>2, <1>4 DEF Complete
  <2>2. \A i \in 1..Len(box.changes) : Offered(hub, cur, box.changes[i])
    BY <1>4 DEF UpToDate, Offered
  <2> QED
    BY <1>0, <1>4, <2>1, <2>2 DEF BoxFine
<1>6. NodeFine(n, s, hub, ts, cur, box, outbox[n], acked[n])
  BY <1>0, <1>5 DEF NodeFine
<1> QED
  BY <1>1, <1>6, OneNode DEF CInv, cur, s, ts

-----------------------------------------------------------------------------
LEMMA HubMoves ==
    ASSUME HubLeads, CInv, NEW g, HubFine(g, Clock(Hub)), Moves(hub, g),
           AllPaired(store, g, Clock(Hub)), NEW n \in Nodes
    PROVE  NodeFine(n, store[n], g, Clock(Hub), cursor[n], inbox[n], outbox[n], acked[n])
<1>1. /\ NodeFine(n, store[n], hub, Clock(Hub), cursor[n], inbox[n], outbox[n], acked[n])
      /\ inbox[n].changes \in Seq(Changes)
  BY Found
<1>2. \A i \in 1..Len(inbox[n].changes) : inbox[n].changes[i] \in Changes
  BY <1>1, ElementOfSeq
<1> QED
  BY <1>1, <1>2, HubMovesFine DEF AllPaired

(* The steps that change the hub: a push, answered or not, its own writes   *)
(* and the passing of time.                                                 *)
LEMMA HubConverges ==
    ASSUME HubLeads, KeepLast = NoCompaction, CInv,
           \/ \E n \in Nodes : Push(n) \/ PushFails(n)
           \/ \E d \in Docs, op \in {"upsert", "delete"} : HubWrite(d, op)
           \/ CompactHub
           \/ Tick /\ UNCHANGED <<hub, delivered>>
    PROVE  Converging'
<1> DEFINE ts == Clock(Hub)
<1>0. ts \in Nat /\ HubFine(hub, ts) /\ AllPaired(store, hub, ts) /\ Whole(hub)
      /\ Hub \in Databases
  <2>1. ts \in Nat
    BY TypedNow, ClockTicks DEF CInv, Typed, Databases
  <2> QED
    BY <2>1 DEF CInv, Converging, AllPaired, NodeFine, HubFine, Databases
<1>1. ASSUME NEW n \in Nodes, NEW k \in 0..Len(outbox[n]), Ingest(n, k)
      PROVE  Ingested(hub, hub', store, ts, cursor[n], outbox[n], k)
  <2> DEFINE sent == SubSeq(outbox[n], 1, k)
  <2>1. /\ outbox[n] \in Seq(Changes) /\ cursor[n] \in 0..CurrentSeq(hub)
        /\ OutFine(store[n], outbox[n])
    BY Found DEF NodeFine
  <2>2. /\ sent \in Seq(Changes) /\ Len(sent) = k
        /\ \A i \in 1..k : i \in 1..Len(outbox[n]) /\ sent[i] = outbox[n][i]
    BY <2>1, PrefixIs
  <2>3. hub' = ApplyAll(hub, Hub, sent, ts, "lww")
    BY <1>1 DEF Ingest
  <2> HIDE DEF sent, ts
  <2>4. OutFine(store[n], sent)
    BY <2>1, <2>2 DEF OutFine
  <2>5. Ingested(hub, hub', store, ts, cursor[n], sent, k)
    BY <1>0, <2>1, <2>2, <2>3, <2>4, HubAppliesAll
  <2> QED
    BY <2>2, <2>5 DEF Ingested
<1>2. ASSUME NEW n \in Nodes, Push(n)
      PROVE  Converging'
  <2> DEFINE k == Len(outbox[n])
  <2>1. /\ outbox[n] \in Seq(Changes) /\ OutFine(store[n], outbox[n])
        /\ k \in Nat /\ k \in 0..k
    BY Found, LenProperties DEF NodeFine
  <2>2. Ingested(hub, hub', store, ts, cursor[n], outbox[n], k)
    BY <1>1, <1>2, <2>1 DEF Push
  <2>3. ASSUME NEW m \in Nodes
        PROVE  NodeFine(m, store[m], hub', ts, cursor[m], inbox[m], outbox[m], acked[m])
    BY <2>2, HubMoves DEF Ingested
  <2>4. UNCHANGED <<store, cursor, inbox, now>>
    BY <1>2 DEF Push, PushAnswered, limits
  <2>5. \A m \in Nodes : /\ m # n => outbox'[m] = outbox[m] /\ acked'[m] = acked[m]
                         /\ m = n => outbox'[m] = << >> /\ acked'[m] = outbox[n]
    BY <1>2 DEF Push, PushAnswered, CInv, Typed, EngineTyped
  <2>6. AckFine(store[n], hub', cursor[n], outbox[n])
    <3> SUFFICES ASSUME NEW i \in 1..k
                 PROVE  /\ outbox[n][i].doc \in Docs /\ Stands(store[n], outbox[n][i])
                        /\ Arrived(hub', cursor[n], outbox[n][i])
      BY DEF AckFine
    <3>1. outbox[n][i] \in Changes
      BY <2>1, ElementOfSeq
    <3> QED
      BY <2>1, <2>2, <3>1 DEF Changes, OutFine, ToPush, Ingested
  <2>7. NodeFine(n, store[n], hub', ts, cursor[n], inbox[n], << >>, outbox[n])
    BY <2>3, <2>6, NothingSent DEF NodeFine
  <2>8. ASSUME NEW m \in Nodes
        PROVE  NodeFine(m, store[m], hub', ts, cursor[m], inbox[m], outbox'[m], acked'[m])
    <3>1. CASE m = n
      BY <2>5, <2>7, <3>1
    <3>2. CASE m # n
      BY <2>3, <2>5, <3>2
    <3> QED
      BY <3>1, <3>2
  <2>9. Clock(Hub)' = ts /\ HubFine(hub', ts)
    BY <2>2, <2>4 DEF Clock, Ingested
  <2> QED
    BY <2>4, <2>8, <2>9 DEF Converging
<1>3. ASSUME HubFine(hub', ts), Moves(hub, hub'), AllPaired(store, hub', ts),
             UNCHANGED <<store, cursor, inbox, outbox, acked, now>>
      PROVE  Converging'
  <2>1. \A m \in Nodes :
           NodeFine(m, store[m], hub', ts, cursor[m], inbox[m], outbox[m], acked[m])
    BY <1>3, HubMoves
  <2>2. Clock(Hub)' = ts
    BY <1>3 DEF Clock
  <2> QED
    BY <1>3, <2>1, <2>2 DEF Converging
<1>4. ASSUME NEW n \in Nodes, PushFails(n)
      PROVE  Converging'
  <2>1. PICK k \in 1..Len(outbox[n]) : Ingest(n, k)
    BY <1>4 DEF PushFails
  <2>2. k \in 0..Len(outbox[n])
    OBVIOUS
  <2>3. Ingested(hub, hub', store, ts, cursor[n], outbox[n], k)
    BY <1>1, <2>1, <2>2
  <2>4. UNCHANGED <<store, cursor, inbox, outbox, acked, now>>
    BY <1>4 DEF PushFails, engine
  <2> QED
    BY <1>3, <2>3, <2>4 DEF Ingested
<1>5. ASSUME NEW d \in Docs, NEW op \in {"upsert", "delete"}, HubWrite(d, op)
      PROVE  Converging'
  <2> DEFINE g == LocalWrite(hub, Hub, d, op, ts)
  <2>1. hub' = g /\ UNCHANGED <<store, cursor, inbox, outbox, acked, now>>
    BY <1>5 DEF HubWrite, engine
  <2>2. op \in Ops
    BY DEF Ops
  <2>3. Records(hub, g, Hub, d, op, ts)
    BY <1>0, <2>2, LocalWriteRecords
  <2> HIDE DEF g, ts
  <2>4. HubFine(g, ts) /\ Moves(hub, g) /\ AllPaired(store, g, ts)
    BY <1>0, <2>2, <2>3, HubRecords DEF AllPaired
  <2> QED
    BY <1>3, <2>1, <2>4
<1>6. CASE CompactHub
  BY <1>6 DEF CompactHub
<1>7. CASE Tick /\ UNCHANGED <<hub, delivered>>
  <2>1. /\ hub' = hub /\ UNCHANGED <<store, cursor, inbox, outbox, acked>>
        /\ Clock(Hub)' = ts + 1
    <3>1. now \in Nat /\ Skew[Hub] \in Nat /\ now' = now + 1
      BY <1>0, <1>7, TypedNow, Numbered DEF CInv, Typed, Tick
    <3>2. Clock(Hub)' = 1 + now' + Skew[Hub] /\ ts = 1 + now + Skew[Hub]
      BY DEF Clock
    <3>3. 1 + (now + 1) + Skew[Hub] = (1 + now + Skew[Hub]) + 1
      BY <3>1
    <3> QED
      BY <1>7, <3>1, <3>2, <3>3 DEF Tick, engine
  <2>2. HubFine(hub, ts + 1) /\ \A n, s : Paired(n, s, hub, ts) => Paired(n, s, hub, ts + 1)
    BY <1>0, LaterFine
  <2>3. \A n \in Nodes : NodeFine(n, store[n], hub, ts + 1, cursor[n], inbox[n],
                                  outbox[n], acked[n])
    BY <2>2 DEF CInv, Converging, NodeFine
  <2> QED
    BY <2>1, <2>2, <2>3 DEF Converging
<1> QED
  BY <1>2, <1>4, <1>5, <1>6, <1>7

LEMMA StepConverges ==
    ASSUME HubLeads, KeepLast = NoCompaction, HInv, Converging, [Next]_vars
    PROVE  Converging'
<1>0. CInv
  BY DEF CInv, HInv
<1>1. ASSUME NEW n \in Nodes, NodeStep(n), UNCHANGED <<hub, delivered>>
      PROVE  Converging'
  BY <1>0, <1>1, ApplicationConverges, RoundConverges DEF NodeStep
<1>2. CASE UNCHANGED vars
  BY <1>2 DEF vars, engine, limits, Converging, Clock
<1> QED
  BY <1>0, <1>1, <1>2, PullConverges, HubConverges DEF Next

(* A node whose cursor has passed the hub's last change of a document, and  *)
(* that has no change of its own to push for it, shows what the hub shows,  *)
(* as long as the hub's clock is ahead of the nodes', no feed is compacted  *)
(* and no node begins to replicate a collection later.                      *)
THEOREM CaughtUpAreEqual ==
    HubLeads /\ KeepLast = NoCompaction /\ CollectionsFixed
      => (Spec => []CaughtUpMeansEqual)
<1> SUFFICES ASSUME HubLeads, KeepLast = NoCompaction, CollectionsFixed
             PROVE  Spec => []CaughtUpMeansEqual
  OBVIOUS
<1>1. Init => Converging
  BY ConvergesInit
<1>2. HInv /\ Converging /\ [Next]_vars => Converging'
  BY StepConverges
<1>3. HInv /\ Converging => CaughtUpMeansEqual
  BY ConvergingMeansEqual DEF CInv, HInv
<1> QED
  BY <1>1, <1>2, <1>3, InvariantHolds, PTL DEF Spec

-----------------------------------------------------------------------------
(* TableSync and MemorySync have the change feed of SyncStore, by names of  *)
(* their own.                                                               *)
LEMMA TablesStore ==
    /\ \A S : Tables!Max(S) = Max(S)
    /\ \A a, b : Tables!Newer(a, b) <=> Newer(a, b)
    /\ \A s : Tables!Seqs(s) = Seqs(s)
    /\ \A s, q : Tables!Entry(s, q) = Entry(s, q)
    /\ \A s, d : Tables!Entries(s, d) = Entries(s, d)
    /\ \A s, n, d, op, ts : Tables!LocalWrite(s, n, d, op, ts) = LocalWrite(s, n, d, op, ts)
    /\ \A s, n, cs, ts, r : Tables!ApplyAll(s, n, cs, ts, r) = ApplyAll(s, n, cs, ts, r)
    /\ \A s, cs, n : Tables!Pending(s, cs, n) = Pending(s, cs, n)
    /\ \A s, cs : Tables!MarkPushed(s, cs) = MarkPushed(s, cs)
    /\ \A s : Tables!Reopen(s) = Reopen(s)
    /\ \A S : Tables!SetToSeq(S) = SetToSeq(S)
<1>1. \A S : Tables!Max(S) = Max(S) /\ Tables!Min(S) = Min(S)
  BY DEF Tables!Max, Tables!Min, Max, Min
<1>2. \A a, b : Tables!Newer(a, b) <=> Newer(a, b)
  BY DEF Tables!Newer, Newer, Tables!NoVersion, NoVersion
<1>3. \A s : Tables!Seqs(s) = Seqs(s)
  BY DEF Tables!Seqs, Seqs
<1>4. \A s, q : Tables!Entry(s, q) = Entry(s, q)
  BY DEF Tables!Entry, Entry
<1>5. \A s, d : Tables!Entries(s, d) = Entries(s, d)
  BY <1>3, <1>4 DEF Tables!Entries, Entries
<1>6. \A s, q : Tables!ChangeAt(s, q) = ChangeAt(s, q)
  BY DEF Tables!ChangeAt, ChangeAt, Tables!Entry, Entry, Tables!Absent, Absent,
         Tables!NoVersion, NoVersion
<1>7. \A s, n, d, op, ts : Tables!RecordLocal(s, n, d, op, ts) = RecordLocal(s, n, d, op, ts)
  BY DEF Tables!RecordLocal, RecordLocal, Tables!MakeVersion, MakeVersion, Tables!Log, Log
<1>8. \A s, d, x : Tables!Put(s, d, x) = Put(s, d, x)
  BY DEF Tables!Put, Put
<1>9. \A s, n, d, op, ts : Tables!LocalWrite(s, n, d, op, ts) = LocalWrite(s, n, d, op, ts)
  BY <1>7, <1>8 DEF Tables!LocalWrite, LocalWrite, Tables!MakeVersion, MakeVersion,
                    Tables!Absent, Absent, Tables!NoVersion, NoVersion
<1>10. \A s, n, cs, ts, r : Tables!ApplyAll(s, n, cs, ts, r) = ApplyAll(s, n, cs, ts, r)
  <2> SUFFICES ASSUME NEW s, NEW n, NEW cs, NEW ts, NEW r
               PROVE  Tables!ApplyAll(s, n, cs, ts, r) = ApplyAll(s, n, cs, ts, r)
    OBVIOUS
  <2> QED
    BY SMT
       DEF Tables!ApplyAll, ApplyAll, Tables!ApplyRemote, ApplyRemote, Tables!Apply, Apply,
           Tables!RemoteWins, RemoteWins, Tables!NoVersion, NoVersion, Tables!Newer, Newer,
           Tables!CurrentVersion, CurrentVersion, Tables!Log, Log,
           Tables!RecordLocal, RecordLocal, Tables!MakeVersion, MakeVersion, Tables!Put, Put,
           Tables!Entries, Entries, Tables!Entry, Entry, Tables!Seqs, Seqs, Tables!Max, Max
<1>11. \A s, cs, n : Tables!Pending(s, cs, n) = Pending(s, cs, n)
  <2>1. \A Q, n : Tables!Batch(Q, n) = Batch(Q, n)
    BY Zenon DEF Tables!Batch, Batch, Tables!Min, Min, Tables!Cardinality, Cardinality
  <2>2. \A s, Q : Tables!Latest(s, Q) = Latest(s, Q)
    BY <1>4 DEF Tables!Latest, Latest
  <2>3. \A s : Tables!Unpushed(s) = Unpushed(s)
    BY <1>3, <1>4 DEF Tables!Unpushed, Unpushed
  <2>4. \A s, Q, cs : Tables!Within(s, Q, cs) = Within(s, Q, cs)
    BY <1>4 DEF Tables!Within, Within
  <2> QED
    BY <1>6, <2>1, <2>2, <2>3, <2>4 DEF Tables!Pending, Pending
<1>12. \A s, cs : Tables!MarkPushed(s, cs) = MarkPushed(s, cs)
  BY DEF Tables!MarkPushed, MarkPushed
<1>13. \A s : Tables!Reopen(s) = Reopen(s)
  BY <1>1, <1>3, <1>4 DEF Tables!Reopen, Reopen
<1>14. \A S : Tables!SetToSeq(S) = SetToSeq(S)
  BY Zenon DEF Tables!SetToSeq, SetToSeq, Tables!IsInjective, IsInjective,
               Tables!Cardinality, Cardinality
<1> QED
  BY <1>1, <1>2, <1>3, <1>4, <1>5, <1>9, <1>10, <1>11, <1>12, <1>13, <1>14

LEMMA MemoryStore ==
    /\ \A S : Memory!Max(S) = Max(S)
    /\ \A a, b : Memory!Newer(a, b) <=> Newer(a, b)
    /\ \A s : Memory!Seqs(s) = Seqs(s)
    /\ \A s, q : Memory!Entry(s, q) = Entry(s, q)
    /\ \A s, d : Memory!Entries(s, d) = Entries(s, d)
    /\ \A s, n, d, op, ts : Memory!LocalWrite(s, n, d, op, ts) = LocalWrite(s, n, d, op, ts)
    /\ \A s, n, cs, ts, r : Memory!ApplyAll(s, n, cs, ts, r) = ApplyAll(s, n, cs, ts, r)
    /\ \A s, cs, n : Memory!Pending(s, cs, n) = Pending(s, cs, n)
    /\ \A s, cs : Memory!MarkPushed(s, cs) = MarkPushed(s, cs)
    /\ \A s : Memory!Reopen(s) = Reopen(s)
    /\ \A S : Memory!SetToSeq(S) = SetToSeq(S)
<1>1. \A S : Memory!Max(S) = Max(S) /\ Memory!Min(S) = Min(S)
  BY DEF Memory!Max, Memory!Min, Max, Min
<1>2. \A a, b : Memory!Newer(a, b) <=> Newer(a, b)
  BY DEF Memory!Newer, Newer, Memory!NoVersion, NoVersion
<1>3. \A s : Memory!Seqs(s) = Seqs(s)
  BY DEF Memory!Seqs, Seqs
<1>4. \A s, q : Memory!Entry(s, q) = Entry(s, q)
  BY DEF Memory!Entry, Entry
<1>5. \A s, d : Memory!Entries(s, d) = Entries(s, d)
  BY <1>3, <1>4 DEF Memory!Entries, Entries
<1>6. \A s, q : Memory!ChangeAt(s, q) = ChangeAt(s, q)
  BY DEF Memory!ChangeAt, ChangeAt, Memory!Entry, Entry, Memory!Absent, Absent,
         Memory!NoVersion, NoVersion
<1>7. \A s, n, d, op, ts : Memory!RecordLocal(s, n, d, op, ts) = RecordLocal(s, n, d, op, ts)
  BY DEF Memory!RecordLocal, RecordLocal, Memory!MakeVersion, MakeVersion, Memory!Log, Log
<1>8. \A s, d, x : Memory!Put(s, d, x) = Put(s, d, x)
  BY DEF Memory!Put, Put
<1>9. \A s, n, d, op, ts : Memory!LocalWrite(s, n, d, op, ts) = LocalWrite(s, n, d, op, ts)
  BY <1>7, <1>8 DEF Memory!LocalWrite, LocalWrite, Memory!MakeVersion, MakeVersion,
                    Memory!Absent, Absent, Memory!NoVersion, NoVersion
<1>10. \A s, n, cs, ts, r : Memory!ApplyAll(s, n, cs, ts, r) = ApplyAll(s, n, cs, ts, r)
  <2> SUFFICES ASSUME NEW s, NEW n, NEW cs, NEW ts, NEW r
               PROVE  Memory!ApplyAll(s, n, cs, ts, r) = ApplyAll(s, n, cs, ts, r)
    OBVIOUS
  <2> QED
    BY SMT
       DEF Memory!ApplyAll, ApplyAll, Memory!ApplyRemote, ApplyRemote, Memory!Apply, Apply,
           Memory!RemoteWins, RemoteWins, Memory!NoVersion, NoVersion, Memory!Newer, Newer,
           Memory!CurrentVersion, CurrentVersion, Memory!Log, Log,
           Memory!RecordLocal, RecordLocal, Memory!MakeVersion, MakeVersion, Memory!Put, Put,
           Memory!Entries, Entries, Memory!Entry, Entry, Memory!Seqs, Seqs, Memory!Max, Max
<1>11. \A s, cs, n : Memory!Pending(s, cs, n) = Pending(s, cs, n)
  <2>1. \A Q, n : Memory!Batch(Q, n) = Batch(Q, n)
    BY Zenon DEF Memory!Batch, Batch, Memory!Min, Min, Memory!Cardinality, Cardinality
  <2>2. \A s, Q : Memory!Latest(s, Q) = Latest(s, Q)
    BY <1>4 DEF Memory!Latest, Latest
  <2>3. \A s : Memory!Unpushed(s) = Unpushed(s)
    BY <1>3, <1>4 DEF Memory!Unpushed, Unpushed
  <2>4. \A s, Q, cs : Memory!Within(s, Q, cs) = Within(s, Q, cs)
    BY <1>4 DEF Memory!Within, Within
  <2> QED
    BY <1>6, <2>1, <2>2, <2>3, <2>4 DEF Memory!Pending, Pending
<1>12. \A s, cs : Memory!MarkPushed(s, cs) = MarkPushed(s, cs)
  BY DEF Memory!MarkPushed, MarkPushed
<1>13. \A s : Memory!Reopen(s) = Reopen(s)
  BY <1>1, <1>3, <1>4 DEF Memory!Reopen, Reopen
<1>14. \A S : Memory!SetToSeq(S) = SetToSeq(S)
  BY Zenon DEF Memory!SetToSeq, SetToSeq, Memory!IsInjective, IsInjective,
               Memory!Cardinality, Cardinality
<1> QED
  BY <1>1, <1>2, <1>3, <1>4, <1>5, <1>9, <1>10, <1>11, <1>12, <1>13, <1>14

-----------------------------------------------------------------------------
LEMMA ChangeIn ==
    ASSUME NEW cs \in Seq(Changes), NEW i \in 1..Len(cs)
    PROVE  /\ cs[i] \in Changes /\ Len(cs) \in Nat
           /\ cs[i].seq \in Nat /\ cs[i].doc \in Docs /\ cs[i].version \in Versions
<1>1. cs[i] \in Changes /\ Len(cs) \in Nat
  BY ElementOfSeq, LenProperties
<1> QED
  BY <1>1 DEF Changes

(* A node's database at time ts: its own entries are numbered and timed in  *)
(* order, and there is an entry of each document that exists.               *)
Timed(s, ts) ==
    \A q \in Own(s) :
       /\ Entry(s, q).version[1] <= ts
       /\ \A p \in Own(s) : p < q => Entry(s, p).version[1] <= Entry(s, q).version[1]

Mentioned(s) == \A d \in Docs : s.docs[d].live => Entries(s, d) # {}

Ordered(n, s, ts) ==
    Whole(s) /\ Counters(n, s) /\ Resumes(s) /\ Timed(s, ts) /\ Mentioned(s)

(* Later entries of a node's own have newer versions.                       *)
LEMMA OwnInOrder ==
    ASSUME NEW n, NEW s, NEW ts, Ordered(n, s, ts),
           NEW p \in Own(s), NEW q \in Own(s), p < q
    PROVE  Newer(Entry(s, q).version, Entry(s, p).version)
<1> DEFINE v == Entry(s, p).version
           w == Entry(s, q).version
<1>1. v \in Versions /\ w \in Versions
  BY VersionsIn DEF Ordered, Own
<1>2. v[2] = n /\ w[2] = n /\ v[3] < w[3] /\ v[1] <= w[1]
  BY DEF Ordered, Counters, Timed
<1> HIDE DEF v, w
<1>3. Newer(w, v)
  BY <1>1, <1>2, NewerIs
<1> QED
  BY <1>3 DEF v, w

LEMMA OrderedRecords ==
    ASSUME NEW n \in Nodes, NEW s, NEW ts \in Nat, Ordered(n, s, ts), NEW d \in Docs,
           NEW op \in Ops, NEW t, Records(s, t, n, d, op, ts)
    PROVE  Ordered(n, t, ts)
<1> DEFINE v == <<ts, n, s.vseq>>
           e == [doc |-> d, op |-> op, version |-> v, source |-> "local", pushed |-> FALSE]
<1>0. Whole(s) /\ Whole(t) /\ Adds(s, t, e) /\ t.vseq = s.vseq + 1 /\ s.vseq \in Nat
  BY FeedIs DEF Records, Adds
<1>1. v[1] = ts /\ v[2] = n /\ v[3] = s.vseq
  OBVIOUS
<1>2. e.doc = d /\ e.version = v /\ e.source = "local"
  OBVIOUS
<1> HIDE DEF v, e
<1>3. /\ Extends(s, t) /\ CurrentSeq(t) \in Seqs(t) /\ Entry(t, CurrentSeq(t)) = e
      /\ CurrentSeq(t) = CurrentSeq(s) + 1 /\ CurrentSeq(s) \in Nat
      /\ \A q \in Seqs(t) : (q \in Seqs(s) /\ q <= CurrentSeq(s)) \/ q = CurrentSeq(t)
      /\ Entries(t, d) # {} /\ \A x : x # d => Quiet(s, t, x)
  BY <1>0, <1>2, AddsOne
<1>4. Own(t) = Own(s) \cup {CurrentSeq(t)} /\ Entry(t, CurrentSeq(t)).version = v
  BY <1>2, <1>3 DEF Own, Extends
<1>5. \A q \in Own(s) : /\ Entry(t, q) = Entry(s, q) /\ q <= CurrentSeq(s) /\ q \in Nat
                        /\ Entry(s, q).version[3] \in Nat /\ Entry(s, q).version[1] \in Nat
  BY <1>0, <1>3, FeedIs, VersionsIn, VersionIs DEF Own, Extends
<1>6. Counters(n, t) /\ Timed(t, ts)
  <2>1. ASSUME NEW q \in Own(s)
        PROVE  /\ Entry(t, q).version[2] = n /\ Entry(t, q).version[3] < t.vseq
               /\ Entry(t, q).version[1] <= ts
               /\ \A p \in Own(t) : p < q =>
                     /\ Entry(t, p).version[3] < Entry(t, q).version[3]
                     /\ Entry(t, p).version[1] <= Entry(t, q).version[1]
    <3>1. Entry(t, q) = Entry(s, q) /\ q < CurrentSeq(t)
      BY <1>3, <1>5
    <3>2. /\ Entry(s, q).version[2] = n /\ Entry(s, q).version[3] < s.vseq
          /\ Entry(s, q).version[1] <= ts
      BY DEF Ordered, Counters, Timed
    <3>3. \A p \in Own(t) : p < q => p \in Own(s)
      BY <1>3, <1>4, <1>5
    <3> QED
      BY <1>0, <1>5, <3>1, <3>2, <3>3 DEF Ordered, Counters, Timed
  <2>2. \A p \in Own(t) : p < CurrentSeq(t) =>
           Entry(t, p).version[3] < v[3] /\ Entry(t, p).version[1] <= v[1]
    BY <1>1, <1>3, <1>4, <1>5 DEF Ordered, Counters, Timed
  <2> QED
    BY <1>0, <1>1, <1>4, <2>1, <2>2 DEF Counters, Timed
<1>7. Resumes(t)
  <2>1. \A q \in Own(t) : (\A p \in Own(t) : p <= q) => q = CurrentSeq(t)
    BY <1>3, <1>4, <1>5
  <2> QED
    BY <1>0, <1>1, <1>4, <2>1 DEF Resumes
<1>8. Mentioned(t)
  BY <1>3 DEF Mentioned, Ordered, Records, Quiet
<1> QED
  BY <1>0, <1>6, <1>7, <1>8 DEF Ordered

LEMMA OrderedTakes ==
    ASSUME NEW n, NEW s, NEW ts, Ordered(n, s, ts), NEW c, NEW t, Takes(s, t, c)
    PROVE  Ordered(n, t, ts) /\ Own(t) = Own(s)
<1> DEFINE e == [doc |-> c.doc, op |-> c.op, version |-> c.version,
                 source |-> "remote", pushed |-> TRUE]
<1>0. Whole(s) /\ Whole(t) /\ Adds(s, t, e) /\ t.vseq = s.vseq
  BY DEF Takes, Adds
<1>1. e.doc = c.doc /\ e.source = "remote"
  OBVIOUS
<1> HIDE DEF e
<1>2. /\ Extends(s, t) /\ Entry(t, CurrentSeq(t)) = e
      /\ \A q \in Seqs(t) : q \in Seqs(s) \/ q = CurrentSeq(t)
      /\ Entries(t, c.doc) # {} /\ \A x : x # c.doc => Quiet(s, t, x)
  BY <1>0, <1>1, AddsOne
<1>3. Own(t) = Own(s) /\ \A q \in Own(s) : Entry(t, q) = Entry(s, q)
  BY <1>1, <1>2 DEF Own, Extends
<1>4. Counters(n, t) /\ Resumes(t) /\ Timed(t, ts)
  BY <1>0, <1>3 DEF Ordered, Counters, Resumes, Timed
<1>5. Mentioned(t)
  BY <1>2 DEF Mentioned, Ordered, Takes, Quiet
<1> QED
  BY <1>0, <1>3, <1>4, <1>5 DEF Ordered

(* t is s with other marks, or other tables. *)
Remains(s, t) ==
    /\ Whole(s) /\ Whole(t) /\ Seqs(t) = Seqs(s) /\ t.docs = s.docs /\ t.vseq = s.vseq
    /\ \A q \in Seqs(s) :
         /\ Entry(t, q).doc = Entry(s, q).doc /\ Entry(t, q).op = Entry(s, q).op
         /\ Entry(t, q).version = Entry(s, q).version
         /\ Entry(t, q).source = Entry(s, q).source

LEMMA MarksRemains ==
    ASSUME NEW s, NEW t, NEW cs, Marks(s, t, cs) PROVE Remains(s, t)
BY DEF Marks, Remains

LEMMA RemainsIs ==
    ASSUME NEW s, NEW t, Remains(s, t)
    PROVE  /\ \A d : /\ Entries(t, d) = Entries(s, d) /\ LastOf(t, d) = LastOf(s, d)
                     /\ CurrentVersion(t, d) = CurrentVersion(s, d)
           /\ \A q \in Seqs(s) : ChangeAt(t, q).state = ChangeAt(s, q).state
           /\ Own(t) = Own(s)
<1>1. \A d : Entries(t, d) = Entries(s, d) /\ LastOf(t, d) = LastOf(s, d)
  <2>1. \A d : Entries(t, d) = Entries(s, d)
    BY DEF Remains, Entries
  <2> QED
    BY <2>1 DEF LastOf
<1>2. ASSUME NEW d
      PROVE  CurrentVersion(t, d) = CurrentVersion(s, d)
  <2>1. CASE Entries(s, d) = {}
    BY <1>1, <2>1 DEF CurrentVersion
  <2>2. CASE Entries(s, d) # {}
    <3>1. /\ LastOf(s, d) \in Seqs(s) /\ CurrentVersion(s, d) = Entry(s, LastOf(s, d)).version
          /\ CurrentVersion(t, d) = Entry(t, LastOf(t, d)).version
      BY <1>1, <2>2, LastIs DEF Remains
    <3> QED
      BY <1>1, <3>1 DEF Remains
  <2> QED
    BY <2>1, <2>2
<1>3. \A q \in Seqs(s) : ChangeAt(t, q).state = ChangeAt(s, q).state
  BY DEF Remains, ChangeAt
<1>4. Own(t) = Own(s)
  BY DEF Remains, Own
<1> QED
  BY <1>1, <1>2, <1>3, <1>4

LEMMA OrderedRemains ==
    ASSUME NEW n, NEW s, NEW ts, Ordered(n, s, ts), NEW t, Remains(s, t)
    PROVE  Ordered(n, t, ts)
<1>1. Own(t) = Own(s) /\ Own(s) \subseteq Seqs(s) /\ \A d : Entries(t, d) = Entries(s, d)
  BY RemainsIs DEF Own
<1>2. \A q \in Own(s) : Entry(t, q).version = Entry(s, q).version
  BY <1>1 DEF Remains
<1> QED
  BY <1>1, <1>2 DEF Ordered, Remains, Counters, Resumes, Timed, Mentioned

LEMMA OrderedLater ==
    ASSUME NEW n, NEW s, NEW ts \in Nat, Ordered(n, s, ts), NEW later \in Nat, ts <= later
    PROVE  Ordered(n, s, later)
<1>1. \A q \in Own(s) : Entry(s, q).version[1] \in Nat
  BY VersionsIn, VersionIs DEF Ordered, Own
<1> QED
  BY <1>1 DEF Ordered, Timed

LEMMA OrderedReopens ==
    ASSUME NEW n, NEW s, NEW ts, Ordered(n, s, ts) PROVE Reopen(s) = s
BY ResumesReopen DEF Ordered

(* A change that arrives, whatever becomes of it.                           *)
LEMMA OrderedApplies ==
    ASSUME NEW n \in Nodes, NEW s, NEW ts \in Nat, Ordered(n, s, ts), NEW c \in Changes,
           NEW resolver
    PROVE  Ordered(n, ApplyRemote(s, n, c, ts, resolver), ts)
<1> DEFINE t == ApplyRemote(s, n, c, ts, resolver)
<1>1. Accepts(s, t, c, resolver) \/ Echoes(s, t, c) \/ Insists(s, t, n, c, ts)
  BY ApplyRemoteIs DEF Ordered, Databases
<1>2. c.doc \in Docs /\ "upsert" \in Ops
  BY DEF Changes, Ops
<1> HIDE DEF t
<1>3. Ordered(n, t, ts)
  BY <1>1, <1>2, OrderedTakes, OrderedRecords DEF Accepts, Echoes, Insists
<1> QED
  BY <1>3 DEF t

LEMMA OrderedAppliesAll ==
    ASSUME NEW n \in Nodes, NEW s, NEW ts \in Nat, Ordered(n, s, ts),
           NEW cs \in Seq(Changes), NEW resolver
    PROVE  /\ Ordered(n, ApplyAll(s, n, cs, ts, resolver), ts)
           /\ Grows(s, ApplyAll(s, n, cs, ts, resolver))
<1> DEFINE R == {p \in Nat \X Stores : Ordered(n, p[2], ts)}
<1>0. s \in Stores /\ n \in Databases
  BY DEF Ordered, Whole, Databases
<1>1. <<0, s>> \in R
  BY <1>0
<1>2. ASSUME NEW k \in 1..Len(cs), NEW t \in Stores, <<k - 1, t>> \in R
      PROVE  <<k, ApplyRemote(t, n, cs[k], ts, resolver)>> \in R
  <2> DEFINE u == ApplyRemote(t, n, cs[k], ts, resolver)
  <2>1. Len(cs) \in Nat /\ cs[k] \in Changes
    BY LenProperties, ElementOfSeq
  <2>2. Ordered(n, u, ts)
    BY <1>2, <2>1, OrderedApplies
  <2> HIDE DEF u
  <2>3. u \in Stores /\ k \in Nat
    BY <2>1, <2>2 DEF Ordered, Whole
  <2> QED
    BY <2>2, <2>3 DEF u
<1> HIDE DEF R
<1>3. <<Len(cs), ApplyAll(s, n, cs, ts, resolver)>> \in R
  BY <1>0, <1>1, <1>2, ApplyAllReaches
<1>4. Ordered(n, ApplyAll(s, n, cs, ts, resolver), ts)
  BY <1>3 DEF R
<1> QED
  BY <1>0, <1>4, ApplyAllGrows

(* A database in which every document is mentioned has nothing to seed.     *)
LEMMA NothingToSeed ==
    ASSUME NEW s, Mentioned(s), NEW n, NEW colls
    PROVE  Tables!Seed(s, n, colls) = s /\ Memory!Seed(s, n, colls) = s
<1>1. SetToSeq({}) = << >>
  <2>1. IsFiniteSet({}) /\ Cardinality({}) = 0
    BY FS_EmptySet
  <2>2. SetToSeq({}) \in Seq({})
    BY <2>1, SetAsSeq
  <2> QED
    BY <2>2, EmptySeq, LenProperties, ElementOfSeq
<1>2. Tables!Seed(s, n, colls) = s
  <2> DEFINE new == {d \in Docs : /\ CollOf[d] \in colls /\ s.docs[d].live
                                  /\ Tables!Entries(s, d) = {}}
             missing == Tables!SetToSeq(new)
             next(j, t) == Tables!RecordLocal(t, n, missing[j], "upsert", 0)
             Rec(g) == g = [j \in 0..Len(missing) |-> IF j = 0 THEN s ELSE next(j, g[j - 1])]
             after == CHOOSE g : Rec(g)
  <2>1. new = {}
    BY TablesStore DEF Mentioned
  <2>2. missing = << >> /\ Len(missing) = 0
    BY <1>1, <2>1, TablesStore, EmptySeq
  <2>3. Tables!Seed(s, n, colls) = after[Len(missing)]
    BY DEF Tables!Seed
  <2> HIDE DEF next, missing
  <2>4. Rec([j \in 0..0 |-> s])
    BY <2>2
  <2>5. Rec(after)
    BY <2>4
  <2> HIDE DEF after
  <2> QED
    BY <2>2, <2>3, <2>5
<1>3. Memory!Seed(s, n, colls) = s
  <2> DEFINE new == {d \in Docs : /\ CollOf[d] \in colls /\ s.docs[d].live
                                  /\ Memory!Entries(s, d) = {}}
             missing == Memory!SetToSeq(new)
             next(j, t) == Memory!RecordLocal(t, n, missing[j], "upsert", 0)
             Rec(g) == g = [j \in 0..Len(missing) |-> IF j = 0 THEN s ELSE next(j, g[j - 1])]
             after == CHOOSE g : Rec(g)
  <2>1. new = {}
    BY MemoryStore DEF Mentioned
  <2>2. missing = << >> /\ Len(missing) = 0
    BY <1>1, <2>1, MemoryStore, EmptySeq
  <2>3. Memory!Seed(s, n, colls) = after[Len(missing)]
    BY DEF Memory!Seed
  <2> HIDE DEF next, missing
  <2>4. Rec([j \in 0..0 |-> s])
    BY <2>2
  <2>5. Rec(after)
    BY <2>4
  <2> HIDE DEF after
  <2> QED
    BY <2>2, <2>3, <2>5
<1> QED
  BY <1>2, <1>3

-----------------------------------------------------------------------------
(* Tables.  All that is pushed is the writer's, and pushed in the order it  *)
(* was written.                                                             *)
PushedFirst(s) ==
    \A p, q \in Seqs(s) :
       p < q /\ Entry(s, p).doc = Entry(s, q).doc /\ Entry(s, q).pushed => Entry(s, p).pushed

Authored(s, ts) ==
    Ordered(TableWriter, s, ts) /\ Own(s) = Seqs(s) /\ PushedFirst(s)

(* A row is the writer's last change of its document, or an older one.      *)
RowFine(s, r, d) ==
    \/ r = Tables!NoRow
    \/ \E q \in Entries(s, d) : /\ r.version = Entry(s, q).version
                                /\ q = LastOf(s, d) => r.state = ChangeAt(s, q).state

(* A change to send is no older than the row it replaces. *)
SendFine(s, r, c) ==
    /\ Stands(s, c)
    /\ c.seq = LastOf(s, c.doc) => c.state = ChangeAt(s, c.seq).state
    /\ \/ r = Tables!NoRow \/ Newer(c.version, r.version)
       \/ r = [version |-> c.version, state |-> c.state]

PullFine(s, c) == \E q \in Entries(s, c.doc) : c.version = Entry(s, q).version

WriterFine(s, ts, rs, box, out) ==
    /\ Authored(s, ts)
    /\ \A d \in Docs : RowFine(s, rs[d], d)
    /\ \A i \in 1..Len(box) : PullFine(s, box[i])
    /\ \A i \in 1..Len(out) : SendFine(s, rs[out[i].doc], out[i])
    /\ Distinct(out)

(* A reader has no entries of its own, and none that is newer than the row. *)
Readable(s, rs) ==
    /\ Own(s) = {}
    /\ \A d \in Docs : Entries(s, d) # {} =>
          rs[d].version \in Versions /\ AtMost(CurrentVersion(s, d), rs[d].version)

Reads(s, rs, c) ==
    /\ rs[c.doc].version \in Versions /\ AtMost(c.version, rs[c.doc].version)
    /\ Entries(s, c.doc) # {} => AtMost(CurrentVersion(s, c.doc), c.version)

ReaderFine(n, s, ts, rs, box, out) ==
    /\ Ordered(n, s, ts) /\ Readable(s, rs)
    /\ \A i \in 1..Len(box) : Reads(s, rs, box[i])
    /\ \A i, j \in 1..Len(box) : box[i].doc = box[j].doc => box[i].version = box[j].version
    /\ out = << >>

LEMMA WriterRecords ==
    ASSUME NEW s, NEW ts \in Nat, NEW rs, NEW box \in Seq(Changes), NEW out \in Seq(Changes),
           WriterFine(s, ts, rs, box, out),
           NEW d \in Docs, NEW op \in Ops, NEW t, Records(s, t, TableWriter, d, op, ts)
    PROVE  WriterFine(t, ts, rs, box, out)
<1> DEFINE e == [doc |-> d, op |-> op, version |-> <<ts, TableWriter, s.vseq>>,
                 source |-> "local", pushed |-> FALSE]
<1>0. Whole(s) /\ Whole(t) /\ Adds(s, t, e)
  BY DEF Records, Adds
<1>1. e.doc = d /\ e.source = "local" /\ e.pushed = FALSE
  OBVIOUS
<1> HIDE DEF e
<1>2. /\ Extends(s, t) /\ Entry(t, CurrentSeq(t)) = e
      /\ CurrentSeq(t) \in Seqs(t) /\ CurrentSeq(t) = CurrentSeq(s) + 1 /\ CurrentSeq(s) \in Nat
      /\ \A q \in Seqs(t) : (q \in Seqs(s) /\ q <= CurrentSeq(s)) \/ q = CurrentSeq(t)
      /\ LastOf(t, d) = CurrentSeq(t) /\ \A x : x # d => Quiet(s, t, x)
  BY <1>0, <1>1, AddsOne
<1>3. \A q \in Seqs(s) : /\ q \in Seqs(t) /\ Entry(t, q) = Entry(s, q)
                         /\ q \in Nat /\ q # CurrentSeq(t) /\ q <= CurrentSeq(s)
  <2>1. Seqs(s) = 1..Len(s.feed) /\ CurrentSeq(s) = Len(s.feed) /\ Len(s.feed) \in Nat
    BY <1>0, FeedIs
  <2> QED
    BY <1>2, <2>1 DEF Extends
<1>4. Authored(t, ts)
  <2>1. TableWriter \in Nodes
    BY PartsAssumption
  <2>2. Ordered(TableWriter, t, ts)
    BY <2>1, OrderedRecords DEF WriterFine, Authored
  <2>3. Own(t) = Seqs(t)
    <3>1. \A q \in Seqs(s) : Entry(s, q).source = "local"
      BY DEF WriterFine, Authored, Own
    <3> QED
      BY <1>1, <1>2, <1>3, <3>1 DEF Own
  <2>4. PushedFirst(t)
    <3> SUFFICES ASSUME NEW p \in Seqs(t), NEW q \in Seqs(t), p < q,
                        Entry(t, p).doc = Entry(t, q).doc, Entry(t, q).pushed
                 PROVE  Entry(t, p).pushed
      BY DEF PushedFirst
    <3>1. q \in Seqs(s)
      BY <1>1, <1>2
    <3>2. p \in Seqs(s)
      BY <1>2, <1>3, <3>1
    <3> QED
      BY <1>3, <3>1, <3>2 DEF WriterFine, Authored, PushedFirst
  <2> QED
    BY <2>2, <2>3, <2>4 DEF Authored
<1>5. ASSUME NEW x \in Docs, NEW q \in Entries(s, x)
      PROVE  /\ q \in Entries(t, x) /\ Entry(t, q) = Entry(s, q)
             /\ q = LastOf(t, x) => /\ q = LastOf(s, x)
                                    /\ ChangeAt(t, q).state = ChangeAt(s, q).state
  <2>1. q \in Seqs(s) /\ Entry(s, q).doc = x
    BY DEF Entries
  <2>2. q \in Entries(t, x) /\ Entry(t, q) = Entry(s, q)
    BY <1>3, <2>1 DEF Entries
  <2>3. CASE x = d
    BY <1>2, <1>3, <2>1, <2>2, <2>3
  <2>4. CASE x # d
    <3>1. LastOf(t, x) = LastOf(s, x) /\ t.docs[x] = s.docs[x]
      BY <1>2, <2>4 DEF Quiet, Records
    <3> QED
      BY <2>1, <2>2, <3>1 DEF ChangeAt
  <2> QED
    BY <2>3, <2>4
<1>6. \A x \in Docs : RowFine(t, rs[x], x)
  BY <1>5 DEF WriterFine, RowFine
<1>7. ASSUME NEW i \in 1..Len(box)
      PROVE  PullFine(t, box[i])
  <2>1. box[i].doc \in Docs /\ PullFine(s, box[i])
    BY ChangeIn DEF WriterFine
  <2> QED
    BY <1>5, <2>1 DEF PullFine
<1>8. ASSUME NEW i \in 1..Len(out)
      PROVE  SendFine(t, rs[out[i].doc], out[i])
  <2>1. out[i].doc \in Docs /\ SendFine(s, rs[out[i].doc], out[i])
    BY ChangeIn DEF WriterFine
  <2>2. out[i].seq \in Entries(s, out[i].doc)
    BY <2>1 DEF SendFine, Stands
  <2>3. Stands(t, out[i])
    BY <1>5, <2>1, <2>2 DEF SendFine, Stands
  <2>4. out[i].seq = LastOf(t, out[i].doc) => out[i].state = ChangeAt(t, out[i].seq).state
    BY <1>5, <2>1, <2>2 DEF SendFine
  <2> QED
    BY <2>1, <2>3, <2>4 DEF SendFine
<1> QED
  BY <1>4, <1>6, <1>7, <1>8 DEF WriterFine

LEMMA WriterRemains ==
    ASSUME NEW s, NEW ts, NEW rs, NEW box, NEW out, WriterFine(s, ts, rs, box, out),
           NEW t, Remains(s, t), PushedFirst(t)
    PROVE  WriterFine(t, ts, rs, box, out)
<1>1. /\ \A d : Entries(t, d) = Entries(s, d) /\ LastOf(t, d) = LastOf(s, d)
      /\ \A q \in Seqs(s) : ChangeAt(t, q).state = ChangeAt(s, q).state
      /\ Own(t) = Own(s) /\ Seqs(t) = Seqs(s)
  BY RemainsIs DEF Remains
<1>2. Authored(t, ts)
  BY <1>1, OrderedRemains DEF WriterFine, Authored
<1>3. \A d : \A q \in Entries(s, d) :
         /\ q \in Seqs(s) /\ Entry(t, q).version = Entry(s, q).version
         /\ Entry(t, q).source = Entry(s, q).source
         /\ ChangeAt(t, q).state = ChangeAt(s, q).state
  BY <1>1 DEF Remains, Entries
<1>4. \A d \in Docs : RowFine(t, rs[d], d)
  BY <1>1, <1>3 DEF WriterFine, RowFine
<1>5. \A i \in 1..Len(box) : PullFine(t, box[i])
  BY <1>1, <1>3 DEF WriterFine, PullFine
<1>6. \A i \in 1..Len(out) : SendFine(t, rs[out[i].doc], out[i])
  BY <1>1, <1>3 DEF WriterFine, SendFine, Stands
<1> QED
  BY <1>2, <1>4, <1>5, <1>6 DEF WriterFine

(* What the writer pulls is its own: an echo, or what it has written over   *)
(* and records again.                                                       *)
LEMMA WriterApplies ==
    ASSUME NEW s, NEW ts \in Nat, NEW rs, NEW box \in Seq(Changes), NEW out \in Seq(Changes),
           WriterFine(s, ts, rs, box, out), NEW i \in 1..Len(box)
    PROVE  WriterFine(ApplyRemote(s, TableWriter, box[i], ts, "lww"), ts, rs, box, out)
<1> DEFINE c == box[i]
           t == ApplyRemote(s, TableWriter, c, ts, "lww")
           l == LastOf(s, c.doc)
<1>1. c \in Changes /\ c.doc \in Docs /\ TableWriter \in Nodes /\ Whole(s) /\ "upsert" \in Ops
  BY ChangeIn, PartsAssumption DEF WriterFine, Authored, Ordered, Ops
<1>2. PICK q \in Entries(s, c.doc) : c.version = Entry(s, q).version
  BY DEF WriterFine, PullFine
<1>3. /\ CurrentVersion(s, c.doc) = Entry(s, l).version /\ q <= l /\ l \in Nat
      /\ l \in Seqs(s) /\ q \in Seqs(s) /\ q \in Nat
      /\ CurrentVersion(s, c.doc) \in Versions /\ c.version \in Versions
  <2>1. l \in Seqs(s) /\ q \in Seqs(s) /\ q <= l /\ l \in Nat
        /\ CurrentVersion(s, c.doc) = Entry(s, l).version
        /\ CurrentVersion(s, c.doc) \in Versions
    BY <1>1, <1>2, LastIs
  <2> HIDE DEF c, l
  <2> QED
    BY <1>1, <1>2, <2>1, VersionsIn, FeedIs
<1>4. ~Newer(c.version, CurrentVersion(s, c.doc))
  <2>1. CASE q = l
    <3>1. c.version = CurrentVersion(s, c.doc)
      BY <1>2, <1>3, <2>1
    <3> HIDE DEF c, l
    <3> QED
      BY <1>3, <3>1, NewerIs
  <2>2. CASE q # l
    <3>1. q < l /\ q \in Own(s) /\ l \in Own(s)
      BY <1>3, <2>2 DEF WriterFine, Authored
    <3>2. Newer(CurrentVersion(s, c.doc), c.version)
      BY <1>2, <1>3, <3>1, OwnInOrder DEF WriterFine, Authored
    <3> HIDE DEF c, l
    <3> QED
      BY <1>3, <3>2, NewerOn DEF AtMost
  <2> QED
    BY <2>1, <2>2
<1>5. Accepts(s, t, c, "lww") \/ Echoes(s, t, c) \/ Insists(s, t, TableWriter, c, ts)
  BY <1>1, ApplyRemoteIs DEF Databases
<1> HIDE DEF t, c, l
<1>6. ~Accepts(s, t, c, "lww")
  BY <1>2, <1>4 DEF Accepts, RemoteWins
<1>7. WriterFine(t, ts, rs, box, out)
  BY <1>1, <1>5, <1>6, WriterRecords DEF Echoes, Insists
<1> QED
  BY <1>7 DEF t, c

LEMMA WriterAppliesAll ==
    ASSUME NEW s, NEW ts \in Nat, NEW rs, NEW box \in Seq(Changes), NEW out \in Seq(Changes),
           WriterFine(s, ts, rs, box, out), NEW k \in 0..Len(box)
    PROVE  LET t == ApplyAll(s, TableWriter, SubSeq(box, 1, k), ts, "lww")
           IN WriterFine(t, ts, rs, box, out) /\ Grows(s, t)
<1> DEFINE cs == SubSeq(box, 1, k)
           R == {p \in Nat \X Stores : WriterFine(p[2], ts, rs, box, out)}
           u == ApplyAll(s, TableWriter, cs, ts, "lww")
<1>0. s \in Stores /\ TableWriter \in Databases
  BY PartsAssumption DEF WriterFine, Authored, Ordered, Whole, Databases
<1>1. /\ cs \in Seq(Changes) /\ Len(cs) = k /\ k \in Nat
      /\ \A i \in 1..k : i \in 1..Len(box) /\ cs[i] = box[i]
  BY PrefixIs
<1> HIDE DEF cs
<1>2. <<0, s>> \in R
  BY <1>0
<1>3. ASSUME NEW j \in 1..Len(cs), NEW t \in Stores, <<j - 1, t>> \in R
      PROVE  <<j, ApplyRemote(t, TableWriter, cs[j], ts, "lww")>> \in R
  <2>1. j \in 1..Len(box) /\ cs[j] = box[j] /\ WriterFine(t, ts, rs, box, out) /\ j \in Nat
    BY <1>1, <1>3
  <2>2. WriterFine(ApplyRemote(t, TableWriter, cs[j], ts, "lww"), ts, rs, box, out)
    BY <2>1, WriterApplies
  <2> QED
    BY <2>1, <2>2 DEF WriterFine, Authored, Ordered, Whole
<1> HIDE DEF R
<1>4. <<Len(cs), u>> \in R
  BY <1>0, <1>1, <1>2, <1>3, ApplyAllReaches
<1>5. Grows(s, u)
  BY <1>0, <1>1, ApplyAllGrows
<1>6. WriterFine(u, ts, rs, box, out)
  BY <1>4 DEF R
<1> QED
  BY <1>5, <1>6 DEF cs

LEMMA ReaderApplies ==
    ASSUME NEW n \in Nodes, NEW s, NEW ts \in Nat, NEW rs, NEW box \in Seq(Changes), NEW out,
           ReaderFine(n, s, ts, rs, box, out), NEW i \in 1..Len(box)
    PROVE  ReaderFine(n, ApplyRemote(s, n, box[i], ts, "lww"), ts, rs, box, out)
<1> DEFINE c == box[i]
           t == ApplyRemote(s, n, c, ts, "lww")
<1>1. /\ c \in Changes /\ c.doc \in Docs /\ c.version \in Versions
      /\ Whole(s) /\ Reads(s, rs, c)
  BY ChangeIn DEF ReaderFine, Ordered
<1>2. t = s \/ Takes(s, t, c)
  <2> DEFINE local == CurrentVersion(s, c.doc)
  <2>1. t = IF local = NoVersion THEN Apply(s, c)
            ELSE IF c.version = local THEN s
            ELSE IF RemoteWins(c.version, local, "lww") THEN Apply(s, c)
            ELSE RecordLocal(s, n, c.doc, "upsert", ts)
    BY DEF ApplyRemote
  <2>2. Takes(s, Apply(s, c), c)
    BY <1>1, ApplyTakes
  <2>3. local # NoVersion => Entries(s, c.doc) # {}
    BY <1>1, LastIs
  <2>4. local # NoVersion /\ c.version # local => RemoteWins(c.version, local, "lww")
    BY <1>1, <2>3 DEF Reads, AtMost, RemoteWins
  <2> HIDE DEF t, c, local
  <2> QED
    BY <2>1, <2>2, <2>4
<1>3. CASE t = s
  BY <1>3
<1>4. CASE Takes(s, t, c)
  <2> DEFINE e == [doc |-> c.doc, op |-> c.op, version |-> c.version,
                   source |-> "remote", pushed |-> TRUE]
  <2>1. Adds(s, t, e)
    BY <1>4 DEF Takes
  <2>2. e.doc = c.doc /\ e.version = c.version
    OBVIOUS
  <2> HIDE DEF e, t, c
  <2>3. /\ CurrentVersion(t, c.doc) = c.version
        /\ \A x : x # c.doc => Quiet(s, t, x)
    BY <2>1, <2>2, AddsOne
  <2>4. Ordered(n, t, ts) /\ Own(t) = {}
    BY <1>4, OrderedTakes DEF ReaderFine, Readable
  <2>5. Readable(t, rs)
    <3>1. ASSUME NEW d \in Docs, Entries(t, d) # {}
          PROVE  rs[d].version \in Versions /\ AtMost(CurrentVersion(t, d), rs[d].version)
      <4>1. CASE d = c.doc
        BY <1>1, <2>3, <4>1 DEF Reads
      <4>2. CASE d # c.doc
        BY <2>3, <3>1, <4>2 DEF Quiet, ReaderFine, Readable
      <4> QED
        BY <4>1, <4>2
    <3> QED
      BY <2>4, <3>1 DEF Readable
  <2>6. ASSUME NEW j \in 1..Len(box)
        PROVE  Reads(t, rs, box[j])
    <3>1. Reads(s, rs, box[j]) /\ (box[j].doc = c.doc => box[j].version = c.version)
      BY DEF ReaderFine, c
    <3>2. CASE box[j].doc = c.doc
      BY <2>3, <3>1, <3>2 DEF Reads, AtMost
    <3>3. CASE box[j].doc # c.doc
      BY <2>3, <3>1, <3>3 DEF Reads, Quiet
    <3> QED
      BY <3>2, <3>3
  <2>7. ReaderFine(n, t, ts, rs, box, out)
    BY <2>4, <2>5, <2>6 DEF ReaderFine
  <2> QED
    BY <2>7 DEF t, c
<1> QED
  BY <1>2, <1>3, <1>4

LEMMA ReaderAppliesAll ==
    ASSUME NEW n \in Nodes, NEW s, NEW ts \in Nat, NEW rs, NEW box \in Seq(Changes), NEW out,
           ReaderFine(n, s, ts, rs, box, out), NEW k \in 0..Len(box)
    PROVE  LET t == ApplyAll(s, n, SubSeq(box, 1, k), ts, "lww")
           IN ReaderFine(n, t, ts, rs, box, out) /\ Grows(s, t)
<1> DEFINE cs == SubSeq(box, 1, k)
           R == {p \in Nat \X Stores : ReaderFine(n, p[2], ts, rs, box, out)}
           u == ApplyAll(s, n, cs, ts, "lww")
<1>0. s \in Stores /\ n \in Databases
  BY DEF ReaderFine, Ordered, Whole, Databases
<1>1. /\ cs \in Seq(Changes) /\ Len(cs) = k /\ k \in Nat
      /\ \A i \in 1..k : i \in 1..Len(box) /\ cs[i] = box[i]
  BY PrefixIs
<1> HIDE DEF cs
<1>2. <<0, s>> \in R
  BY <1>0
<1>3. ASSUME NEW j \in 1..Len(cs), NEW t \in Stores, <<j - 1, t>> \in R
      PROVE  <<j, ApplyRemote(t, n, cs[j], ts, "lww")>> \in R
  <2>1. j \in 1..Len(box) /\ cs[j] = box[j] /\ ReaderFine(n, t, ts, rs, box, out) /\ j \in Nat
    BY <1>1, <1>3
  <2>2. ReaderFine(n, ApplyRemote(t, n, cs[j], ts, "lww"), ts, rs, box, out)
    BY <2>1, ReaderApplies
  <2> QED
    BY <2>1, <2>2 DEF ReaderFine, Ordered, Whole
<1> HIDE DEF R
<1>4. <<Len(cs), u>> \in R
  BY <1>0, <1>1, <1>2, <1>3, ApplyAllReaches
<1>5. Grows(s, u)
  BY <1>0, <1>1, ApplyAllGrows
<1>6. ReaderFine(n, u, ts, rs, box, out)
  BY <1>4 DEF R
<1> QED
  BY <1>5, <1>6 DEF cs

-----------------------------------------------------------------------------
(* The writer, or a reader. *)
TableFine(n, s, ts, rs, box, out) ==
    IF n = TableWriter THEN WriterFine(s, ts, rs, box, out)
    ELSE ReaderFine(n, s, ts, rs, box, out)

LEMMA TableOrdered ==
    ASSUME NEW n, NEW s, NEW ts, NEW rs, NEW box, NEW out, TableFine(n, s, ts, rs, box, out)
    PROVE  Ordered(n, s, ts) /\ Whole(s) /\ s \in Stores
BY DEF TableFine, WriterFine, ReaderFine, Authored, Ordered, Whole

LEMMA TableApplies ==
    ASSUME NEW n \in Nodes, NEW s, NEW ts \in Nat, NEW rs, NEW box \in Seq(Changes),
           NEW out \in Seq(Changes), TableFine(n, s, ts, rs, box, out), NEW k \in 0..Len(box)
    PROVE  LET t == ApplyAll(s, n, SubSeq(box, 1, k), ts, "lww")
           IN TableFine(n, t, ts, rs, box, out) /\ Grows(s, t)
BY WriterAppliesAll, ReaderAppliesAll DEF TableFine

LEMMA TableRemains ==
    ASSUME NEW n, NEW s, NEW ts, NEW rs, NEW box, NEW out, TableFine(n, s, ts, rs, box, out),
           NEW t, Remains(s, t), PushedFirst(s) => PushedFirst(t)
    PROVE  TableFine(n, t, ts, rs, box, out)
<1>1. CASE n = TableWriter
  BY <1>1, WriterRemains DEF TableFine, WriterFine, Authored
<1>2. CASE n # TableWriter
  <2>1. /\ \A d : Entries(t, d) = Entries(s, d) /\ CurrentVersion(t, d) = CurrentVersion(s, d)
        /\ Own(t) = Own(s)
    BY RemainsIs
  <2>2. Ordered(n, t, ts)
    BY <1>2, OrderedRemains DEF TableFine, ReaderFine
  <2> QED
    BY <1>2, <2>1, <2>2 DEF TableFine, ReaderFine, Readable, Reads
<1> QED
  BY <1>1, <1>2

LEMMA TableLater ==
    ASSUME NEW n, NEW s, NEW ts \in Nat, NEW rs, NEW box, NEW out,
           TableFine(n, s, ts, rs, box, out), NEW later \in Nat, ts <= later
    PROVE  TableFine(n, s, later, rs, box, out)
<1>1. Ordered(n, s, later)
  BY TableOrdered, OrderedLater
<1> QED
  BY <1>1 DEF TableFine, WriterFine, ReaderFine, Authored

LEMMA TableEmptied ==
    ASSUME NEW n, NEW s, NEW ts, NEW rs, NEW box, NEW out, TableFine(n, s, ts, rs, box, out)
    PROVE  /\ TableFine(n, s, ts, rs, << >>, out) /\ TableFine(n, s, ts, rs, box, << >>)
           /\ TableFine(n, s, ts, rs, << >>, << >>)
<1>1. Len(<< >>) = 0 /\ \A i : ~(i \in 1..0)
  BY EmptySeq
<1> QED
  BY <1>1 DEF TableFine, WriterFine, ReaderFine, Distinct

LEMMA TailIs ==
    ASSUME NEW cs \in Seq(Changes), cs # << >>
    PROVE  /\ Len(cs) \in Nat /\ 1 \in 1..Len(cs) /\ Head(cs) = cs[1]
           /\ Tail(cs) \in Seq(Changes) /\ Len(Tail(cs)) \in Nat
           /\ \A i \in 1..Len(Tail(cs)) : i + 1 \in 1..Len(cs) /\ i # 0 /\ Tail(cs)[i] = cs[i + 1]
<1>1. Len(cs) \in Nat /\ Len(cs) # 0 /\ Head(cs) = cs[1]
  BY LenProperties, EmptySeq, HeadTailProperties
<1>2. /\ Tail(cs) \in Seq(Changes) /\ Len(Tail(cs)) = Len(cs) - 1
      /\ \A i \in 1..Len(Tail(cs)) : Tail(cs)[i] = cs[i + 1]
  BY HeadTailProperties
<1> QED
  BY <1>1, <1>2

LEMMA TableTail ==
    ASSUME NEW n, NEW s, NEW ts, NEW rs, NEW box, NEW out \in Seq(Changes), out # << >>,
           TableFine(n, s, ts, rs, box, out)
    PROVE  TableFine(n, s, ts, rs, box, Tail(out)) /\ n = TableWriter
<1>1. n = TableWriter /\ WriterFine(s, ts, rs, box, out)
  BY DEF TableFine, ReaderFine
<1>2. \A i \in 1..Len(Tail(out)) : i + 1 \in 1..Len(out) /\ Tail(out)[i] = out[i + 1] /\ i \in Int
  BY TailIs
<1>3. \A i \in 1..Len(Tail(out)) : SendFine(s, rs[Tail(out)[i].doc], Tail(out)[i])
  BY <1>1, <1>2 DEF WriterFine
<1>4. Distinct(Tail(out))
  BY <1>1, <1>2 DEF WriterFine, Distinct
<1> QED
  BY <1>1, <1>3, <1>4 DEF TableFine, WriterFine

-----------------------------------------------------------------------------
TableRows == {Tables!NoRow} \cup [version : Versions, state : States]

TablesTyped ==
    /\ store \in [Nodes -> Stores]
    /\ DOMAIN inbox = Nodes /\ \A n \in Nodes : inbox[n].changes \in Seq(Changes)
    /\ outbox \in [Nodes -> Seq(Changes)] /\ acked \in [Nodes -> Seq(Changes)]
    /\ rows \in [Docs -> TableRows] /\ delivered \in Delivered /\ now \in Nat

TablesFine ==
    \A n \in Nodes :
       TableFine(n, store[n], Clock(n), rows, inbox[n].changes, outbox[n])

TInv == TablesTyped /\ AckedArrived /\ AckedIsDelivered /\ TablesFine

LEMMA MarksStay ==
    ASSUME store \in [Nodes -> Stores], store' \in [Nodes -> Stores],
           delivered \in Delivered, delivered' \in Delivered, AckedIsDelivered,
           \A m \in Nodes : Keeps(store[m], store'[m]),
           \A m \in Nodes, d \in Docs : delivered[m][d] <= delivered'[m][d]
    PROVE  AckedIsDelivered'
<1> SUFFICES ASSUME NEW n \in Nodes, NEW q \in Seqs(store'[n]),
                    Entry(store'[n], q).source = "local",
                    Entry(store'[n], q).pushed
             PROVE  q <= delivered'[n][Entry(store'[n], q).doc]
  BY DEF AckedIsDelivered
<1> DEFINE e == Entry(store'[n], q)
<1>1. q \in Seqs(store[n]) /\ Entry(store[n], q) = e
  BY DEF Keeps
<1>2. q \in Nat /\ e.doc \in Docs
  <2>1. store[n] \in Stores /\ q \in Nat /\ q - store[n].base \in 1..Len(store[n].feed)
    BY <1>1, StoreFields DEF Seqs
  <2>2. e \in FeedEntries
    BY <1>1, <2>1, StoreFields DEF Entry
  <2> HIDE DEF e
  <2> QED
    BY <2>1, <2>2 DEF FeedEntries
<1>3. q <= delivered[n][e.doc]
  BY <1>1 DEF AckedIsDelivered
<1>4. delivered[n][e.doc] \in Nat /\ delivered'[n][e.doc] \in Nat
      /\ delivered[n][e.doc] <= delivered'[n][e.doc]
  BY <1>2 DEF Delivered
<1> HIDE DEF e
<1>5. q <= delivered'[n][e.doc]
  BY <1>2, <1>3, <1>4
<1> QED
  BY <1>5 DEF e

(* A step of node n that leaves the tables alone. *)
LEMMA TablesMove ==
    ASSUME TInv, NEW n \in Nodes, store' \in [Nodes -> Stores], DOMAIN inbox' = Nodes,
           inbox'[n].changes \in Seq(Changes), outbox' \in [Nodes -> Seq(Changes)],
           acked' \in [Nodes -> Seq(Changes)], acked'[n] \in {acked[n], << >>},
           \A m \in Nodes \ {n} : /\ store'[m] = store[m] /\ inbox'[m] = inbox[m]
                                  /\ outbox'[m] = outbox[m] /\ acked'[m] = acked[m],
           UNCHANGED <<rows, delivered, now>>, Keeps(store[n], store'[n]),
           TableFine(n, store'[n], Clock(n), rows, inbox'[n].changes, outbox'[n])
    PROVE  TInv'
<1>1. TablesTyped'
  BY DEF TInv, TablesTyped
<1>2. \A m \in Nodes : Keeps(store[m], store'[m])
  BY SameFeedKeeps
<1>3. \A m \in Nodes, d \in Docs : delivered[m][d] <= delivered'[m][d]
  BY DEF TInv, TablesTyped, Delivered
<1>4. AckedIsDelivered'
  BY <1>1, <1>2, <1>3, MarksStay DEF TInv, TablesTyped
<1>5. AckedArrived'
  BY EmptySeq DEF TInv, AckedArrived
<1>6. TablesFine'
  <2>1. \A m : Clock(m)' = Clock(m)
    BY DEF Clock
  <2> QED
    BY <2>1 DEF TInv, TablesFine
<1> QED
  BY <1>1, <1>4, <1>5, <1>6 DEF TInv

-----------------------------------------------------------------------------
(* What pending() reads: a last unpushed entry of each document. *)
LEMMA PendingFrom ==
    ASSUME NEW s, Whole(s), NEW colls, NEW limit \in Nat \ {0}
    PROVE  LET cs == Pending(s, colls, limit)
               Q  == Latest(s, Within(s, Unpushed(s), colls))
           IN /\ cs \in Seq(Changes) /\ Distinct(cs)
              /\ \A i \in 1..Len(cs) : \E q \in Q : cs[i] = ChangeAt(s, q)
<1> DEFINE Q == Latest(s, Within(s, Unpushed(s), colls))
           b == Batch(Q, limit)
           cs == [i \in DOMAIN b |-> ChangeAt(s, b[i])]
<1>1. Pending(s, colls, limit) = cs /\ Pending(s, colls, limit) \in Seq(Changes)
  BY PendingIsChanges DEF Pending, Whole
<1>2. /\ Q \subseteq Seqs(s)
      /\ \A p, q \in Q : Entry(s, p).doc = Entry(s, q).doc => p <= q
  BY DEF Latest, Within, Unpushed
<1> HIDE DEF Q
<1>3. Q \subseteq Nat /\ IsFiniteSet(Q)
  <2>1. Seqs(s) \subseteq Nat /\ IsFiniteSet(Seqs(s))
    BY SeqsFinite DEF Whole
  <2> QED
    BY <1>2, <2>1, FS_Subset
<1>4. b \in Seq(Q) /\ \A i, j \in 1..Len(b) : i < j => b[i] < b[j]
  BY <1>3, BatchIs
<1> HIDE DEF b
<1>5. Len(b) \in Nat /\ DOMAIN b = 1..Len(b) /\ \A i \in 1..Len(b) : b[i] \in Q
  BY <1>4, LenProperties, ElementOfSeq
<1>6. Len(cs) = Len(b) /\ \A i \in 1..Len(b) : cs[i] = ChangeAt(s, b[i])
  <2>1. cs = [i \in 1..Len(b) |-> ChangeAt(s, b[i])]
    BY <1>5
  <2>2. cs \in [1..Len(b) -> {ChangeAt(s, q) : q \in Q}]
    BY <1>5, <2>1
  <2>3. Len(cs) = Len(b)
    BY <1>5, <2>2, FunctionAsSeq
  <2> QED
    BY <1>5, <2>3
<1> HIDE DEF cs
<1>7. ASSUME NEW i \in 1..Len(b), NEW j \in 1..Len(b), cs[i].doc = cs[j].doc
      PROVE  i = j
  <2>1. Entry(s, b[i]).doc = Entry(s, b[j]).doc
    BY <1>6, <1>7, ChangeAtFields
  <2>2. b[i] \in Nat /\ b[j] \in Nat /\ b[i] <= b[j] /\ b[j] <= b[i]
    BY <1>2, <1>3, <1>5, <2>1
  <2>3. ~(b[i] < b[j]) /\ ~(b[j] < b[i]) /\ i \in Nat /\ j \in Nat
    BY <1>5, <2>2
  <2> QED
    BY <1>4, <2>3
<1>8. Distinct(cs)
  BY <1>6, <1>7 DEF Distinct
<1> QED
  BY <1>1, <1>5, <1>6, <1>8 DEF Q

LEMMA TableReads ==
    ASSUME NEW n, NEW s, NEW ts, NEW rs, NEW box, NEW out, TableFine(n, s, ts, rs, box, out),
           \A d \in Docs : rs[d] \in TableRows, NEW colls
    PROVE  LET cs == Pending(s, colls, BatchSize)
           IN cs \in Seq(Changes) /\ TableFine(n, s, ts, rs, box, cs)
<1> DEFINE cs == Pending(s, colls, BatchSize)
           Q == Latest(s, Within(s, Unpushed(s), colls))
<1>0. Whole(s)
  BY TableOrdered
<1>1. /\ cs \in Seq(Changes) /\ Distinct(cs)
      /\ \A i \in 1..Len(cs) : \E q \in Q : cs[i] = ChangeAt(s, q)
  BY <1>0, PendingFrom, EngineAssumption
<1>2. /\ Q \subseteq Unpushed(s)
      /\ \A q \in Q, p \in Unpushed(s) : Entry(s, p).doc = Entry(s, q).doc => p <= q
  BY DEF Latest, Within
<1> HIDE DEF cs, Q
<1>3. CASE n = TableWriter
  <2>1. WriterFine(s, ts, rs, box, out)
    BY <1>3 DEF TableFine
  <2>2. ASSUME NEW i \in 1..Len(cs)
        PROVE  SendFine(s, rs[cs[i].doc], cs[i])
    <3>1. PICK q \in Q : cs[i] = ChangeAt(s, q)
      BY <1>1
    <3> DEFINE c == cs[i]
               r == rs[c.doc]
               l == LastOf(s, c.doc)
    <3>2. c.seq = q /\ c.doc = Entry(s, q).doc /\ c.version = Entry(s, q).version
      BY <3>1, ChangeAtFields
    <3>3. /\ q \in Seqs(s) /\ Entry(s, q).source = "local" /\ ~Entry(s, q).pushed
          /\ c.doc \in Docs /\ q \in Entries(s, c.doc) /\ q \in Nat
      BY <1>0, <1>2, <3>2, VersionsIn, FeedIs DEF Unpushed
    <3>4. /\ l \in Seqs(s) /\ l \in Nat /\ q <= l /\ Entry(s, l).doc = c.doc
          /\ \A p \in Entries(s, c.doc) : p <= l /\ p \in Seqs(s)
      BY <1>0, <3>3, LastIs DEF Entries
    <3>5. q = l
      <4>1. SUFFICES ASSUME q < l PROVE FALSE
        BY <3>3, <3>4
      <4>2. ~Entry(s, l).pushed
        BY <2>1, <3>2, <3>3, <3>4, <4>1 DEF WriterFine, Authored, PushedFirst
      <4>3. l \in Unpushed(s)
        BY <2>1, <3>4, <4>2 DEF WriterFine, Authored, Own, Unpushed
      <4> QED
        BY <1>2, <3>2, <3>3, <3>4, <4>1, <4>3
    <3>6. Stands(s, c)
      BY <3>2, <3>3 DEF Stands
    <3>7. ASSUME r # Tables!NoRow
          PROVE  Newer(c.version, r.version) \/ r = [version |-> c.version, state |-> c.state]
      <4>1. PICK p \in Entries(s, c.doc) :
               /\ r.version = Entry(s, p).version
               /\ p = l => r.state = ChangeAt(s, p).state
        BY <2>1, <3>3, <3>7 DEF WriterFine, RowFine
      <4>2. CASE p = l
        <5>1. r \in [version : Versions, state : States]
          BY <3>3, <3>7 DEF TableRows
        <5>2. r.version = c.version /\ r.state = c.state
          BY <3>1, <3>2, <3>5, <4>1, <4>2
        <5> HIDE DEF r, c
        <5> QED
          BY <5>1, <5>2
      <4>3. CASE p # l
        <5>1. p < q /\ p \in Own(s) /\ q \in Own(s)
          BY <1>0, <2>1, <3>3, <3>4, <3>5, <4>3, FeedIs DEF WriterFine, Authored
        <5> QED
          BY <2>1, <3>2, <4>1, <5>1, OwnInOrder DEF WriterFine, Authored
      <4> QED
        BY <4>2, <4>3
    <3> QED
      BY <3>1, <3>2, <3>6, <3>7 DEF SendFine
  <2> QED
    BY <1>1, <1>3, <2>1, <2>2 DEF TableFine, WriterFine, cs
<1>4. CASE n # TableWriter
  <2>1. Q = {}
    BY <1>2, <1>4 DEF TableFine, ReaderFine, Readable, Own, Unpushed
  <2>2. cs = << >>
    <3>1. Len(cs) \in Nat /\ \A i \in 1..Len(cs) : FALSE
      BY <1>1, <2>1, LenProperties
    <3>2. Len(cs) = 0
      BY <3>1
    <3> QED
      BY <1>1, <3>2, EmptySeq
  <2> QED
    BY <1>1, <1>4, <2>2 DEF TableFine, ReaderFine, cs
<1> QED
  BY <1>3, <1>4

(* markPushed() keeps the order. *)
LEMMA PushedInOrder ==
    ASSUME NEW s, Whole(s), PushedFirst(s), NEW cs \in Seq(Changes), Own(s) = Seqs(s)
    PROVE  PushedFirst(MarkPushed(s, cs))
<1> DEFINE hit(i) == /\ s.feed[i].source = "local"
                     /\ \E k \in DOMAIN cs : /\ cs[k].doc = s.feed[i].doc
                                             /\ s.base + i <= cs[k].seq
           g == [i \in 1..Len(s.feed) |->
                   IF hit(i) THEN [s.feed[i] EXCEPT !.pushed = TRUE] ELSE s.feed[i]]
           t == MarkPushed(s, cs)
<1>1. /\ s \in Stores /\ s.base = 0 /\ Len(s.feed) \in Nat /\ DOMAIN s.feed = 1..Len(s.feed)
      /\ \A i \in 1..Len(s.feed) : s.feed[i] \in FeedEntries
  BY StoreFields DEF Whole
<1>2. t = [s EXCEPT !.feed = g]
  BY <1>1 DEF MarkPushed
<1>3. Marks(s, t, cs)
  BY MarkPushedIs
<1> HIDE DEF hit
<1>4. \A i \in 1..Len(s.feed) : g[i].pushed <=> s.feed[i].pushed \/ hit(i)
  BY <1>1 DEF FeedEntries
<1> HIDE DEF g, t
<1>5. /\ Seqs(t) = Seqs(s) /\ Seqs(s) = 1..Len(s.feed)
      /\ \A q \in Seqs(s) : Entry(t, q) = g[q] /\ Entry(s, q) = s.feed[q]
  <2>1. t.feed = g
    BY <1>1, <1>2 DEF Stores
  <2> QED
    BY <1>3, <2>1, FeedIs DEF Marks
<1>6. ASSUME NEW p \in Seqs(t), NEW q \in Seqs(t), p < q, Entry(t, p).doc = Entry(t, q).doc,
             Entry(t, q).pushed
      PROVE  Entry(t, p).pushed
  <2>1. /\ Entry(s, p).doc = Entry(s, q).doc /\ p \in Seqs(s) /\ q \in Seqs(s)
        /\ Entry(s, p).source = "local"
    BY <1>3, <1>5, <1>6 DEF Marks, Own
  <2>2. Entry(s, q).pushed \/ hit(q)
    BY <1>4, <1>5, <1>6
  <2>3. CASE Entry(s, q).pushed
    BY <1>4, <1>5, <1>6, <2>1, <2>3 DEF PushedFirst
  <2>4. CASE hit(q)
    <3>1. PICK k \in DOMAIN cs : cs[k].doc = s.feed[q].doc /\ s.base + q <= cs[k].seq
      BY <2>4 DEF hit
    <3>2. k \in 1..Len(cs) /\ cs[k].seq \in Nat
      BY LenProperties, ChangeIn
    <3>3. s.base + p <= cs[k].seq
      BY <1>1, <1>5, <1>6, <2>1, <3>1, <3>2
    <3>4. hit(p)
      BY <1>5, <2>1, <3>1, <3>3 DEF hit
    <3> QED
      BY <1>4, <1>5, <2>1, <3>4
  <2> QED
    BY <2>2, <2>3, <2>4
<1>7. PushedFirst(t)
  BY <1>6 DEF PushedFirst
<1> QED
  BY <1>7 DEF t

-----------------------------------------------------------------------------
(* The steps of a node between two calls of its adapter. *)
LEMMA TablesHere ==
    ASSUME TInv, NEW n \in Nodes
    PROVE  /\ store[n] \in Stores /\ Whole(store[n]) /\ Ordered(n, store[n], Clock(n))
           /\ Clock(n) \in Nat /\ Tables!Clock(n) = Clock(n) /\ n \in Databases
           /\ inbox[n].changes \in Seq(Changes) /\ Len(inbox[n].changes) \in Nat
           /\ outbox[n] \in Seq(Changes) /\ acked[n] \in Seq(Changes)
           /\ TableFine(n, store[n], Clock(n), rows, inbox[n].changes, outbox[n])
<1>1. TableFine(n, store[n], Clock(n), rows, inbox[n].changes, outbox[n])
  BY DEF TInv, TablesFine
<1>2. n \in Databases /\ Clock(n) \in Nat
  BY ClockTicks DEF Databases, TInv, TablesTyped
<1>3. Tables!Clock(n) = Clock(n)
  BY DEF Tables!Clock, Clock
<1>4. /\ inbox[n].changes \in Seq(Changes) /\ Len(inbox[n].changes) \in Nat
      /\ outbox[n] \in Seq(Changes) /\ acked[n] \in Seq(Changes) /\ store[n] \in Stores
  BY LenProperties DEF TInv, TablesTyped
<1> QED
  BY <1>1, <1>2, <1>3, <1>4, TableOrdered

(* A step of node n that changes its database only. *)
LEMMA TableStore ==
    ASSUME TInv, NEW n \in Nodes, NEW t \in Stores, store' = [store EXCEPT ![n] = t],
           UNCHANGED <<inbox, outbox, acked, rows, delivered, now>>, Keeps(store[n], t),
           TableFine(n, t, Clock(n), rows, inbox[n].changes, outbox[n])
    PROVE  TInv'
<1>1. /\ store' \in [Nodes -> Stores] /\ store'[n] = t
      /\ \A m \in Nodes \ {n} : store'[m] = store[m]
  BY DEF TInv, TablesTyped
<1>2. inbox'[n].changes \in Seq(Changes) /\ DOMAIN inbox' = Nodes
      /\ outbox' \in [Nodes -> Seq(Changes)] /\ acked' \in [Nodes -> Seq(Changes)]
  BY DEF TInv, TablesTyped
<1> QED
  BY <1>1, <1>2, TablesMove

LEMMA TablesWrite ==
    ASSUME TInv, NEW n \in Nodes, NEW d \in Docs, NEW op \in {"upsert", "delete"},
           Tables!Write(n, d, op), UNCHANGED <<rows, delivered>>
    PROVE  TInv'
<1> DEFINE t == LocalWrite(store[n], n, d, op, Clock(n))
<1>1. /\ n = TableWriter /\ store' = [store EXCEPT ![n] = t]
      /\ UNCHANGED <<inbox, outbox, acked, now>>
  BY TablesStore, TablesHere DEF Tables!Write, Tables!engine
<1>2. op \in Ops
  BY DEF Ops
<1>3. Records(store[n], t, n, d, op, Clock(n))
  BY <1>2, TablesHere, LocalWriteRecords
<1>4. t \in Stores /\ Keeps(store[n], t)
  BY <1>2, TablesHere, LocalWriteGrows, GrowsIsStore
<1> HIDE DEF t
<1>5. TableFine(n, t, Clock(n), rows, inbox[n].changes, outbox[n])
  <2>1. WriterFine(store[n], Clock(n), rows, inbox[n].changes, outbox[n])
    BY <1>1, TablesHere DEF TableFine
  <2>2. WriterFine(t, Clock(n), rows, inbox[n].changes, outbox[n])
    BY <1>1, <1>2, <1>3, <2>1, TablesHere, WriterRecords
  <2> QED
    BY <1>1, <2>2 DEF TableFine
<1> QED
  BY <1>1, <1>4, <1>5, TableStore

LEMMA TablesOpen ==
    ASSUME TInv, NEW n \in Nodes, NEW c \in Collections,
           Tables!OpenCollection(n, c), UNCHANGED <<rows, delivered>>
    PROVE  TInv'
<1> DEFINE s == store[n]
           t == [s EXCEPT !.colls = s.colls \cup {c}]
<1>1. store' = [store EXCEPT ![n] = t] /\ UNCHANGED <<inbox, outbox, acked, now>>
  BY DEF Tables!OpenCollection, Tables!engine, Tables!limits
<1>2. s \in Stores /\ Whole(s) /\ s.colls \subseteq Collections
  BY TablesHere, StoreFields
<1>3. /\ t \in Stores /\ t.feed = s.feed /\ t.base = s.base /\ t.docs = s.docs
      /\ t.vseq = s.vseq
  BY <1>2 DEF Stores
<1> HIDE DEF s, t
<1>4. Keeps(s, t)
  BY <1>3, SameFeedKeeps
<1>5. Whole(t)
  BY <1>2, <1>3 DEF Whole
<1>6. Seqs(t) = Seqs(s) /\ \A q : Entry(t, q) = Entry(s, q)
  BY <1>3 DEF Seqs, Entry
<1>7. Remains(s, t) /\ (PushedFirst(s) => PushedFirst(t))
  BY <1>2, <1>3, <1>5, <1>6 DEF Remains, PushedFirst
<1>8. TableFine(n, t, Clock(n), rows, inbox[n].changes, outbox[n])
  BY <1>7, TablesHere, TableRemains DEF s
<1> QED
  BY <1>1, <1>3, <1>4, <1>8, TableStore DEF s

(* There is nothing older than the feed: start() leaves the database alone. *)
LEMMA TablesStart ==
    ASSUME TInv, NEW n \in Nodes, Tables!Start(n), UNCHANGED <<rows, delivered>>
    PROVE  TInv'
<1>1. Tables!Seed(store[n], n, Tables!Colls(n)) = store[n]
  BY TablesHere, NothingToSeed DEF Ordered
<1>2. store' = store
  <2>1. store' = IF everPushed[n] THEN store
                 ELSE [store EXCEPT ![n] = Tables!Seed(store[n], n, Tables!Colls(n))]
    BY DEF Tables!Start
  <2>2. [store EXCEPT ![n] = store[n]] = store
    BY DEF TInv, TablesTyped
  <2> QED
    BY <1>1, <2>1, <2>2
<1>3. UNCHANGED <<inbox, outbox, acked, now>>
  BY DEF Tables!Start, Tables!limits
<1>4. store' = [store EXCEPT ![n] = store[n]]
  BY <1>2 DEF TInv, TablesTyped
<1>5. Keeps(store[n], store[n])
  BY SameFeedKeeps
<1> QED
  BY <1>3, <1>4, <1>5, TablesHere, TableStore

LEMMA TablesBegin ==
    ASSUME TInv, NEW n \in Nodes, Tables!BeginRound(n), UNCHANGED <<rows, delivered>>
    PROVE  TInv'
<1>1. store' = [store EXCEPT ![n] = store[n]] /\ UNCHANGED <<inbox, outbox, acked, now>>
  BY DEF Tables!BeginRound, Tables!limits, TInv, TablesTyped
<1>2. Keeps(store[n], store[n])
  BY SameFeedKeeps
<1> QED
  BY <1>1, <1>2, TablesHere, TableStore

(* The inbox of a node is emptied. *)
LEMMA TablesEmptied ==
    ASSUME TInv, NEW n \in Nodes, NEW x, inbox' = [inbox EXCEPT ![n] = [changes |-> << >>, cursor |-> x]]
    PROVE  /\ DOMAIN inbox' = Nodes /\ inbox'[n].changes = << >>
           /\ << >> \in Seq(Changes)
           /\ \A m \in Nodes \ {n} : inbox'[m] = inbox[m]
BY NothingIsChanges DEF TInv, TablesTyped

(* A part of a batch is applied: the round may be given up there. *)
LEMMA TablesPart ==
    ASSUME TInv, NEW n \in Nodes, NEW k \in 0..Len(inbox[n].changes), NEW x,
           store' = [store EXCEPT ![n] = Tables!Applied(n, k)],
           inbox' = [inbox EXCEPT ![n] = [changes |-> << >>, cursor |-> x]],
           \/ UNCHANGED <<outbox, acked>>
           \/ /\ outbox' = [outbox EXCEPT ![n] = << >>]
              /\ acked' = [acked EXCEPT ![n] = << >>],
           UNCHANGED <<rows, delivered, now>>
    PROVE  TInv'
<1> DEFINE s == store[n]
           t == ApplyAll(s, n, SubSeq(inbox[n].changes, 1, k), Clock(n), "lww")
<1>1. store' = [store EXCEPT ![n] = t]
  BY TablesStore, TablesHere DEF Tables!Applied
<1>2. /\ TableFine(n, t, Clock(n), rows, inbox[n].changes, outbox[n])
      /\ Grows(s, t)
  BY TablesHere, TableApplies
<1>3. t \in Stores /\ Keeps(s, t)
  BY <1>2, TablesHere, GrowsIsStore
<1> HIDE DEF t
<1>4. /\ TableFine(n, t, Clock(n), rows, << >>, outbox[n])
      /\ TableFine(n, t, Clock(n), rows, << >>, << >>)
  BY <1>2, TableEmptied
<1>5. /\ store' \in [Nodes -> Stores] /\ store'[n] = t
      /\ \A m \in Nodes \ {n} : store'[m] = store[m]
  BY <1>1, <1>3 DEF TInv, TablesTyped
<1>6. /\ outbox' \in [Nodes -> Seq(Changes)] /\ acked' \in [Nodes -> Seq(Changes)]
      /\ outbox'[n] \in {outbox[n], << >>} /\ acked'[n] \in {acked[n], << >>}
      /\ \A m \in Nodes \ {n} : outbox'[m] = outbox[m] /\ acked'[m] = acked[m]
  BY NothingIsChanges DEF TInv, TablesTyped
<1>7. TableFine(n, store'[n], Clock(n), rows, inbox'[n].changes, outbox'[n])
  BY <1>4, <1>5, <1>6, TablesEmptied
<1>8. Keeps(store[n], store'[n])
  BY <1>3, <1>5
<1> HIDE DEF s
<1> QED
  BY <1>5, <1>6, <1>7, <1>8, TablesEmptied, TablesMove

LEMMA TablesApply ==
    ASSUME TInv, NEW n \in Nodes, Tables!ApplyPulled(n) \/ Tables!ApplyFails(n),
           UNCHANGED <<rows, delivered>>
    PROVE  TInv'
<1>0. Len(inbox[n].changes) \in Nat
  BY TablesHere
<1>1. CASE Tables!ApplyPulled(n)
  <2>1. /\ store' = [store EXCEPT ![n] = Tables!Applied(n, Len(inbox[n].changes))]
        /\ inbox' = [inbox EXCEPT ![n] = [changes |-> << >>, cursor |-> cursor'[n]]]
        /\ UNCHANGED <<outbox, acked, now>>
    BY <1>1 DEF Tables!ApplyPulled, Tables!InboxEmptied, Tables!limits
  <2>2. PICK k \in 0..Len(inbox[n].changes) : k = Len(inbox[n].changes)
    BY <1>0
  <2> QED
    BY <2>1, <2>2, TablesPart
<1>2. CASE Tables!ApplyFails(n)
  <2>1. PICK k \in 0..(Len(inbox[n].changes) - 1) :
          /\ store' = [store EXCEPT ![n] = Tables!Applied(n, k)]
          /\ inbox' = [inbox EXCEPT ![n] = [changes |-> << >>, cursor |-> cursor'[n]]]
          /\ UNCHANGED <<outbox, acked, now>>
    BY <1>2 DEF Tables!ApplyFails, Tables!InboxEmptied
  <2>2. k \in 0..Len(inbox[n].changes)
    BY <1>0
  <2> QED
    BY <2>1, <2>2, TablesPart
<1> QED
  BY <1>1, <1>2

(* The database is opened again with the counter it had: initialVersionSeq(). *)
LEMMA TablesCrash ==
    ASSUME TInv, NEW n \in Nodes, Tables!Crash(n), UNCHANGED <<rows, delivered>>
    PROVE  TInv'
<1>1. PICK k \in 0..Len(inbox[n].changes) :
        /\ store' = [store EXCEPT ![n] = Tables!Reopen(Tables!Applied(n, k))]
        /\ inbox' = [inbox EXCEPT ![n] = [changes |-> << >>, cursor |-> cursor'[n]]]
        /\ outbox' = [outbox EXCEPT ![n] = << >>]
        /\ acked' = [acked EXCEPT ![n] = << >>] /\ UNCHANGED now
  BY DEF Tables!Crash, Tables!InboxEmptied
<1> DEFINE t == ApplyAll(store[n], n, SubSeq(inbox[n].changes, 1, k), Clock(n), "lww")
<1>2. Tables!Applied(n, k) = t
  BY TablesStore, TablesHere DEF Tables!Applied
<1>3. TableFine(n, t, Clock(n), rows, inbox[n].changes, outbox[n])
  BY TablesHere, TableApplies
<1> HIDE DEF t
<1>4. Tables!Reopen(t) = t
  BY <1>3, TableOrdered, OrderedReopens, TablesStore
<1> QED
  BY <1>1, <1>2, <1>4, TablesPart

LEMMA TablesRead ==
    ASSUME TInv, NEW n \in Nodes, Tables!ReadPending(n), UNCHANGED <<rows, delivered>>
    PROVE  TInv'
<1> DEFINE cs == Pending(store[n], Explicit, BatchSize)
<1>1. /\ outbox' = [outbox EXCEPT ![n] = cs]
      /\ UNCHANGED <<store, inbox, acked, now>>
  BY TablesStore DEF Tables!ReadPending, Tables!limits
<1>2. \A d \in Docs : rows[d] \in TableRows
  BY DEF TInv, TablesTyped
<1>3. cs \in Seq(Changes) /\ TableFine(n, store[n], Clock(n), rows, inbox[n].changes, cs)
  BY <1>2, TablesHere, TableReads
<1> HIDE DEF cs
<1>4. /\ outbox' \in [Nodes -> Seq(Changes)] /\ outbox'[n] = cs
      /\ \A m \in Nodes \ {n} : outbox'[m] = outbox[m]
  BY <1>1, <1>3 DEF TInv, TablesTyped
<1>5. Keeps(store[n], store'[n])
  BY <1>1, SameFeedKeeps
<1>6. /\ store' \in [Nodes -> Stores] /\ DOMAIN inbox' = Nodes
      /\ inbox'[n].changes \in Seq(Changes) /\ acked' \in [Nodes -> Seq(Changes)]
  BY <1>1 DEF TInv, TablesTyped
<1> QED
  BY <1>1, <1>3, <1>4, <1>5, <1>6, TablesMove

LEMMA TablesGiveUp ==
    ASSUME TInv, NEW n \in Nodes, Tables!RetriesExhausted(n), UNCHANGED <<rows, delivered>>
    PROVE  TInv'
<1>1. /\ outbox' = [outbox EXCEPT ![n] = << >>] /\ acked' = [acked EXCEPT ![n] = << >>]
      /\ UNCHANGED <<store, inbox, now>>
  BY DEF Tables!RetriesExhausted
<1>2. TableFine(n, store[n], Clock(n), rows, inbox[n].changes, << >>)
  BY TablesHere, TableEmptied
<1>3. /\ outbox' \in [Nodes -> Seq(Changes)] /\ outbox'[n] = << >>
      /\ acked' \in [Nodes -> Seq(Changes)] /\ acked'[n] = << >>
      /\ \A m \in Nodes \ {n} : outbox'[m] = outbox[m] /\ acked'[m] = acked[m]
  BY <1>1, NothingIsChanges DEF TInv, TablesTyped
<1>4. Keeps(store[n], store'[n])
  BY <1>1, SameFeedKeeps
<1>5. /\ store' \in [Nodes -> Stores] /\ DOMAIN inbox' = Nodes
      /\ inbox'[n].changes \in Seq(Changes)
  BY <1>1 DEF TInv, TablesTyped
<1> QED
  BY <1>1, <1>2, <1>3, <1>4, <1>5, TablesMove

(* markPushed(): what is marked has arrived. *)
LEMMA TablesMark ==
    ASSUME TInv, NEW n \in Nodes, Tables!MarkAcked(n), UNCHANGED <<rows, delivered>>
    PROVE  TInv'
<1> DEFINE s == store[n]
           t == MarkPushed(s, acked[n])
<1>1. /\ store' = [store EXCEPT ![n] = t] /\ acked' = [acked EXCEPT ![n] = << >>]
      /\ UNCHANGED <<inbox, outbox, now>>
  BY TablesStore DEF Tables!MarkAcked, Tables!limits
<1>2. /\ t \in Stores /\ Seqs(t) = Seqs(s)
      /\ \A q \in Seqs(s) :
           \/ Entry(t, q) = Entry(s, q)
           \/ \E k \in DOMAIN acked[n] : /\ acked[n][k].doc = Entry(t, q).doc
                                         /\ q <= acked[n][k].seq
  BY TablesHere, MarkPushedMarks
<1>3. Remains(s, t)
  BY TablesHere, MarkPushedIs, MarksRemains
<1>4. PushedFirst(s) /\ Own(s) = Seqs(s) => PushedFirst(t)
  BY TablesHere, PushedInOrder
<1>5. TableFine(n, t, Clock(n), rows, inbox[n].changes, outbox[n])
  <2>1. CASE n = TableWriter
    <3>1. WriterFine(s, Clock(n), rows, inbox[n].changes, outbox[n])
      BY <2>1, TablesHere DEF TableFine
    <3>2. PushedFirst(t)
      BY <1>4, <3>1 DEF WriterFine, Authored
    <3> HIDE DEF t
    <3> QED
      BY <1>3, <3>2, TablesHere, TableRemains
  <2>2. CASE n # TableWriter
    <3>1. ReaderFine(n, s, Clock(n), rows, inbox[n].changes, outbox[n])
      BY <2>2, TablesHere DEF TableFine
    <3> HIDE DEF t
    <3>2. Own(t) = {}
      BY <1>3, <3>1, RemainsIs DEF ReaderFine, Readable
    <3>3. /\ \A d : Entries(t, d) = Entries(s, d) /\ CurrentVersion(t, d) = CurrentVersion(s, d)
          /\ Ordered(n, t, Clock(n))
      BY <1>3, <3>1, RemainsIs, OrderedRemains DEF ReaderFine
    <3> QED
      BY <2>2, <3>1, <3>2, <3>3 DEF TableFine, ReaderFine, Readable, Reads
  <2> QED
    BY <2>1, <2>2
<1> HIDE DEF t
<1>6. /\ store' \in [Nodes -> Stores] /\ store'[n] = t
      /\ \A m \in Nodes \ {n} : store'[m] = store[m]
      /\ acked' \in [Nodes -> Seq(Changes)] /\ acked'[n] = << >>
      /\ \A m \in Nodes \ {n} : acked'[m] = acked[m]
  BY <1>1, <1>2, NothingIsChanges DEF TInv, TablesTyped
<1>7. TablesTyped'
  BY <1>1, <1>6 DEF TInv, TablesTyped
<1>8. AckedArrived'
  <2>1. \A m \in Nodes \ {n} : \A i \in 1..Len(acked'[m]) :
           acked'[m][i].seq <= delivered'[m][acked'[m][i].doc]
    BY <1>6 DEF TInv, AckedArrived
  <2>2. Len(acked'[n]) = 0 /\ \A i : ~(i \in 1..0)
    BY <1>6, EmptySeq
  <2> QED
    BY <2>1, <2>2 DEF AckedArrived
<1>9. AckedIsDelivered'
  <2> SUFFICES ASSUME NEW m \in Nodes, NEW q \in Seqs(store'[m]),
                      Entry(store'[m], q).source = "local", Entry(store'[m], q).pushed
               PROVE  q <= delivered[m][Entry(store'[m], q).doc]
    BY DEF AckedIsDelivered
  <2>1. CASE m # n
    BY <1>6, <2>1 DEF TInv, AckedIsDelivered
  <2>2. CASE m = n
    <3>1. q \in Seqs(s) /\ Entry(store'[m], q) = Entry(t, q)
      BY <1>2, <1>6, <2>2
    <3>2. CASE Entry(t, q) = Entry(s, q)
      BY <2>2, <3>1, <3>2 DEF TInv, AckedIsDelivered
    <3>3. CASE \E k \in DOMAIN acked[n] : /\ acked[n][k].doc = Entry(t, q).doc
                                          /\ q <= acked[n][k].seq
      <4>1. PICK k \in DOMAIN acked[n] : /\ acked[n][k].doc = Entry(t, q).doc
                                         /\ q <= acked[n][k].seq
        BY <3>3
      <4>2. k \in 1..Len(acked[n])
        BY TablesHere, LenProperties
      <4>3. acked[n][k].seq \in Nat /\ acked[n][k].doc \in Docs
        BY <4>2, TablesHere, ChangeIn
      <4>4. acked[n][k].seq <= delivered[n][acked[n][k].doc]
        BY <4>2 DEF TInv, AckedArrived
      <4>5. delivered[n][acked[n][k].doc] \in Nat /\ q \in Nat
        BY <3>1, <4>3, TablesHere, SeqsFinite DEF TInv, TablesTyped, Delivered
      <4> QED
        BY <2>2, <3>1, <4>1, <4>3, <4>4, <4>5
    <3> QED
      BY <1>2, <3>1, <3>2, <3>3
  <2> QED
    BY <2>1, <2>2
<1>10. TablesFine'
  <2>1. \A m : Clock(m)' = Clock(m)
    BY <1>1 DEF Clock
  <2> QED
    BY <1>1, <1>5, <1>6, <2>1 DEF TInv, TablesFine
<1> QED
  BY <1>7, <1>8, <1>9, <1>10 DEF TInv

LEMMA TablesNode ==
    ASSUME TInv, NEW n \in Nodes, Tables!NodeStep(n), UNCHANGED <<rows, delivered>>
    PROVE  TInv'
<1>1. ~Tables!CompactChanges(n)
  BY DEF Tables!CompactChanges
<1> QED
  BY <1>1, TablesWrite, TablesOpen, TablesStart, TablesBegin, TablesApply, TablesRead,
     TablesMark, TablesGiveUp, TablesCrash DEF Tables!NodeStep

LEMMA TablesTick ==
    ASSUME TInv, Tables!Tick, UNCHANGED <<rows, delivered>> PROVE TInv'
<1>1. now' = now + 1 /\ now \in Nat /\ UNCHANGED <<store, inbox, outbox, acked>>
  BY DEF Tables!Tick, Tables!engine, TInv, TablesTyped
<1>2. TablesTyped' /\ AckedArrived' /\ AckedIsDelivered'
  BY <1>1 DEF TInv, TablesTyped, AckedArrived, AckedIsDelivered
<1>3. TablesFine'
  <2> SUFFICES ASSUME NEW n \in Nodes
               PROVE  TableFine(n, store[n], Clock(n)', rows, inbox[n].changes, outbox[n])
    BY <1>1 DEF TablesFine
  <2>1. Clock(n) \in Nat /\ Clock(n)' \in Nat /\ Clock(n) <= Clock(n)'
    <3>1. Skew[n] \in Nat
      BY Numbered DEF Databases
    <3> QED
      BY <1>1, <3>1 DEF Clock
  <2> HIDE DEF Clock
  <2> QED
    BY <2>1, TablesHere, TableLater
<1> QED
  BY <1>2, <1>3 DEF TInv

-----------------------------------------------------------------------------
(* What is pulled: rows, and so versions that the writer has recorded. *)
RankIn(S, f, x) == Cardinality({y \in S : f[y] <= f[x]})

LEMMA RanksExist ==
    ASSUME NEW S, IsFiniteSet(S), NEW f \in [S -> Nat],
           \A x, y \in S : f[x] = f[y] => x = y
    PROVE  \A i \in 1..Cardinality(S) : \E x \in S : RankIn(S, f, x) = i
<1> DEFINE Q == {f[x] : x \in S}
<1>1. ASSUME NEW U \in SUBSET S
      PROVE  /\ IsFiniteSet({f[x] : x \in U})
             /\ Cardinality({f[x] : x \in U}) = Cardinality(U)
  <2> DEFINE V == {f[x] : x \in U}
             g == [x \in U |-> f[x]]
  <2>1. g \in [U -> V] /\ (\A x, y \in U : g[x] = g[y] => x = y)
        /\ \A v \in V : \E x \in U : g[x] = v
    OBVIOUS
  <2> HIDE DEF g, V
  <2>2. g \in Bijection(U, V)
    BY <2>1 DEF Bijection, Injection, Surjection, IsInjective
  <2>3. ExistsBijection(U, V)
    BY <2>2 DEF ExistsBijection
  <2>4. IsFiniteSet(U)
    BY FS_Subset
  <2> QED
    BY <2>3, <2>4, FS_Bijection DEF V
<1>2. Q \subseteq Nat
  OBVIOUS
<1>3. IsFiniteSet(Q) /\ Cardinality(Q) = Cardinality(S)
  BY <1>1
<1>4. ASSUME NEW x \in S
      PROVE  Cardinality({y \in S : f[y] <= f[x]}) = Cardinality({p \in Q : p <= f[x]})
  <2> DEFINE U == {y \in S : f[y] <= f[x]}
  <2>1. U \in SUBSET S
    OBVIOUS
  <2>2. {p \in Q : p <= f[x]} = {f[y] : y \in U}
    OBVIOUS
  <2> HIDE DEF U, Q
  <2>3. Cardinality({f[y] : y \in U}) = Cardinality(U)
    BY <1>1, <2>1
  <2> QED
    BY <2>2, <2>3 DEF U
<1>5. ASSUME NEW i \in 1..Cardinality(S)
      PROVE  \E x \in S : RankIn(S, f, x) = i
  <2>1. PICK q \in Q : Cardinality({p \in Q : p <= q}) = i
    BY <1>2, <1>3, RankExists
  <2>2. PICK x \in S : q = f[x]
    BY <2>1
  <2> QED
    BY <1>4, <2>1, <2>2 DEF RankIn
<1> QED
  BY <1>5

Written == {d \in Docs : rows[d] # Tables!NoRow}

LEMMA PageRows ==
    ASSUME TInv, NEW c, NEW since
    PROVE  Tables!Page(c, since) \in Seq(Written)
<1> DEFINE w == store[TableWriter]
           next == {d \in Docs : /\ CollOf[d] = c /\ rows[d] # Tables!NoRow
                                 /\ Tables!Newer(rows[d].version, since)}
           rank(d) == Tables!Cardinality({e \in next :
                         ~Tables!Newer(rows[e].version, rows[d].version)})
           m == Tables!Min({Tables!Cardinality(next), BatchSize})
           at(d) == CHOOSE q \in Entries(w, d) : rows[d].version = Entry(w, q).version
           f == [d \in next |-> at(d)]
<1>0. /\ Tables!Page(c, since) = [i \in 1..m |-> CHOOSE d \in next : rank(d) = i]
      /\ \A S : Tables!Cardinality(S) = Cardinality(S) /\ Tables!Min(S) = Min(S)
  <2>1. \A S : Tables!Cardinality(S) = Cardinality(S)
    BY Zenon DEF Tables!Cardinality, Cardinality
  <2> QED
    BY <2>1 DEF Tables!Page, Tables!Min, Min
<1>1. /\ WriterFine(w, Clock(TableWriter), rows, inbox[TableWriter].changes, outbox[TableWriter])
      /\ Whole(w) /\ Ordered(TableWriter, w, Clock(TableWriter))
  BY PartsAssumption, TablesHere DEF TableFine
<1>2. \A d \in next : d \in Written /\ d \in Docs
  BY DEF Written
<1> HIDE DEF w
<1>3. ASSUME NEW d \in next
      PROVE  /\ at(d) \in Entries(w, d) /\ rows[d].version = Entry(w, at(d)).version
             /\ at(d) \in Own(w) /\ at(d) \in Nat /\ Entry(w, at(d)).doc = d
             /\ rows[d].version \in Versions
  <2>1. \E q \in Entries(w, d) : rows[d].version = Entry(w, q).version
    BY <1>1, <1>2 DEF WriterFine, RowFine, Written
  <2>2. at(d) \in Entries(w, d) /\ rows[d].version = Entry(w, at(d)).version
    BY <2>1
  <2> HIDE DEF at
  <2>3. at(d) \in Own(w) /\ Entry(w, at(d)).doc = d
    BY <1>1, <2>2 DEF WriterFine, Authored, Entries
  <2>4. at(d) \in Seqs(w)
    BY <2>3 DEF Own
  <2>5. at(d) \in Nat /\ rows[d].version \in Versions
    BY <1>1, <2>2, <2>4, FeedIs, VersionsIn
  <2> QED
    BY <2>2, <2>3, <2>5
<1> HIDE DEF at
<1>4. \A d \in next : f[d] = at(d)
  OBVIOUS
<1>5. f \in [next -> Nat] /\ \A d, e \in next : f[d] = f[e] => d = e
  BY <1>3, <1>4
<1>6. IsFiniteSet(next) /\ Cardinality(next) \in Nat
  <2>1. next \subseteq Docs
    OBVIOUS
  <2> HIDE DEF next
  <2> QED
    BY <2>1, EngineAssumption, FS_Subset, FS_CardinalityType
<1> HIDE DEF next, f
<1>7. ASSUME NEW d \in next, NEW e \in next
      PROVE  ~Tables!Newer(rows[e].version, rows[d].version) <=> f[e] <= f[d]
  <2>1. f[e] < f[d] => Newer(rows[d].version, rows[e].version)
    BY <1>1, <1>3, <1>4, OwnInOrder
  <2>2. f[d] < f[e] => Newer(rows[e].version, rows[d].version)
    BY <1>1, <1>3, <1>4, OwnInOrder
  <2>3. f[d] = f[e] => d = e
    BY <1>5
  <2>4. f[d] \in Nat /\ f[e] \in Nat /\ rows[d].version \in Versions /\ rows[e].version \in Versions
    BY <1>3, <1>5
  <2>5. /\ Newer(rows[d].version, rows[e].version) => ~Newer(rows[e].version, rows[d].version)
        /\ ~Newer(rows[d].version, rows[d].version)
    BY <2>4, NewerIs
  <2> QED
    BY <2>1, <2>2, <2>3, <2>4, <2>5, TablesStore
<1>8. \A d \in next : rank(d) = RankIn(next, f, d)
  <2> SUFFICES ASSUME NEW d \in next
               PROVE  rank(d) = RankIn(next, f, d)
    OBVIOUS
  <2>1. {e \in next : ~Tables!Newer(rows[e].version, rows[d].version)} = {e \in next : f[e] <= f[d]}
    BY <1>7
  <2> QED
    BY <1>0, <2>1 DEF RankIn
<1> HIDE DEF rank
<1>9. \A i \in 1..Cardinality(next) : \E d \in next : rank(d) = i
  BY <1>5, <1>6, <1>8, RanksExist
<1>10. m \in Nat /\ m <= Cardinality(next)
  <2> DEFINE two == {Cardinality(next), BatchSize}
  <2>1. two \subseteq Nat /\ two # {} /\ Cardinality(next) \in two
    BY <1>6, EngineAssumption
  <2>2. m = Min(two)
    BY <1>0
  <2> HIDE DEF two, m
  <2> QED
    BY <2>1, <2>2, HasMin
<1> HIDE DEF m
<1>11. \A i \in 1..m : (CHOOSE d \in next : rank(d) = i) \in next
  BY <1>6, <1>9, <1>10
<1>12. [i \in 1..m |-> CHOOSE d \in next : rank(d) = i] \in [1..m -> Written]
  BY <1>2, <1>11
<1> QED
  BY <1>0, <1>10, <1>12, FunctionAsSeq

LEMMA PagesRows ==
    ASSUME TInv, NEW n \in Nodes
    PROVE  LET pages == [c \in Tables!Colls(n) |-> Tables!Page(c, cursor[n][c])]
               order == Tables!SetToSeq(Tables!Colls(n))
               found[k \in 0..Len(order)] ==
                 IF k = 0 THEN << >> ELSE found[k - 1] \o pages[order[k]]
           IN found[Len(order)] \in Seq(Written)
<1> DEFINE C == Tables!Colls(n)
           pages == [c \in C |-> Tables!Page(c, cursor[n][c])]
           order == Tables!SetToSeq(C)
           m == Len(order)
           T == Seq(Written)
           next(k, t) == t \o pages[order[k]]
           step == [p \in (1..m) \X T |-> next(p[1], p[2])]
           Rec(g) == g = [k \in 0..m |-> IF k = 0 THEN << >> ELSE next(k, g[k - 1])]
           found == CHOOSE g : Rec(g)
<1>1. IsFiniteSet(C)
  <2>1. C \subseteq Collections
    BY TablesHere, StoreFields, EngineAssumption DEF Tables!Colls
  <2> HIDE DEF C
  <2> QED
    BY <2>1, PartsAssumption, FS_Subset
<1>2. \A c \in C : pages[c] \in T
  BY PageRows
<1>3. m \in Nat /\ \A k \in 1..m : order[k] \in C
  <2> HIDE DEF C
  <2>1. order \in Seq(C)
    BY <1>1, SetAsSeq, TablesStore
  <2> QED
    BY <2>1, LenProperties, ElementOfSeq
<1>4. << >> \in T
  BY EmptySeq
<1> HIDE DEF C, pages
<1>5. \A k \in 1..m, t \in T : next(k, t) \in T
  BY <1>2, <1>3, ConcatProperties
<1> HIDE DEF next, m, T
<1>6. /\ step \in [(1..m) \X T -> T]
      /\ \A k \in 1..m, t \in T : step[<<k, t>>] = next(k, t)
  BY <1>5
<1> HIDE DEF step
<1>7. PICK g : Recursion(T, m, << >>, step, g)
  BY <1>3, <1>4, <1>6, RecursionExists DEF m
<1>8. m \in Nat
  BY <1>3 DEF m
<1>9. Rec(g)
  <2>1. \A k \in 0..m : g[k] = IF k = 0 THEN << >> ELSE next(k, g[k - 1])
    <3>1. \A k \in 1..m : g[k - 1] \in T
      BY <1>7, <1>8 DEF Recursion
    <3>2. \A k \in 1..m : step[<<k, g[k - 1]>>] = next(k, g[k - 1])
      BY <1>6, <3>1
    <3>3. \A k \in 0..m : k # 0 => k \in 1..m
      BY <1>8
    <3> QED
      BY <1>7, <3>2, <3>3 DEF Recursion
  <2> QED
    BY <1>7, <2>1 DEF Recursion
<1>10. Rec(found)
  BY <1>9
<1>11. \A k \in 0..m : found[k] = IF k = 0 THEN << >> ELSE next(k, found[k - 1])
  BY <1>10
<1> HIDE DEF found
<1>12. found[m] \in T
  <2> DEFINE S == {k \in 0..m : found[k] \in T}
  <2>1. 0 \in S
    BY <1>4, <1>8, <1>11
  <2>2. \A k \in 1..m : k - 1 \in S => k \in S
    <3>1. \A k \in 1..m : k \in 0..m /\ k # 0
      BY <1>8
    <3> QED
      BY <1>5, <1>11, <3>1
  <2> HIDE DEF S
  <2>3. 0..m \subseteq S
    BY <1>8, <2>1, <2>2, Climb
  <2>4. m \in S
    BY <1>8, <2>3
  <2> QED
    BY <2>4 DEF S
<1> QED
  BY <1>12 DEF found, m, T, next, pages, C

LEMMA TablesPull ==
    ASSUME TInv, NEW n \in Nodes, Tables!Pull(n)
    PROVE  TInv'
<1>1. PICK all \in Seq(Written) :
        /\ inbox'[n].changes = [i \in DOMAIN all |-> Tables!RowChange(all[i])]
        /\ DOMAIN inbox' = Nodes /\ \A m \in Nodes \ {n} : inbox'[m] = inbox[m]
  <2> DEFINE pages == [c \in Tables!Colls(n) |-> Tables!Page(c, cursor[n][c])]
             order == Tables!SetToSeq(Tables!Colls(n))
             Rec(g) == g = [k \in 0..Len(order) |->
                              IF k = 0 THEN << >> ELSE g[k - 1] \o pages[order[k]]]
             found == CHOOSE g : Rec(g)
             all == found[Len(order)]
  <2>1. all \in Seq(Written)
    BY PagesRows
  <2>2. \E x : inbox' = [inbox EXCEPT ![n] =
           [changes |-> [i \in DOMAIN all |-> Tables!RowChange(all[i])], cursor |-> x]]
    BY DEF Tables!Pull, Tables!PullAnswered
  <2> HIDE DEF all
  <2> QED
    BY <2>1, <2>2 DEF TInv, TablesTyped
<1>2. UNCHANGED <<store, outbox, acked, now, rows, delivered>>
  BY DEF Tables!Pull, Tables!PullAnswered, Tables!limits
<1> DEFINE box == inbox'[n].changes
           s == store[n]
<1>3. /\ DOMAIN all = 1..Len(all) /\ Len(all) \in Nat
      /\ \A i \in 1..Len(all) : all[i] \in Docs /\ rows[all[i]] # Tables!NoRow
  BY LenProperties, ElementOfSeq DEF Written
<1>4. ASSUME NEW i \in 1..Len(all)
      PROVE  /\ rows[all[i]].version \in Versions /\ Tables!RowChange(all[i]) \in Changes
             /\ Tables!RowChange(all[i]).doc = all[i]
             /\ Tables!RowChange(all[i]).version = rows[all[i]].version
  <2>1. rows[all[i]] \in [version : Versions, state : States]
    BY <1>3 DEF TInv, TablesTyped, TableRows
  <2> QED
    BY <1>3, <2>1 DEF Tables!RowChange, Changes, Ops
<1>5. box \in Seq(Changes) /\ Len(box) = Len(all)
      /\ \A i \in 1..Len(box) : box[i] = Tables!RowChange(all[i])
  <2>1. box \in [1..Len(all) -> Changes]
    BY <1>1, <1>3, <1>4
  <2>2. \A i \in 1..Len(all) : box[i] = Tables!RowChange(all[i])
    BY <1>1, <1>3
  <2> HIDE DEF box
  <2> QED
    BY <1>3, <2>1, <2>2, FunctionAsSeq
<1> HIDE DEF box
<1>6. ASSUME NEW i \in 1..Len(box)
      PROVE  /\ box[i].doc = all[i] /\ box[i].version = rows[all[i]].version
             /\ rows[all[i]].version \in Versions
             /\ all[i] \in Docs /\ rows[all[i]] # Tables!NoRow
  BY <1>3, <1>4, <1>5
<1>7. TableFine(n, s, Clock(n), rows, box, outbox[n])
  <2>1. CASE n = TableWriter
    <3>1. WriterFine(s, Clock(n), rows, inbox[n].changes, outbox[n])
      BY <2>1, TablesHere DEF TableFine
    <3>2. \A i \in 1..Len(box) : PullFine(s, box[i])
      BY <1>6, <3>1 DEF WriterFine, RowFine, PullFine
    <3> QED
      BY <2>1, <3>1, <3>2 DEF TableFine, WriterFine
  <2>2. CASE n # TableWriter
    <3>1. ReaderFine(n, s, Clock(n), rows, inbox[n].changes, outbox[n])
      BY <2>2, TablesHere DEF TableFine
    <3>2. \A i \in 1..Len(box) : Reads(s, rows, box[i])
      BY <1>6, <3>1 DEF ReaderFine, Readable, Reads, AtMost
    <3>3. \A i, j \in 1..Len(box) : box[i].doc = box[j].doc => box[i].version = box[j].version
      BY <1>6
    <3> QED
      BY <2>2, <3>1, <3>2, <3>3 DEF TableFine, ReaderFine
  <2> QED
    BY <2>1, <2>2
<1>8. Keeps(store[n], store'[n])
  BY <1>2, SameFeedKeeps
<1>9. /\ store' \in [Nodes -> Stores] /\ outbox' \in [Nodes -> Seq(Changes)]
      /\ acked' \in [Nodes -> Seq(Changes)]
  BY <1>2 DEF TInv, TablesTyped
<1> QED
  BY <1>1, <1>2, <1>5, <1>7, <1>8, <1>9, TablesMove DEF box

-----------------------------------------------------------------------------
(* push(), one change.  The row it replaces is older, or the same. *)
LEMMA RowRises ==
    ASSUME NEW s, NEW c \in Changes, NEW r \in TableRows, SendFine(s, r, c)
    PROVE  LET new == [version |-> c.version, state |-> c.state]
           IN /\ new \in TableRows /\ new.version \in Versions
              /\ new # r => Newer(new.version, r.version)
              /\ \A v \in Versions : r.version \in Versions /\ AtMost(v, r.version)
                                       => AtMost(v, new.version)
<1> DEFINE new == [version |-> c.version, state |-> c.state]
<1>1. new \in [version : Versions, state : States] /\ new.version = c.version
      /\ c.version \in Versions
  BY DEF Changes
<1>2. Tables!NoRow.version = << >> /\ << >> \notin Versions
  BY VersionIs DEF Tables!NoRow, Tables!NoVersion
<1>3. new = r \/ Newer(new.version, r.version)
  BY <1>1, <1>2 DEF SendFine, Newer, NoVersion
<1> HIDE DEF new
<1>4. \A v \in Versions : r.version \in Versions /\ AtMost(v, r.version)
                            => AtMost(v, new.version)
  BY <1>1, <1>3, NewerOn
<1> QED
  BY <1>1, <1>3, <1>4 DEF new, TableRows

LEMMA WriterSends ==
    ASSUME NEW s, NEW ts, NEW rs, NEW box, NEW out \in Seq(Changes), out # << >>,
           WriterFine(s, ts, rs, box, out), NEW rn,
           \A d \in Docs \ {out[1].doc} : rn[d] = rs[d],
           rn[out[1].doc] = [version |-> out[1].version, state |-> out[1].state]
    PROVE  WriterFine(s, ts, rn, box, Tail(out))
<1> DEFINE c == out[1]
<1>1. /\ 1 \in 1..Len(out)
      /\ \A i \in 1..Len(Tail(out)) : i + 1 \in 1..Len(out) /\ i + 1 # 1 /\ i \in Int
                                      /\ Tail(out)[i] = out[i + 1]
  BY TailIs
<1>2. c.doc \in Docs /\ SendFine(s, rs[c.doc], c)
  BY <1>1, ChangeIn DEF WriterFine
<1>3. ASSUME NEW d \in Docs
      PROVE  RowFine(s, rn[d], d)
  <2>1. CASE d = c.doc
    <3>1. /\ rn[d].version = c.version /\ rn[d].state = c.state
      BY <2>1
    <3>2. /\ c.seq \in Entries(s, d) /\ rn[d].version = Entry(s, c.seq).version
          /\ c.seq = LastOf(s, d) => rn[d].state = ChangeAt(s, c.seq).state
      BY <1>2, <2>1, <3>1 DEF SendFine, Stands
    <3> QED
      BY <3>2 DEF RowFine
  <2>2. CASE d # c.doc
    BY <2>2 DEF WriterFine
  <2> QED
    BY <2>1, <2>2
<1>4. ASSUME NEW i \in 1..Len(Tail(out))
      PROVE  SendFine(s, rn[Tail(out)[i].doc], Tail(out)[i])
  <2>1. i + 1 \in 1..Len(out) /\ Tail(out)[i] = out[i + 1] /\ i + 1 # 1
    BY <1>1
  <2>2. out[i + 1].doc \in Docs
    BY <2>1, ChangeIn
  <2>3. out[i + 1].doc # c.doc
    BY <1>1, <2>1 DEF WriterFine, Distinct
  <2> QED
    BY <2>1, <2>2, <2>3 DEF WriterFine
<1>5. Distinct(Tail(out))
  BY <1>1 DEF WriterFine, Distinct
<1> QED
  BY <1>3, <1>4, <1>5 DEF WriterFine

LEMMA ReaderSees ==
    ASSUME NEW n, NEW s, NEW ts, NEW rs, NEW box \in Seq(Changes), NEW out,
           ReaderFine(n, s, ts, rs, box, out), NEW rn,
           \A d \in Docs : rs[d].version \in Versions =>
              /\ rn[d].version \in Versions
              /\ \A v \in Versions : AtMost(v, rs[d].version) => AtMost(v, rn[d].version)
    PROVE  ReaderFine(n, s, ts, rn, box, out)
<1>1. Whole(s)
  BY DEF ReaderFine, Ordered
<1>2. Readable(s, rn)
  <2>1. \A d \in Docs : Entries(s, d) # {} => CurrentVersion(s, d) \in Versions
    BY <1>1, LastIs
  <2> QED
    BY <2>1 DEF ReaderFine, Readable
<1>3. \A i \in 1..Len(box) : Reads(s, rn, box[i])
  <2>1. \A i \in 1..Len(box) : box[i].doc \in Docs /\ box[i].version \in Versions
    BY ChangeIn
  <2> QED
    BY <2>1 DEF ReaderFine, Reads
<1> QED
  BY <1>2, <1>3 DEF ReaderFine

LEMMA MaxOfTwo ==
    ASSUME NEW a \in Nat, NEW b \in Nat
    PROVE  Tables!Max({a, b}) \in Nat /\ a <= Tables!Max({a, b}) /\ b <= Tables!Max({a, b})
<1> DEFINE S == {a, b}
<1>1. S \subseteq Nat /\ S # {} /\ a \in S /\ b \in S
  OBVIOUS
<1>2. PICK top \in Nat : a <= top /\ b <= top
  <2>1. a + b \in Nat /\ a <= a + b /\ b <= a + b
    OBVIOUS
  <2> QED
    BY <2>1
<1>3. \A x \in S : x <= top
  BY <1>2
<1> HIDE DEF S
<1>4. Max(S) \in S /\ \A x \in S : x <= Max(S)
  BY <1>1, <1>2, <1>3, HasMax
<1>5. Tables!Max(S) = Max(S)
  BY TablesStore
<1> QED
  BY <1>1, <1>4, <1>5 DEF S

LEMMA TablesPushOne ==
    ASSUME TInv, NEW n \in Nodes, Tables!PushOne(n)
    PROVE  /\ TInv'
           /\ \A d \in Docs : rows'[d] # rows[d] => Newer(rows'[d].version, rows[d].version)
<1> DEFINE out == outbox[n]
           c == out[1]
           new == [version |-> c.version, state |-> c.state]
           max == Tables!Max({delivered[n][c.doc], c.seq})
<1>1. out # << >> /\ out \in Seq(Changes) /\ Head(out) = c /\ c \in Changes
      /\ Tail(out) \in Seq(Changes) /\ 1 \in 1..Len(out) /\ c.seq \in Nat /\ c.doc \in Docs
  BY TailIs, TablesHere, ChangeIn DEF Tables!PushOne
<1>2. /\ rows' = [rows EXCEPT ![c.doc] = new]
      /\ delivered' = [delivered EXCEPT ![n][c.doc] = max]
      /\ acked' = [acked EXCEPT ![n] = Append(acked[n], c)]
      /\ outbox' = [outbox EXCEPT ![n] = Tail(out)]
      /\ UNCHANGED <<store, inbox, now>>
  <2>1. Head(outbox[n]) = c
    BY <1>1
  <2> HIDE DEF c
  <2> QED
    BY <2>1 DEF Tables!PushOne, Tables!limits
<1>3. n = TableWriter /\ WriterFine(store[n], Clock(n), rows, inbox[n].changes, out)
  BY <1>1, TablesHere, TableTail DEF TableFine
<1>4. SendFine(store[n], rows[c.doc], c) /\ rows[c.doc] \in TableRows
  BY <1>1, <1>3 DEF WriterFine, TInv, TablesTyped
<1>5. /\ new \in TableRows /\ new.version \in Versions
      /\ new # rows[c.doc] => Newer(new.version, rows[c.doc].version)
      /\ \A v \in Versions : rows[c.doc].version \in Versions /\ AtMost(v, rows[c.doc].version)
                               => AtMost(v, new.version)
  BY <1>1, <1>4, RowRises
<1>6. /\ rows' \in [Docs -> TableRows] /\ rows'[c.doc] = new
      /\ \A d \in Docs \ {c.doc} : rows'[d] = rows[d]
  BY <1>1, <1>2, <1>5 DEF TInv, TablesTyped
<1>7. /\ max \in Nat /\ delivered[n][c.doc] <= max /\ c.seq <= max
  BY <1>1, MaxOfTwo DEF TInv, TablesTyped, Delivered
<1>8. /\ delivered' \in Delivered /\ c.seq <= delivered'[n][c.doc]
      /\ \A m \in Nodes, d \in Docs : /\ delivered[m][d] <= delivered'[m][d]
                                      /\ delivered[m][d] \in Nat /\ delivered'[m][d] \in Nat
  <2> HIDE DEF max, c
  <2>1. delivered \in [Nodes -> [Docs -> Nat]]
    BY DEF TInv, TablesTyped, Delivered
  <2>2. delivered' \in [Nodes -> [Docs -> Nat]]
    BY <1>2, <1>7, <2>1
  <2>3. ASSUME NEW m \in Nodes, NEW d \in Docs
        PROVE  delivered'[m][d] = IF m = n /\ d = c.doc THEN max ELSE delivered[m][d]
    BY <1>2, <2>1
  <2>4. c.doc \in Docs
    BY <1>1
  <2> QED
    BY <1>7, <2>1, <2>2, <2>3, <2>4 DEF Delivered
<1> HIDE DEF out, c, new, max
<1>9. /\ outbox' \in [Nodes -> Seq(Changes)] /\ outbox'[n] = Tail(out)
      /\ acked' \in [Nodes -> Seq(Changes)] /\ acked'[n] = Append(acked[n], c)
      /\ \A m \in Nodes \ {n} : outbox'[m] = outbox[m] /\ acked'[m] = acked[m]
  <2>1. Append(acked[n], c) \in Seq(Changes)
    BY <1>1, AppendProperties DEF TInv, TablesTyped
  <2> QED
    BY <1>1, <1>2, <2>1 DEF TInv, TablesTyped
<1>10. TablesTyped'
  BY <1>2, <1>6, <1>8, <1>9 DEF TInv, TablesTyped
<1>11. AckedIsDelivered'
  <2>1. \A m \in Nodes : Keeps(store[m], store'[m])
    BY <1>2, SameFeedKeeps
  <2> QED
    BY <1>8, <1>10, <2>1, MarksStay DEF TInv, TablesTyped
<1>12. AckedArrived'
  <2> SUFFICES ASSUME NEW m \in Nodes, NEW i \in 1..Len(acked'[m])
               PROVE  acked'[m][i].seq <= delivered'[m][acked'[m][i].doc]
    BY DEF AckedArrived
  <2>1. ASSUME i \in 1..Len(acked[m]), acked'[m][i] = acked[m][i]
        PROVE  acked'[m][i].seq <= delivered'[m][acked'[m][i].doc]
    <3> DEFINE a == acked[m][i]
    <3>1. a.doc \in Docs /\ a.seq \in Nat
      BY <2>1, TablesHere, ChangeIn
    <3>2. a.seq <= delivered[m][a.doc]
      BY <2>1 DEF TInv, AckedArrived
    <3> HIDE DEF a
    <3>3. a.seq <= delivered'[m][a.doc]
      BY <1>8, <3>1, <3>2
    <3> QED
      BY <2>1, <3>3 DEF a
  <2>2. CASE m # n
    BY <1>9, <2>1, <2>2
  <2>3. CASE m = n
    <3>1. acked[n] \in Seq(Changes) /\ Len(acked[n]) \in Nat
      BY TablesHere, LenProperties
    <3>2. /\ Len(acked'[n]) = Len(acked[n]) + 1
          /\ acked'[n][Len(acked[n]) + 1] = c
          /\ \A j \in 1..Len(acked[n]) : acked'[n][j] = acked[n][j]
      BY <1>1, <1>9, <3>1, AppendProperties
    <3>3. i \in 1..Len(acked[n]) \/ i = Len(acked[n]) + 1
      BY <2>3, <3>1, <3>2
    <3> QED
      BY <1>8, <2>1, <2>3, <3>2, <3>3
  <2> QED
    BY <2>2, <2>3
<1>13. TablesFine'
  <2> SUFFICES ASSUME NEW m \in Nodes
               PROVE  TableFine(m, store[m], Clock(m), rows', inbox[m].changes, outbox'[m])
    <3>1. \A m : Clock(m)' = Clock(m)
      BY <1>2 DEF Clock
    <3> QED
      BY <1>2, <3>1 DEF TablesFine
  <2>1. CASE m = n
    <3>1. WriterFine(store[n], Clock(n), rows', inbox[n].changes, Tail(out))
      BY <1>1, <1>3, <1>6, WriterSends DEF c, new
    <3> QED
      BY <1>3, <1>9, <2>1, <3>1 DEF TableFine
  <2>2. CASE m # n
    <3>1. ReaderFine(m, store[m], Clock(m), rows, inbox[m].changes, outbox[m])
      BY <1>3, <2>2, TablesHere DEF TableFine
    <3>2. \A d \in Docs : rows[d].version \in Versions =>
             /\ rows'[d].version \in Versions
             /\ \A v \in Versions : AtMost(v, rows[d].version) => AtMost(v, rows'[d].version)
      BY <1>5, <1>6
    <3>3. ReaderFine(m, store[m], Clock(m), rows', inbox[m].changes, outbox[m])
      BY <3>1, <3>2, TablesHere, ReaderSees
    <3> QED
      BY <1>3, <1>9, <2>2, <3>3 DEF TableFine
  <2> QED
    BY <2>1, <2>2
<1> QED
  BY <1>5, <1>6, <1>10, <1>11, <1>12, <1>13 DEF TInv

LEMMA TablesReject ==
    ASSUME TInv, NEW n \in Nodes, Tables!PushRejected(n)
    PROVE  TInv'
<1>1. /\ outbox[n] # << >> /\ outbox' = [outbox EXCEPT ![n] = Tail(outbox[n])]
      /\ UNCHANGED <<store, inbox, acked, rows, delivered, now>>
  BY DEF Tables!PushRejected
<1>2. /\ Tail(outbox[n]) \in Seq(Changes)
      /\ TableFine(n, store[n], Clock(n), rows, inbox[n].changes, Tail(outbox[n]))
  BY <1>1, TablesHere, TailIs, TableTail
<1>3. /\ outbox' \in [Nodes -> Seq(Changes)] /\ outbox'[n] = Tail(outbox[n])
      /\ \A m \in Nodes \ {n} : outbox'[m] = outbox[m]
  BY <1>1, <1>2 DEF TInv, TablesTyped
<1>4. Keeps(store[n], store'[n])
  BY <1>1, SameFeedKeeps
<1>5. /\ store' \in [Nodes -> Stores] /\ DOMAIN inbox' = Nodes
      /\ inbox'[n].changes \in Seq(Changes) /\ acked' \in [Nodes -> Seq(Changes)]
  BY <1>1 DEF TInv, TablesTyped
<1> QED
  BY <1>1, <1>2, <1>3, <1>4, <1>5, TablesMove

LEMMA TablesDone ==
    ASSUME TInv, NEW n \in Nodes, Tables!PushDone(n)
    PROVE  TInv'
<1>1. /\ outbox' = [outbox EXCEPT ![n] = << >>] /\ acked' = [acked EXCEPT ![n] = acked[n]]
      /\ UNCHANGED <<store, inbox, rows, delivered, now>>
  BY DEF Tables!PushDone, Tables!PushAnswered, Tables!limits
<1>2. TableFine(n, store[n], Clock(n), rows, inbox[n].changes, << >>)
  BY TablesHere, TableEmptied
<1>3. /\ outbox' \in [Nodes -> Seq(Changes)] /\ outbox'[n] = << >>
      /\ acked' = acked /\ \A m \in Nodes \ {n} : outbox'[m] = outbox[m]
  BY <1>1, NothingIsChanges DEF TInv, TablesTyped
<1>4. Keeps(store[n], store'[n])
  BY <1>1, SameFeedKeeps
<1>5. /\ store' \in [Nodes -> Stores] /\ DOMAIN inbox' = Nodes
      /\ inbox'[n].changes \in Seq(Changes) /\ acked' \in [Nodes -> Seq(Changes)]
  BY <1>1, <1>3 DEF TInv, TablesTyped
<1> QED
  BY <1>1, <1>2, <1>3, <1>4, <1>5, TablesMove

LEMMA TablesStep ==
    ASSUME TInv, Tables!Next
    PROVE  /\ TInv'
           /\ \A d \in Docs : rows'[d] # rows[d] => Newer(rows'[d].version, rows[d].version)
<1>1. CASE Tables!Tick /\ UNCHANGED <<rows, delivered>>
  BY <1>1, TablesTick
<1>2. CASE \E n \in Nodes : Tables!NodeStep(n) /\ UNCHANGED <<rows, delivered>>
  BY <1>2, TablesNode
<1>3. CASE \E n \in Nodes : Tables!Pull(n)
  BY <1>3, TablesPull DEF Tables!Pull
<1>4. CASE \E n \in Nodes : Tables!PushOne(n)
  BY <1>4, TablesPushOne
<1>5. CASE \E n \in Nodes : Tables!PushRejected(n)
  BY <1>5, TablesReject DEF Tables!PushRejected
<1>6. CASE \E n \in Nodes : Tables!PushDone(n)
  BY <1>6, TablesDone DEF Tables!PushDone
<1> QED
  BY <1>1, <1>2, <1>3, <1>4, <1>5, <1>6 DEF Tables!Next

-----------------------------------------------------------------------------
(* At first: no documents, and nothing in a feed. *)
LEMMA NewIsOrdered ==
    ASSUME NEW n \in Nodes, NEW ts
    PROVE  LET s == NewStore([d \in Docs |-> Absent], StartColls[n] \cup {})
           IN /\ Ordered(n, s, ts) /\ s \in Stores /\ Seqs(s) = {} /\ Own(s) = {}
              /\ \A d : Entries(s, d) = {}
<1> DEFINE docs == [d \in Docs |-> Absent]
           s == NewStore(docs, StartColls[n] \cup {})
<1>1. docs \in [Docs -> States] /\ StartColls[n] \cup {} \subseteq Collections
      /\ \A d \in Docs : ~docs[d].live
  BY AbsentIsState, EngineAssumption DEF Absent
<1> HIDE DEF docs
<1>2. s \in Stores /\ s.feed = << >>
  BY <1>1, NewStoreTyped
<1>3. s.base = 0 /\ s.vseq = 0 /\ s.docs = docs
  BY DEF NewStore
<1> HIDE DEF s
<1>4. Whole(s) /\ Len(s.feed) = 0
  BY <1>2, <1>3, NothingIsChanges DEF Whole
<1>5. Seqs(s) = {} /\ Own(s) = {} /\ \A d : Entries(s, d) = {}
  BY <1>4, EmptyIs
<1>6. Ordered(n, s, ts)
  BY <1>1, <1>3, <1>4, <1>5 DEF Ordered, Counters, Resumes, Timed, Mentioned
<1> QED
  BY <1>2, <1>5, <1>6 DEF s, docs

LEMMA TablesInit == Tables!Init => TInv
<1> SUFFICES ASSUME Tables!Init PROVE TInv
  OBVIOUS
<1> DEFINE New(n) == NewStore([d \in Docs |-> Absent], StartColls[n] \cup {})
<1>1. ASSUME NEW n \in Nodes
      PROVE  store[n] = New(n)
  <2>1. Tables!Born(n) = [d \in Docs |-> Absent]
    BY DEF Tables!Born, NoOldDocs, Tables!Absent, Absent, Tables!NoVersion, NoVersion
  <2>2. {CollOf[d] : d \in NoOldDocs[n]} = {}
    BY DEF NoOldDocs
  <2>3. store[n] = Tables!NewStore(Tables!Born(n), StartColls[n] \cup {CollOf[d] : d \in NoOldDocs[n]})
    BY DEF Tables!Init, Tables!EngineInit
  <2> QED
    BY <2>1, <2>2, <2>3 DEF Tables!NewStore, NewStore
<1>2. \A n \in Nodes : /\ Ordered(n, store[n], Clock(n)) /\ store[n] \in Stores
                       /\ Seqs(store[n]) = {} /\ Own(store[n]) = {}
                       /\ \A d : Entries(store[n], d) = {}
  BY <1>1, NewIsOrdered
<1> HIDE DEF New
<1>3. /\ \A n \in Nodes : /\ inbox[n].changes = << >> /\ outbox[n] = << >> /\ acked[n] = << >>
      /\ DOMAIN store = Nodes /\ DOMAIN inbox = Nodes
      /\ outbox = [n \in Nodes |-> << >>] /\ acked = [n \in Nodes |-> << >>] /\ now = 0
      /\ store = [n \in DOMAIN store |-> store[n]]
  BY DEF Tables!Init, Tables!EngineInit
<1>4. rows = [d \in Docs |-> Tables!NoRow] /\ delivered = [n \in Nodes |-> [d \in Docs |-> 0]]
  BY DEF Tables!Init
<1>5. TablesTyped
  <2>1. store \in [Nodes -> Stores]
    BY <1>2, <1>3
  <2>2. rows \in [Docs -> TableRows] /\ delivered \in Delivered
    BY <1>4 DEF TableRows, Delivered
  <2> QED
    BY <1>3, <2>1, <2>2, NothingIsChanges DEF TablesTyped
<1>6. AckedArrived /\ AckedIsDelivered
  <2>1. Len(<< >>) = 0 /\ \A i : ~(i \in 1..0)
    BY EmptySeq
  <2> QED
    BY <1>2, <1>3, <2>1 DEF AckedArrived, AckedIsDelivered
<1>7. TablesFine
  <2> SUFFICES ASSUME NEW n \in Nodes
               PROVE  TableFine(n, store[n], Clock(n), rows, << >>, << >>)
    BY <1>3 DEF TablesFine
  <2>1. Len(<< >>) = 0 /\ \A i : ~(i \in 1..0)
    BY EmptySeq
  <2>2. n = TableWriter => WriterFine(store[n], Clock(n), rows, << >>, << >>)
    <3>1. \A d \in Docs : RowFine(store[n], rows[d], d)
      BY <1>4 DEF RowFine
    <3> QED
      BY <1>2, <2>1, <3>1 DEF WriterFine, Authored, PushedFirst, Distinct
  <2>3. ReaderFine(n, store[n], Clock(n), rows, << >>, << >>)
    BY <1>2, <2>1 DEF ReaderFine, Readable
  <2> QED
    BY <2>2, <2>3 DEF TableFine
<1> QED
  BY <1>5, <1>6, <1>7 DEF TInv

-----------------------------------------------------------------------------
(* The memory.  What has been acknowledged is, until it is marked, a change *)
(* of the node's own, and no newer than the last of its document in the     *)
(* log, whose versions only rise.                                           *)
Taken(l, c) == ~Newer(c.version, Memory!LatestVersion(l, c.doc))

MemoryTyped ==
    /\ store \in [Nodes -> Stores]
    /\ DOMAIN inbox = Nodes /\ \A n \in Nodes : inbox[n].changes \in Seq(Changes)
    /\ acked \in [Nodes -> Seq(Changes)] /\ log \in Seq(Changes) /\ now \in Nat

Listening ==
    /\ hears \in [Nodes -> Nat] /\ starting \in [Nodes -> Nat]
    /\ unwatch \in [Nodes -> BOOLEAN]
    /\ \A n \in Nodes : unwatch[n] => hears[n] > 0

MemoryFine ==
    \A n \in Nodes :
       /\ Ordered(n, store[n], Clock(n))
       /\ \A i \in 1..Len(acked[n]) : Stands(store[n], acked[n][i]) /\ Taken(log, acked[n][i])

MInv == MemoryTyped /\ Listening /\ MemoryFine /\ Memory!AckedIsDelivered

(* l has no older version than k, of any document. *)
Rises(k, l) ==
    \A v \in Versions, d \in Docs :
       ~Newer(v, Memory!LatestVersion(k, d)) => ~Newer(v, Memory!LatestVersion(l, d))

LEMMA LatestIn ==
    ASSUME NEW l \in Seq(Changes), NEW d
    PROVE  Memory!LatestVersion(l, d) \in Versions \cup {NoVersion}
<1> DEFINE S == Memory!Of(l, d)
<1>1. Len(l) \in Nat /\ DOMAIN l = 1..Len(l) /\ \A i \in 1..Len(l) : l[i].version \in Versions
  BY LenProperties, ChangeIn
<1>2. S \subseteq Nat /\ S \subseteq 1..Len(l) /\ \A i \in S : i <= Len(l)
  BY <1>1 DEF Memory!Of
<1> HIDE DEF S
<1>3. S # {} => Max(S) \in S
  BY <1>1, <1>2, HasMax
<1>4. S # {} => l[Memory!Max(S)].version \in Versions
  BY <1>1, <1>2, <1>3, MemoryStore
<1> QED
  BY <1>4 DEF Memory!LatestVersion, S, Memory!NoVersion, NoVersion

(* A version that is not newer than a stays so when a newer one comes.      *)
LEMMA NotNewerOn ==
    ASSUME NEW v \in Versions, NEW a \in Versions \cup {NoVersion}, NEW b \in Versions,
           Newer(b, a)
    PROVE  /\ ~Newer(v, a) => ~Newer(v, b)
           /\ ~Newer(b, b)
<1>1. CASE a = NoVersion
  BY <1>1, NewerIs DEF Newer
<1>2. CASE a \in Versions
  BY <1>2, NewerIs
<1> QED
  BY <1>1, <1>2

LEMMA LatestTakes ==
    ASSUME NEW l \in Seq(Changes), NEW c \in Changes, NEW e \in Changes,
           e.doc = c.doc, e.version = c.version,
           Newer(c.version, Memory!LatestVersion(l, c.doc))
    PROVE  /\ Append(l, e) \in Seq(Changes)
           /\ Rises(l, Append(l, e)) /\ Taken(Append(l, e), c)
<1> DEFINE k == Append(l, e)
           m == Len(l)
           d == c.doc
<1>1. /\ m \in Nat /\ DOMAIN l = 1..m /\ k \in Seq(Changes) /\ Len(k) = m + 1
      /\ DOMAIN k = 1..(m + 1) /\ k[m + 1] = e /\ \A i \in 1..m : k[i] = l[i]
  BY LenProperties, AppendProperties
<1>2. c.version \in Versions
  BY DEF Changes
<1> HIDE DEF k, m
<1>3. Memory!Of(k, d) = Memory!Of(l, d) \cup {m + 1}
  BY <1>1 DEF Memory!Of
<1>4. Memory!LatestVersion(k, d) = c.version
  <2> DEFINE S == Memory!Of(k, d)
  <2>1. S # {} /\ m + 1 \in S /\ S \subseteq Nat /\ \A i \in S : i <= m + 1
    BY <1>1, <1>3 DEF Memory!Of
  <2> HIDE DEF S
  <2>2. Max(S) \in S /\ \A i \in S : i <= Max(S)
    BY <1>1, <2>1, HasMax
  <2> DEFINE top == Max(S)
  <2> HIDE DEF top
  <2>3. top \in Nat /\ m + 1 <= top /\ top <= m + 1
    BY <2>1, <2>2 DEF top
  <2>4. top = m + 1
    BY <1>1, <2>3
  <2>5. Max(S) = m + 1
    BY <2>4 DEF top
  <2>6. Memory!Max(S) = m + 1
    BY <2>5, MemoryStore
  <2> QED
    BY <1>1, <2>1, <2>6 DEF Memory!LatestVersion, S
<1>5. ASSUME NEW x, x # d
      PROVE  Memory!LatestVersion(k, x) = Memory!LatestVersion(l, x)
  <2>1. Memory!Of(k, x) = Memory!Of(l, x) /\ Memory!Of(l, x) \subseteq 1..m
    BY <1>1, <1>5 DEF Memory!Of
  <2>2. Memory!Of(l, x) # {} => Memory!Max(Memory!Of(l, x)) \in 1..m
    <3> DEFINE S == Memory!Of(l, x)
    <3>1. S \subseteq Nat /\ \A i \in S : i <= m
      BY <1>1, <2>1
    <3> HIDE DEF S
    <3>2. S # {} => Max(S) \in S
      BY <1>1, <3>1, HasMax
    <3> QED
      BY <2>1, <3>2, MemoryStore DEF S
  <2> QED
    BY <1>1, <2>1, <2>2 DEF Memory!LatestVersion
<1>6. Memory!LatestVersion(l, d) \in Versions \cup {NoVersion}
  BY LatestIn
<1> HIDE DEF d
<1>7. Rises(l, k)
  <2> SUFFICES ASSUME NEW v \in Versions, NEW x \in Docs,
                      ~Newer(v, Memory!LatestVersion(l, x))
               PROVE  ~Newer(v, Memory!LatestVersion(k, x))
    BY DEF Rises
  <2>1. CASE x = d
    BY <1>2, <1>4, <1>6, <2>1, NotNewerOn DEF d
  <2>2. CASE x # d
    BY <1>5, <2>2
  <2> QED
    BY <2>1, <2>2
<1>8. Taken(k, c)
  BY <1>2, <1>4, <1>6, NotNewerOn DEF Taken, d
<1> QED
  BY <1>1, <1>7, <1>8 DEF k

(* The own entries of a feed that grows stay as they are. *)
LEMMA StandsOn ==
    ASSUME NEW s, NEW t, Whole(s), Whole(t), Grows(s, t), NEW c, Stands(s, c)
    PROVE  Stands(t, c)
<1>1. c.seq \in Seqs(s) /\ Entry(s, c.seq).doc = c.doc
  BY DEF Stands, Entries
<1>2. /\ Seqs(s) = 1..Len(s.feed) /\ Seqs(t) = 1..Len(t.feed)
      /\ Len(s.feed) \in Nat /\ Len(t.feed) \in Nat /\ Len(s.feed) <= Len(t.feed)
      /\ \A q \in Seqs(s) : Entry(s, q) = s.feed[q]
      /\ \A q \in Seqs(t) : Entry(t, q) = t.feed[q]
      /\ \A i \in 1..Len(s.feed) : t.feed[i] = s.feed[i]
  BY FeedIs DEF Grows
<1>3. c.seq \in Seqs(t) /\ Entry(t, c.seq) = Entry(s, c.seq)
  BY <1>1, <1>2
<1> QED
  BY <1>1, <1>3 DEF Stands, Entries

LEMMA RemainsStands ==
    ASSUME NEW s, NEW t, Remains(s, t), NEW c, Stands(s, c)
    PROVE  Stands(t, c)
BY RemainsIs DEF Remains, Stands, Entries

LEMMA MemoryHere ==
    ASSUME MInv, NEW n \in Nodes
    PROVE  /\ store[n] \in Stores /\ Whole(store[n]) /\ Ordered(n, store[n], Clock(n))
           /\ Clock(n) \in Nat /\ Memory!Clock(n) = Clock(n) /\ n \in Databases
           /\ inbox[n].changes \in Seq(Changes) /\ Len(inbox[n].changes) \in Nat
           /\ acked[n] \in Seq(Changes) /\ log \in Seq(Changes)
<1>1. n \in Databases /\ Clock(n) \in Nat
  BY ClockTicks DEF Databases, MInv, MemoryTyped
<1>2. Memory!Clock(n) = Clock(n)
  BY DEF Memory!Clock, Clock
<1>3. /\ inbox[n].changes \in Seq(Changes) /\ Len(inbox[n].changes) \in Nat
      /\ acked[n] \in Seq(Changes) /\ log \in Seq(Changes) /\ store[n] \in Stores
  BY LenProperties DEF MInv, MemoryTyped
<1>4. Ordered(n, store[n], Clock(n))
  BY DEF MInv, MemoryFine
<1> QED
  BY <1>1, <1>2, <1>3, <1>4 DEF Ordered

LEMMA MemoryMarksStay ==
    ASSUME store \in [Nodes -> Stores], store' \in [Nodes -> Stores],
           Memory!AckedIsDelivered, Rises(log, log'),
           \A m \in Nodes : Keeps(store[m], store'[m])
    PROVE  Memory!AckedIsDelivered'
<1> SUFFICES ASSUME NEW n \in Nodes, NEW q \in Seqs(store'[n]),
                    Entry(store'[n], q).source = "local",
                    Entry(store'[n], q).pushed
             PROVE  ~Newer(Entry(store'[n], q).version,
                           Memory!LatestVersion(log', Entry(store'[n], q).doc))
  BY MemoryStore DEF Memory!AckedIsDelivered
<1> DEFINE e == Entry(store'[n], q)
<1>1. q \in Seqs(store[n]) /\ Entry(store[n], q) = e
  BY DEF Keeps
<1>2. e.doc \in Docs /\ e.version \in Versions
  <2>1. store[n] \in Stores /\ q - store[n].base \in 1..Len(store[n].feed)
    BY <1>1, StoreFields DEF Seqs
  <2>2. e \in FeedEntries
    BY <1>1, <2>1, StoreFields DEF Entry
  <2> HIDE DEF e
  <2> QED
    BY <2>2 DEF FeedEntries
<1>3. ~Newer(e.version, Memory!LatestVersion(log, e.doc))
  BY <1>1, MemoryStore DEF Memory!AckedIsDelivered
<1> HIDE DEF e
<1>4. ~Newer(e.version, Memory!LatestVersion(log', e.doc))
  BY <1>2, <1>3 DEF Rises
<1> QED
  BY <1>4 DEF e

(* A step of node n that leaves the memory alone. *)
LEMMA MemoryMoves ==
    ASSUME MInv, NEW n \in Nodes, Listening', store' \in [Nodes -> Stores],
           DOMAIN inbox' = Nodes, inbox'[n].changes \in Seq(Changes),
           acked' \in [Nodes -> Seq(Changes)], acked'[n] \in {acked[n], << >>},
           \A m \in Nodes \ {n} : /\ store'[m] = store[m] /\ inbox'[m] = inbox[m]
                                  /\ acked'[m] = acked[m],
           UNCHANGED <<log, now>>, Keeps(store[n], store'[n]),
           Ordered(n, store'[n], Clock(n)),
           \A c : Stands(store[n], c) => Stands(store'[n], c)
    PROVE  MInv'
<1>1. MemoryTyped'
  BY DEF MInv, MemoryTyped
<1>2. Memory!AckedIsDelivered'
  <2>1. \A m \in Nodes : Keeps(store[m], store'[m])
    BY SameFeedKeeps
  <2> QED
    BY <1>1, <2>1, MemoryMarksStay DEF MInv, MemoryTyped, Rises
<1>3. MemoryFine'
  <2>1. \A m : Clock(m)' = Clock(m)
    BY DEF Clock
  <2>2. \A i : ~(i \in 1..Len(<< >>))
    BY EmptySeq
  <2> QED
    BY <2>1, <2>2 DEF MInv, MemoryFine
<1> QED
  BY <1>1, <1>2, <1>3 DEF MInv

(* One that changes neither its database nor what it has to mark. *)
LEMMA MemoryRests ==
    ASSUME MInv, Listening', UNCHANGED <<store, acked, log, now>>,
           DOMAIN inbox' = Nodes, \A n \in Nodes : inbox'[n].changes \in Seq(Changes)
    PROVE  MInv'
<1>1. MemoryTyped'
  BY DEF MInv, MemoryTyped
<1>2. Memory!AckedIsDelivered'
  <2>1. \A m \in Nodes : Keeps(store[m], store'[m])
    BY SameFeedKeeps
  <2> QED
    BY <1>1, <2>1, MemoryMarksStay DEF MInv, MemoryTyped, Rises
<1>3. MemoryFine'
  <2>1. \A m : Clock(m)' = Clock(m)
    BY DEF Clock
  <2> QED
    BY <2>1 DEF MInv, MemoryFine
<1> QED
  BY <1>1, <1>2, <1>3 DEF MInv

LEMMA MemoryInit == Memory!Init => MInv
<1> SUFFICES ASSUME Memory!Init PROVE MInv
  OBVIOUS
<1> DEFINE New(n) == NewStore([d \in Docs |-> Absent], StartColls[n] \cup {})
<1>1. ASSUME NEW n \in Nodes
      PROVE  store[n] = New(n)
  <2>1. Memory!Born(n) = [d \in Docs |-> Absent]
    BY DEF Memory!Born, NoOldDocs, Memory!Absent, Absent, Memory!NoVersion, NoVersion
  <2>2. {CollOf[d] : d \in NoOldDocs[n]} = {}
    BY DEF NoOldDocs
  <2>3. store[n] = Memory!NewStore(Memory!Born(n), StartColls[n] \cup {CollOf[d] : d \in NoOldDocs[n]})
    BY DEF Memory!Init, Memory!EngineInit
  <2> QED
    BY <2>1, <2>2, <2>3 DEF Memory!NewStore, NewStore
<1>2. \A n \in Nodes : /\ Ordered(n, store[n], Clock(n)) /\ store[n] \in Stores
                       /\ Seqs(store[n]) = {}
  BY <1>1, NewIsOrdered
<1> HIDE DEF New
<1>3. /\ \A n \in Nodes : inbox[n].changes = << >> /\ acked[n] = << >>
      /\ DOMAIN store = Nodes /\ DOMAIN inbox = Nodes
      /\ acked = [n \in Nodes |-> << >>] /\ now = 0 /\ log = << >>
      /\ store = [n \in DOMAIN store |-> store[n]]
  BY DEF Memory!Init, Memory!EngineInit
<1>4. Listening
  BY DEF Memory!Init, Listening
<1>5. MemoryTyped
  <2>1. store \in [Nodes -> Stores]
    BY <1>2, <1>3
  <2> QED
    BY <1>3, <2>1, NothingIsChanges DEF MemoryTyped
<1>6. MemoryFine /\ Memory!AckedIsDelivered
  <2>1. Len(<< >>) = 0 /\ \A i : ~(i \in 1..0)
    BY EmptySeq
  <2>2. MemoryFine
    BY <1>2, <1>3, <2>1 DEF MemoryFine
  <2>3. Memory!AckedIsDelivered
    BY <1>2, MemoryStore DEF Memory!AckedIsDelivered
  <2> QED
    BY <2>2, <2>3
<1> QED
  BY <1>4, <1>5, <1>6 DEF MInv

-----------------------------------------------------------------------------
(* The steps of the nodes of a memory. *)
LEMMA MemoryWrite ==
    ASSUME MInv, NEW n \in Nodes, NEW d \in Docs, NEW op \in {"upsert", "delete"},
           Memory!Write(n, d, op), UNCHANGED <<log, Memory!live>>
    PROVE  MInv'
<1> DEFINE s == store[n]
           t == LocalWrite(s, n, d, op, Clock(n))
<1>1. /\ store' = [store EXCEPT ![n] = t]
      /\ UNCHANGED <<inbox, acked, log, now, hears, starting, unwatch>>
  BY MemoryStore, MemoryHere DEF Memory!Write, Memory!engine, Memory!live
<1>2. op \in Ops
  BY DEF Ops
<1>3. Records(s, t, n, d, op, Clock(n))
  BY <1>2, MemoryHere, LocalWriteRecords
<1>4. Grows(s, t) /\ t \in Stores /\ Keeps(s, t)
  BY <1>2, MemoryHere, LocalWriteGrows, GrowsIsStore
<1> HIDE DEF t
<1>5. Ordered(n, t, Clock(n)) /\ Whole(t)
  BY <1>2, <1>3, MemoryHere, OrderedRecords DEF Ordered
<1>6. /\ store' \in [Nodes -> Stores] /\ store'[n] = t
      /\ \A m \in Nodes \ {n} : store'[m] = store[m]
  BY <1>1, <1>4 DEF MInv, MemoryTyped
<1>7. \A c : Stands(s, c) => Stands(t, c)
  BY <1>4, <1>5, MemoryHere, StandsOn
<1>8. Listening' /\ DOMAIN inbox' = Nodes /\ inbox'[n].changes \in Seq(Changes)
      /\ acked' \in [Nodes -> Seq(Changes)]
  BY <1>1 DEF MInv, MemoryTyped, Listening
<1> HIDE DEF s
<1> QED
  BY <1>1, <1>4, <1>5, <1>6, <1>7, <1>8, MemoryMoves DEF s

LEMMA MemoryApplies ==
    ASSUME MInv, NEW n \in Nodes, NEW k \in 0..Len(inbox[n].changes), NEW x,
           store' = [store EXCEPT ![n] = Memory!Applied(n, k)],
           inbox' = [inbox EXCEPT ![n] = [changes |-> << >>, cursor |-> x]],
           UNCHANGED <<acked, log, now>>, Listening'
    PROVE  MInv'
<1> DEFINE s == store[n]
           cs == SubSeq(inbox[n].changes, 1, k)
           t == ApplyAll(s, n, cs, Clock(n), Resolver)
<1>1. store' = [store EXCEPT ![n] = t]
  BY MemoryStore, MemoryHere DEF Memory!Applied
<1>2. cs \in Seq(Changes)
  BY MemoryHere, PrefixIs
<1> HIDE DEF cs
<1>3. Ordered(n, t, Clock(n)) /\ Grows(s, t)
  BY <1>2, MemoryHere, OrderedAppliesAll
<1> HIDE DEF t
<1>4. t \in Stores /\ Keeps(s, t) /\ Whole(t)
  BY <1>3, MemoryHere, GrowsIsStore DEF Ordered
<1>5. /\ store' \in [Nodes -> Stores] /\ store'[n] = t
      /\ \A m \in Nodes \ {n} : store'[m] = store[m]
  BY <1>1, <1>4 DEF MInv, MemoryTyped
<1>6. \A c : Stands(s, c) => Stands(t, c)
  BY <1>3, <1>4, MemoryHere, StandsOn
<1>7. /\ DOMAIN inbox' = Nodes /\ inbox'[n].changes \in Seq(Changes)
      /\ \A m \in Nodes \ {n} : inbox'[m] = inbox[m]
      /\ acked' \in [Nodes -> Seq(Changes)]
  BY NothingIsChanges DEF MInv, MemoryTyped
<1> HIDE DEF s
<1> QED
  BY <1>3, <1>4, <1>5, <1>6, <1>7, MemoryMoves DEF s

(* markPushed(): what is marked is no newer than what it stands for. *)
LEMMA MemoryMark ==
    ASSUME MInv, NEW n \in Nodes, Memory!MarkAcked(n), UNCHANGED <<log, Memory!live>>
    PROVE  MInv'
<1> DEFINE s == store[n]
           cs == acked[n]
           t == MarkPushed(s, cs)
<1>1. /\ store' = [store EXCEPT ![n] = t] /\ acked' = [acked EXCEPT ![n] = << >>]
      /\ UNCHANGED <<inbox, log, now, hears, starting, unwatch>>
  BY MemoryStore DEF Memory!MarkAcked, Memory!limits, Memory!live
<1>2. /\ t \in Stores /\ Seqs(t) = Seqs(s)
      /\ \A q \in Seqs(s) :
           \/ Entry(t, q) = Entry(s, q)
           \/ \E k \in DOMAIN cs : cs[k].doc = Entry(t, q).doc /\ q <= cs[k].seq
  BY MemoryHere, MarkPushedMarks
<1>3. Remains(s, t)
  BY MemoryHere, MarkPushedIs, MarksRemains
<1> HIDE DEF t
<1>4. Ordered(n, t, Clock(n))
  BY <1>3, MemoryHere, OrderedRemains
<1>5. /\ store' \in [Nodes -> Stores] /\ store'[n] = t
      /\ \A m \in Nodes \ {n} : store'[m] = store[m]
      /\ acked' \in [Nodes -> Seq(Changes)] /\ acked'[n] = << >>
      /\ \A m \in Nodes \ {n} : acked'[m] = acked[m]
  BY <1>1, <1>2, NothingIsChanges DEF MInv, MemoryTyped
<1>6. MemoryTyped' /\ Listening'
  BY <1>1, <1>5 DEF MInv, MemoryTyped, Listening
<1>7. MemoryFine'
  <2>1. \A m : Clock(m)' = Clock(m)
    BY <1>1 DEF Clock
  <2>2. \A i : ~(i \in 1..Len(<< >>))
    BY EmptySeq
  <2> QED
    BY <1>1, <1>4, <1>5, <2>1, <2>2 DEF MInv, MemoryFine
<1>8. ASSUME NEW q \in Seqs(t), Entry(t, q).source = "local", Entry(t, q).pushed
      PROVE  ~Newer(Entry(t, q).version, Memory!LatestVersion(log, Entry(t, q).doc))
  <2>1. q \in Seqs(s)
    BY <1>2
  <2>2. CASE Entry(t, q) = Entry(s, q)
    BY <1>8, <2>1, <2>2, MemoryStore DEF MInv, Memory!AckedIsDelivered
  <2>3. CASE \E k \in DOMAIN cs : cs[k].doc = Entry(t, q).doc /\ q <= cs[k].seq
    <3>1. PICK k \in DOMAIN cs : cs[k].doc = Entry(t, q).doc /\ q <= cs[k].seq
      BY <2>3
    <3> DEFINE c == cs[k]
               e == Entry(t, q)
               latest == Memory!LatestVersion(log, c.doc)
    <3>2. k \in 1..Len(cs)
      BY MemoryHere, LenProperties
    <3>3. c.doc \in Docs /\ c.version \in Versions
      BY <3>2, MemoryHere, ChangeIn
    <3>4. Stands(s, c) /\ Taken(log, c)
      BY <3>2 DEF MInv, MemoryFine
    <3>5. /\ c.seq \in Own(s) /\ Entry(s, c.seq).version = c.version
      BY <3>4 DEF Stands, Entries, Own
    <3>6. /\ q \in Own(s) /\ Entry(s, q).version = e.version /\ e.doc = c.doc
      BY <1>3, <1>8, <2>1, <3>1 DEF Remains, Own
    <3>7. e.version \in Versions /\ q \in Nat /\ c.seq \in Nat /\ q <= c.seq
      <4>1. e.version \in Versions
        BY <3>6, VersionsIn, MemoryHere DEF Own
      <4>2. q \in Nat /\ c.seq \in Nat
        BY <3>5, <3>6, SeqsFinite, MemoryHere DEF Own
      <4> QED
        BY <3>1, <4>1, <4>2
    <3>8. e.version = c.version \/ Newer(c.version, e.version)
      <4>1. CASE q = c.seq
        BY <3>5, <3>6, <4>1
      <4>2. CASE q < c.seq
        BY <3>5, <3>6, <4>2, MemoryHere, OwnInOrder
      <4> QED
        BY <3>7, <4>1, <4>2
    <3>9. latest \in Versions \cup {NoVersion} /\ ~Newer(c.version, latest)
      BY <3>4, MemoryHere, LatestIn DEF Taken
    <3> HIDE DEF c, e, latest
    <3>10. ~Newer(e.version, latest)
      <4>1. latest \in Versions
        BY <3>9 DEF Newer
      <4> QED
        BY <3>3, <3>7, <3>8, <3>9, <4>1, NewerIs
    <3> QED
      BY <3>6, <3>10 DEF e, latest
  <2> QED
    BY <1>2, <2>1, <2>2, <2>3
<1>9. Memory!AckedIsDelivered'
  <2> SUFFICES ASSUME NEW m \in Nodes, NEW q \in Seqs(store'[m]),
                      Entry(store'[m], q).source = "local", Entry(store'[m], q).pushed
               PROVE  ~Newer(Entry(store'[m], q).version,
                             Memory!LatestVersion(log, Entry(store'[m], q).doc))
    BY <1>1, MemoryStore DEF Memory!AckedIsDelivered
  <2>1. CASE m = n
    BY <1>5, <1>8, <2>1
  <2>2. CASE m # n
    BY <1>5, <2>2, MemoryStore DEF MInv, Memory!AckedIsDelivered
  <2> QED
    BY <2>1, <2>2
<1> QED
  BY <1>6, <1>7, <1>9 DEF MInv

LEMMA MemoryPull ==
    ASSUME MInv, NEW n \in Nodes, Memory!Pull(n)
    PROVE  MInv'
<1> DEFINE found == {i \in DOMAIN log : /\ i > cursor[n]
                                        /\ \/ Memory!Colls(n) = {}
                                           \/ CollOf[log[i].doc] \in Memory!Colls(n)}
           batch == Memory!Batch(found, MemoryBatch)
           box == [k \in DOMAIN batch |-> log[batch[k]]]
<1>1. /\ \E x : inbox' = [inbox EXCEPT ![n] = [changes |-> box, cursor |-> x]]
      /\ UNCHANGED <<store, acked, log, now, hears, starting, unwatch>>
  <2> DEFINE x == IF Len(batch) = MemoryBatch THEN batch[MemoryBatch]
                  ELSE Memory!Max({cursor[n], Len(log)})
  <2>1. Memory!PullAnswered(n, [changes |-> box, cursor |-> x]) /\ UNCHANGED <<log, Memory!live>>
    BY DEF Memory!Pull
  <2> HIDE DEF box, x
  <2>2. inbox' = [inbox EXCEPT ![n] = [changes |-> box, cursor |-> x]]
    BY <2>1 DEF Memory!PullAnswered
  <2>3. UNCHANGED <<store, acked, log, now, hears, starting, unwatch>>
    BY <2>1 DEF Memory!PullAnswered, Memory!limits, Memory!live
  <2> QED
    BY <2>2, <2>3
<1>2. Len(log) \in Nat /\ DOMAIN log = 1..Len(log) /\ \A i \in 1..Len(log) : log[i] \in Changes
  BY MemoryHere, LenProperties, ChangeIn
<1>3. found \subseteq Nat /\ found \subseteq 1..Len(log) /\ IsFiniteSet(found)
  <2>1. found \subseteq 1..Len(log)
    BY <1>2
  <2> HIDE DEF found
  <2>2. IsFiniteSet(1..Len(log))
    BY <1>2, FS_Interval
  <2>3. IsFiniteSet(found)
    BY <2>1, <2>2, FS_Subset
  <2>4. found \subseteq Nat
    BY <1>2, <2>1
  <2> QED
    BY <2>1, <2>3, <2>4
<1> HIDE DEF found
<1>4. batch \in Seq(found)
  <2>1. Memory!Batch(found, MemoryBatch) = Batch(found, MemoryBatch)
    BY Zenon DEF Memory!Batch, Batch, Memory!Min, Min, Memory!Cardinality, Cardinality
  <2> QED
    BY <1>3, <2>1, BatchWithin, PartsAssumption
<1> HIDE DEF batch
<1>5. box \in Seq(Changes)
  <2>1. Len(batch) \in Nat /\ DOMAIN batch = 1..Len(batch)
        /\ \A k \in 1..Len(batch) : batch[k] \in found
    BY <1>4, LenProperties, ElementOfSeq
  <2>2. box \in [1..Len(batch) -> Changes]
    BY <1>2, <1>3, <2>1
  <2> HIDE DEF box
  <2> QED
    BY <2>1, <2>2, FunctionAsSeq
<1> HIDE DEF box
<1>6. DOMAIN inbox' = Nodes /\ \A m \in Nodes : inbox'[m].changes \in Seq(Changes)
  BY <1>1, <1>5 DEF MInv, MemoryTyped
<1>7. Listening'
  BY <1>1 DEF MInv, Listening
<1> QED
  BY <1>1, <1>6, <1>7, MemoryRests

LEMMA MemoryTicks ==
    ASSUME MInv, Memory!Tick, UNCHANGED <<log, Memory!live>>
    PROVE  MInv'
<1>1. now' = now + 1 /\ now \in Nat
      /\ UNCHANGED <<store, inbox, acked, log, hears, starting, unwatch>>
  BY DEF Memory!Tick, Memory!engine, Memory!live, MInv, MemoryTyped
<1>2. MemoryTyped' /\ Listening' /\ Memory!AckedIsDelivered'
  BY <1>1 DEF MInv, MemoryTyped, Listening, Memory!AckedIsDelivered
<1>3. MemoryFine'
  <2>1. ASSUME NEW n \in Nodes
        PROVE  Ordered(n, store[n], Clock(n)')
    <3>1. Clock(n) \in Nat /\ Clock(n)' \in Nat /\ Clock(n) <= Clock(n)'
      <4>1. Skew[n] \in Nat
        BY Numbered DEF Databases
      <4> QED
        BY <1>1, <4>1 DEF Clock
    <3> HIDE DEF Clock
    <3> QED
      BY <3>1, MemoryHere, OrderedLater
  <2> QED
    BY <1>1, <2>1 DEF MInv, MemoryFine
<1> QED
  BY <1>2, <1>3 DEF MInv

-----------------------------------------------------------------------------
(* push(): each change is taken in, and heard, one after the other.         *)
Remotes == [log : Seq(Changes), stores : [Nodes -> Stores]]

Sound(r) == \A m \in Nodes : Ordered(m, r.stores[m], Clock(m))

Advanced(r, u) == /\ Rises(r.log, u.log)
                  /\ \A m \in Nodes : Grows(r.stores[m], u.stores[m])

LEMMA AdvancedOn ==
    ASSUME NEW r \in Remotes, NEW u, NEW w, Advanced(r, u), Advanced(u, w)
    PROVE  Advanced(r, w)
<1>1. Rises(r.log, w.log)
  BY DEF Advanced, Rises
<1>2. ASSUME NEW m \in Nodes
      PROVE  Grows(r.stores[m], w.stores[m])
  <2>1. r.stores[m] \in Stores
    BY DEF Remotes
  <2> QED
    BY <2>1, GrowsOn DEF Advanced
<1> QED
  BY <1>1, <1>2 DEF Advanced

LEMMA IngestTakes ==
    ASSUME MInv, NEW r \in Remotes, Sound(r), NEW c \in Changes
    PROVE  LET u == Memory!Ingest(r, c)
           IN u \in Remotes /\ Sound(u) /\ Advanced(r, u) /\ Taken(u.log, c)
<1> DEFINE u == Memory!Ingest(r, c)
           v == Memory!LatestVersion(r.log, c.doc)
<1>0. /\ r.log \in Seq(Changes) /\ \A m \in Nodes : r.stores[m] \in Stores
      /\ r = [log |-> r.log, stores |-> r.stores]
  BY DEF Remotes
<1>1. CASE ~Newer(c.version, v)
  <2>1. u = r
    BY <1>1, MemoryStore DEF Memory!Ingest
  <2> HIDE DEF u
  <2>2. Advanced(r, u)
    BY <1>0, <2>1, GrowsSelf DEF Advanced, Rises
  <2> QED
    BY <1>1, <2>1, <2>2 DEF u, Taken
<1>2. CASE Newer(c.version, v)
  <2> DEFINE e == [c EXCEPT !.seq = 0]
             Heard(m) == Memory!Hear(m, r.stores[m], c)
             new == [m \in Nodes |-> Heard(m)]
  <2>1. e \in Changes /\ e.doc = c.doc /\ e.version = c.version
    BY DEF Changes
  <2>2. u = [log |-> Append(r.log, e), stores |-> new]
    BY <1>2, MemoryStore DEF Memory!Ingest
  <2> HIDE DEF e, u
  <2>3. /\ Append(r.log, e) \in Seq(Changes)
        /\ Rises(r.log, Append(r.log, e)) /\ Taken(Append(r.log, e), c)
    BY <1>0, <1>2, <2>1, LatestTakes
  <2>4. ASSUME NEW m \in Nodes
        PROVE  /\ Ordered(m, Heard(m), Clock(m)) /\ Grows(r.stores[m], Heard(m))
               /\ Heard(m) \in Stores
    <3> DEFINE cs == [k \in 1..hears[m] |-> c]
    <3>1. hears[m] \in Nat
      BY DEF MInv, Listening
    <3>2. cs \in Seq(Changes)
      <4>1. cs \in [1..hears[m] -> Changes]
        OBVIOUS
      <4> HIDE DEF cs
      <4> QED
        BY <3>1, <4>1, FunctionAsSeq
    <3>3. Heard(m) = ApplyAll(r.stores[m], m, cs, Clock(m), Resolver)
      BY MemoryStore, MemoryHere DEF Memory!Hear
    <3> HIDE DEF cs, Heard
    <3>4. Ordered(m, r.stores[m], Clock(m)) /\ Clock(m) \in Nat
      BY MemoryHere DEF Sound
    <3> QED
      BY <3>2, <3>3, <3>4, OrderedAppliesAll DEF Ordered, Whole
  <2> HIDE DEF Heard
  <2>5. new \in [Nodes -> Stores] /\ \A m \in Nodes : new[m] = Heard(m)
    BY <2>4
  <2> HIDE DEF new
  <2>6. u \in Remotes /\ u.log = Append(r.log, e) /\ u.stores = new
    BY <2>2, <2>3, <2>5 DEF Remotes
  <2>7. Sound(u) /\ Advanced(r, u)
    BY <2>3, <2>4, <2>5, <2>6 DEF Sound, Advanced
  <2> QED
    BY <2>3, <2>6, <2>7 DEF u
<1> QED
  BY <1>1, <1>2

LEMMA RoundTakes ==
    ASSUME MInv, NEW cs \in Seq(Changes)
    PROVE  LET first == [log |-> log, stores |-> store]
               after[k \in 0..Len(cs)] ==
                 IF k = 0 THEN first ELSE Memory!Ingest(after[k - 1], cs[k])
               last == after[Len(cs)]
           IN /\ last \in Remotes /\ Sound(last) /\ Advanced(first, last)
              /\ \A i \in 1..Len(cs) : Taken(last.log, cs[i])
<1> DEFINE first == [log |-> log, stores |-> store]
           m == Len(cs)
           T == {r \in Remotes : Sound(r)}
           next(k, t) == Memory!Ingest(t, cs[k])
           step == [p \in (1..m) \X T |-> next(p[1], p[2])]
           Rec(g) == g = [k \in 0..m |-> IF k = 0 THEN first ELSE next(k, g[k - 1])]
           after == CHOOSE g : Rec(g)
<1>1. m \in Nat /\ \A k \in 1..m : cs[k] \in Changes
  BY LenProperties, ChangeIn
<1>2. first \in T /\ first \in Remotes
  BY DEF Remotes, Sound, MInv, MemoryTyped, MemoryFine
<1>3. Advanced(first, first)
  BY GrowsSelf DEF Advanced, Rises, MInv, MemoryTyped
<1>4. \A k \in 1..m, t \in T :
         /\ next(k, t) \in T /\ Advanced(t, next(k, t)) /\ Taken(next(k, t).log, cs[k])
  BY <1>1, IngestTakes
<1>5. T \subseteq Remotes
  OBVIOUS
<1> HIDE DEF next, m, T, first
<1>6. /\ step \in [(1..m) \X T -> T]
      /\ \A k \in 1..m, t \in T : step[<<k, t>>] = next(k, t)
  BY <1>4
<1> HIDE DEF step
<1>7. PICK g : Recursion(T, m, first, step, g)
  BY <1>1, <1>2, <1>6, RecursionExists
<1>9. Rec(g)
  <2>1. \A k \in 0..m : g[k] = IF k = 0 THEN first ELSE next(k, g[k - 1])
    <3>1. \A k \in 1..m : g[k - 1] \in T
      BY <1>1, <1>7 DEF Recursion
    <3>2. \A k \in 1..m : step[<<k, g[k - 1]>>] = next(k, g[k - 1])
      BY <1>6, <3>1
    <3>3. \A k \in 0..m : k # 0 => k \in 1..m
      BY <1>1
    <3> QED
      BY <1>7, <3>2, <3>3 DEF Recursion
  <2> QED
    BY <1>7, <2>1 DEF Recursion
<1>10. Rec(after)
  BY <1>9
<1>11. \A k \in 0..m : after[k] = IF k = 0 THEN first ELSE next(k, after[k - 1])
  BY <1>10
<1> HIDE DEF after
<1> DEFINE Through(k) == /\ after[k] \in T /\ Advanced(first, after[k])
                         /\ \A i \in 1..k : Taken(after[k].log, cs[i])
<1>12. Through(m)
  <2> DEFINE S == {k \in 0..m : Through(k)}
  <2>1. 0 \in S
    <3>1. after[0] = first /\ 0 \in 0..m /\ \A i : ~(i \in 1..0)
      BY <1>1, <1>11
    <3> QED
      BY <1>2, <1>3, <3>1
  <2>2. ASSUME NEW k \in 1..m, k - 1 \in S
        PROVE  k \in S
    <3>1. k \in 0..m /\ k # 0 /\ k - 1 \in 0..m
      BY <1>1
    <3>2. after[k] = next(k, after[k - 1])
      BY <1>11, <3>1
    <3>3. /\ after[k - 1] \in T /\ Advanced(first, after[k - 1])
          /\ \A i \in 1..(k - 1) : Taken(after[k - 1].log, cs[i])
      BY <2>2
    <3>4. /\ after[k] \in T /\ Advanced(after[k - 1], after[k])
          /\ Taken(after[k].log, cs[k])
      BY <1>4, <3>2, <3>3
    <3>5. Advanced(first, after[k])
      BY <1>2, <3>3, <3>4, AdvancedOn
    <3>6. ASSUME NEW i \in 1..k
          PROVE  Taken(after[k].log, cs[i])
      <4>1. CASE i = k
        BY <3>4, <4>1
      <4>2. CASE i # k
        <5>1. i \in 1..(k - 1) /\ i \in 1..m
          BY <1>1, <4>2
        <5>2. cs[i].version \in Versions /\ cs[i].doc \in Docs
          BY <5>1, ChangeIn DEF m
        <5>3. Taken(after[k - 1].log, cs[i])
          BY <3>3, <5>1
        <5> QED
          BY <3>4, <5>2, <5>3 DEF Taken, Advanced, Rises
      <4> QED
        BY <4>1, <4>2
    <3> QED
      BY <3>1, <3>4, <3>5, <3>6
  <2> HIDE DEF S
  <2>3. 0..m \subseteq S
    BY <1>1, <2>1, <2>2, Climb
  <2>4. m \in S
    BY <1>1, <2>3
  <2> QED
    BY <2>4 DEF S
<1> HIDE DEF Through
<1>13. /\ after[m] \in Remotes /\ Sound(after[m]) /\ Advanced(first, after[m])
       /\ \A i \in 1..m : Taken(after[m].log, cs[i])
  BY <1>12 DEF Through, T
<1> QED
  BY <1>13 DEF after, m, next, first

LEMMA MemoryPush ==
    ASSUME MInv, NEW n \in Nodes, Memory!PushRound(n)
    PROVE  MInv'
<1> DEFINE cs == Memory!Pending(store[n], Explicit, MemoryBatch)
           first == [log |-> log, stores |-> store]
           Rec(g) == g = [k \in 0..Len(cs) |->
                            IF k = 0 THEN first ELSE Memory!Ingest(g[k - 1], cs[k])]
           after == CHOOSE g : Rec(g)
           last == after[Len(cs)]
           s == store[n]
           Q == Latest(s, Within(s, Unpushed(s), Explicit))
<1>1. /\ log' = last.log /\ store' = last.stores
      /\ acked' = [acked EXCEPT ![n] = cs]
  BY DEF Memory!PushRound
<1>2. UNCHANGED <<inbox, now, hears, starting, unwatch>>
  BY DEF Memory!PushRound, Memory!limits, Memory!live
<1>3. /\ cs \in Seq(Changes)
      /\ \A i \in 1..Len(cs) : \E q \in Q : cs[i] = ChangeAt(s, q)
  <2>1. cs = Pending(s, Explicit, MemoryBatch)
    BY MemoryStore
  <2> HIDE DEF cs
  <2> QED
    BY <2>1, PendingFrom, MemoryHere, PartsAssumption
<1>4. /\ last \in Remotes /\ Sound(last) /\ Advanced(first, last)
      /\ \A i \in 1..Len(cs) : Taken(last.log, cs[i])
  <2> HIDE DEF cs
  <2> QED
    BY <1>3, RoundTakes
<1>5. Q \subseteq Seqs(s) /\ \A q \in Q : Entry(s, q).source = "local"
  BY DEF Latest, Within, Unpushed
<1> HIDE DEF last, cs, Q
<1>6. /\ log' \in Seq(Changes) /\ store' \in [Nodes -> Stores] /\ Rises(log, log')
      /\ \A m \in Nodes : Grows(store[m], store'[m]) /\ Ordered(m, store'[m], Clock(m))
  BY <1>1, <1>4 DEF Remotes, Sound, Advanced
<1>7. /\ acked' \in [Nodes -> Seq(Changes)] /\ acked'[n] = cs
      /\ \A m \in Nodes \ {n} : acked'[m] = acked[m]
  BY <1>1, <1>3 DEF MInv, MemoryTyped
<1>8. MemoryTyped' /\ Listening'
  BY <1>2, <1>6, <1>7 DEF MInv, MemoryTyped, Listening
<1>9. Memory!AckedIsDelivered'
  <2>1. \A m \in Nodes : store[m] \in Stores /\ Keeps(store[m], store'[m])
    BY <1>6, MemoryHere, GrowsIsStore
  <2> QED
    BY <1>6, <2>1, MemoryMarksStay DEF MInv, MemoryTyped
<1>10. \A m \in Nodes : Whole(store[m]) /\ Whole(store'[m])
  BY <1>6, MemoryHere DEF Ordered
<1>11. ASSUME NEW m \in Nodes, NEW i \in 1..Len(acked'[m])
       PROVE  Stands(store[m], acked'[m][i]) /\ Taken(log', acked'[m][i])
  <2>1. CASE m = n
    <3>1. i \in 1..Len(cs) /\ acked'[m][i] = cs[i]
      BY <1>7, <2>1
    <3>2. PICK q \in Q : cs[i] = ChangeAt(s, q)
      BY <1>3, <3>1
    <3>3. q \in Seqs(s) /\ Entry(s, q).source = "local"
      BY <1>5
    <3>4. cs[i].seq = q /\ cs[i].doc = Entry(s, q).doc /\ cs[i].version = Entry(s, q).version
      BY <3>2, ChangeAtFields
    <3>5. Stands(s, cs[i])
      BY <3>3, <3>4 DEF Stands, Entries
    <3>6. Taken(log', cs[i])
      BY <1>1, <1>4, <3>1
    <3> QED
      BY <2>1, <3>1, <3>5, <3>6
  <2>2. CASE m # n
    <3> DEFINE c == acked[m][i]
    <3>1. i \in 1..Len(acked[m]) /\ acked'[m][i] = c
      BY <1>7, <2>2
    <3>2. Stands(store[m], c) /\ Taken(log, c)
      BY <3>1 DEF MInv, MemoryFine
    <3>3. c.version \in Versions /\ c.doc \in Docs
      BY <3>1, MemoryHere, ChangeIn
    <3> HIDE DEF c
    <3>4. Taken(log', c)
      BY <1>6, <3>2, <3>3 DEF Taken, Rises
    <3> QED
      BY <3>1, <3>2, <3>4
  <2> QED
    BY <2>1, <2>2
<1>12. MemoryFine'
  <2>1. \A m : Clock(m)' = Clock(m)
    BY <1>2 DEF Clock
  <2>2. \A m \in Nodes : \A i \in 1..Len(acked'[m]) : Stands(store'[m], acked'[m][i])
    BY <1>6, <1>10, <1>11, StandsOn
  <2> QED
    BY <1>6, <1>11, <2>1, <2>2 DEF MemoryFine
<1> QED
  BY <1>8, <1>9, <1>12 DEF MInv

-----------------------------------------------------------------------------
(* The other steps of a round; start(), the watch it sets up, and stop().   *)
LEMMA MemoryApply ==
    ASSUME MInv, NEW n \in Nodes, Memory!ApplyPulled(n), UNCHANGED <<log, Memory!live>>
    PROVE  MInv'
<1>1. /\ store' = [store EXCEPT ![n] = Memory!Applied(n, Len(inbox[n].changes))]
      /\ inbox' = [inbox EXCEPT ![n] = [changes |-> << >>, cursor |-> cursor'[n]]]
      /\ UNCHANGED <<acked, log, now, hears, starting, unwatch>>
  BY DEF Memory!ApplyPulled, Memory!InboxEmptied, Memory!limits, Memory!live
<1>2. Listening'
  BY <1>1 DEF MInv, Listening
<1>3. PICK k \in 0..Len(inbox[n].changes) : k = Len(inbox[n].changes)
  BY MemoryHere
<1> QED
  BY <1>1, <1>2, <1>3, MemoryApplies

LEMMA MemoryFails ==
    ASSUME MInv, NEW n \in Nodes, Memory!RoundFails(n)
    PROVE  MInv'
<1>1. PICK k \in 0..(Len(inbox[n].changes) - 1) :
        store' = [store EXCEPT ![n] = Memory!Applied(n, k)]
  BY DEF Memory!RoundFails, Memory!ApplyFails
<1>2. /\ inbox' = [inbox EXCEPT ![n] = [changes |-> << >>, cursor |-> cursor'[n]]]
      /\ starting' = [starting EXCEPT ![n] = 0]
      /\ UNCHANGED <<acked, log, now, hears, unwatch>>
  BY DEF Memory!RoundFails, Memory!ApplyFails, Memory!InboxEmptied
<1>3. Listening'
  BY <1>2 DEF MInv, Listening
<1>4. k \in 0..Len(inbox[n].changes)
  BY MemoryHere
<1> QED
  BY <1>1, <1>2, <1>3, <1>4, MemoryApplies

LEMMA MemoryStarts ==
    ASSUME MInv, NEW n \in Nodes, Memory!Starts(n)
    PROVE  MInv'
<1>1. Memory!Seed(store[n], n, Memory!Colls(n)) = store[n]
  BY MemoryHere, NothingToSeed DEF Ordered
<1>2. store' = store
  <2>1. store' = IF everPushed[n] THEN store
                 ELSE [store EXCEPT ![n] = Memory!Seed(store[n], n, Memory!Colls(n))]
    BY DEF Memory!Starts
  <2>2. [store EXCEPT ![n] = store[n]] = store
    BY DEF MInv, MemoryTyped
  <2> QED
    BY <1>1, <2>1, <2>2
<1>3. /\ starting' = [starting EXCEPT ![n] = starting[n] + 1]
      /\ UNCHANGED <<inbox, acked, now, log, hears, unwatch>>
  BY DEF Memory!Starts, Memory!limits
<1>4. Listening'
  BY <1>3 DEF MInv, Listening
<1>5. DOMAIN inbox' = Nodes /\ \A m \in Nodes : inbox'[m].changes \in Seq(Changes)
  BY <1>3 DEF MInv, MemoryTyped
<1> QED
  BY <1>2, <1>3, <1>4, <1>5, MemoryRests

LEMMA MemoryListens ==
    ASSUME MInv, NEW n \in Nodes,
           Memory!GoesLive(n) \/ Memory!Round(n) \/ Memory!Stop(n)
    PROVE  MInv'
<1>1. UNCHANGED <<store, inbox, acked, log, now>>
  BY DEF Memory!GoesLive, Memory!Round, Memory!Stop, Memory!BeginRound,
         Memory!engine, Memory!limits
<1>2. Listening'
  <2>0. hears[n] \in Nat /\ starting[n] \in Nat /\ (unwatch[n] => hears[n] > 0)
    BY DEF MInv, Listening
  <2>1. CASE Memory!GoesLive(n)
    <3>1. /\ starting[n] > 0 /\ starting' = [starting EXCEPT ![n] = 0]
          /\ \/ /\ hears' = [hears EXCEPT ![n] = hears[n] + starting[n]]
                /\ unwatch' = [unwatch EXCEPT ![n] = TRUE]
             \/ UNCHANGED <<hears, unwatch>>
      BY <2>1 DEF Memory!GoesLive
    <3>2. hears[n] + starting[n] \in Nat /\ hears[n] + starting[n] > 0
      BY <2>0, <3>1
    <3> QED
      BY <3>1, <3>2 DEF MInv, Listening
  <2>2. CASE Memory!Round(n)
    BY <2>2 DEF Memory!Round, Memory!live, MInv, Listening
  <2>3. CASE Memory!Stop(n)
    <3> DEFINE left == IF unwatch[n] THEN hears[n] - 1 ELSE hears[n]
    <3>1. /\ unwatch' = [unwatch EXCEPT ![n] = FALSE]
          /\ hears' = [hears EXCEPT ![n] = left] /\ UNCHANGED starting
      BY <2>3 DEF Memory!Stop
    <3>2. left \in Nat
      BY <2>0
    <3> HIDE DEF left
    <3> QED
      BY <3>1, <3>2 DEF MInv, Listening
  <2> QED
    BY <2>1, <2>2, <2>3
<1>3. DOMAIN inbox' = Nodes /\ \A m \in Nodes : inbox'[m].changes \in Seq(Changes)
  BY <1>1 DEF MInv, MemoryTyped
<1> QED
  BY <1>1, <1>2, <1>3, MemoryRests

LEMMA MemoryStep == MInv /\ Memory!Next => MInv'
<1> SUFFICES ASSUME MInv, Memory!Next PROVE MInv'
  OBVIOUS
<1>1. CASE Memory!Tick /\ UNCHANGED <<log, Memory!live>>
  BY <1>1, MemoryTicks
<1>2. ASSUME NEW n \in Nodes, Memory!Local(n), UNCHANGED <<log, Memory!live>>
      PROVE  MInv'
  BY <1>2, MemoryWrite, MemoryApply, MemoryMark DEF Memory!Local
<1>3. ASSUME NEW n \in Nodes, \/ Memory!Pull(n) \/ Memory!PushRound(n)
                              \/ Memory!Starts(n) \/ Memory!GoesLive(n) \/ Memory!Round(n)
                              \/ Memory!RoundFails(n) \/ Memory!Stop(n)
      PROVE  MInv'
  BY <1>3, MemoryPull, MemoryPush, MemoryStarts, MemoryListens, MemoryFails
<1> QED
  BY <1>1, <1>2, <1>3 DEF Memory!Next

-----------------------------------------------------------------------------
(* The three together. *)
MCInv == /\ part = "hub"    => HInv
         /\ part = "tables" => TInv
         /\ part = "memory" => MInv

LEMMA MCInitHolds == MCInit => MCInv
BY InitHolds, TablesInit, MemoryInit DEF MCInit, MCInv

LEMMA MCStepHolds ==
    MCInv /\ [MCNext]_mcVars
      => /\ MCInv'
         /\ [part = "tables" =>
               \A d \in Docs :
                 rows'[d] # rows[d] => Newer(rows'[d].version, rows[d].version)]_mcVars
<1> SUFFICES ASSUME MCInv, [MCNext]_mcVars
             PROVE  /\ MCInv'
                    /\ \/ part = "tables" =>
                            \A d \in Docs :
                              rows'[d] # rows[d] => Newer(rows'[d].version, rows[d].version)
                       \/ UNCHANGED mcVars
  OBVIOUS
<1>1. CASE part = "hub" /\ Next /\ UNCHANGED part
  BY <1>1, StepHolds DEF MCInv
<1>2. CASE part = "tables" /\ Tables!Next /\ UNCHANGED part
  BY <1>2, TablesStep DEF MCInv
<1>3. CASE part = "memory" /\ Memory!Next /\ UNCHANGED part
  BY <1>3, MemoryStep DEF MCInv
<1>4. CASE UNCHANGED mcVars
  <2>0. UNCHANGED <<part, store, engine, limits, hub, rows, delivered>>
    BY <1>4 DEF mcVars, memoryVars, nodeVars
  <2>1. UNCHANGED <<part, store, cursor, inbox, outbox, acked, now, rows, delivered, vars>>
    BY <2>0 DEF engine, limits, vars
  <2>2. UNCHANGED <<log, hears, starting, unwatch>>
    BY <1>4 DEF mcVars, memoryVars, memory
  <2>3. HInv => HInv'
    BY <2>1, StepHolds
  <2>4. TInv => TInv'
    BY <2>1 DEF TInv, TablesTyped, TablesFine, AckedArrived, AckedIsDelivered, Clock
  <2>5. MInv => MInv'
    <3> SUFFICES ASSUME MInv PROVE MInv'
      OBVIOUS
    <3>1. Listening' /\ DOMAIN inbox' = Nodes
          /\ \A n \in Nodes : inbox'[n].changes \in Seq(Changes)
      BY <2>1, <2>2 DEF MInv, MemoryTyped, Listening
    <3> QED
      BY <2>1, <2>2, <3>1, MemoryRests
  <2> QED
    BY <1>4, <2>1, <2>3, <2>4, <2>5 DEF MCInv
<1> QED
  BY <1>1, <1>2, <1>3, <1>4 DEF MCNext

LEMMA MCInvHolds == MCSpec => []MCInv
BY MCInitHolds, MCStepHolds, PTL DEF MCSpec

(* A change is marked as pushed only when the remote has it, or a later     *)
(* change of the document: markPushed() after the answer of push(), for     *)
(* each of the adapters.                                                    *)
THEOREM MarksHaveArrived == MCSpec => []MarkedHasArrived
<1>1. MCInv => MarkedHasArrived
  <2>1. TInv => Tables!AckedIsDelivered
    BY TablesStore DEF TInv, AckedIsDelivered, Tables!AckedIsDelivered
  <2> QED
    BY <2>1 DEF MCInv, HInv, MInv, MarkedHasArrived
<1> QED
  BY <1>1, MCInvHolds, PTL

(* With one writer the row of a document never gives way to an older        *)
(* version, whatever fails, is sent again or is begun anew after a crash:   *)
(* upsert() of the table adapters, which does not compare versions.         *)
THEOREM RowsOnlyRise == MCSpec => RowsNeverGoBack
BY MCInvHolds, MCStepHolds, PTL DEF MCSpec, RowsNeverGoBack
=============================================================================
