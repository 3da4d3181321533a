---------------------------- MODULE SearchProofs ----------------------------
(***************************************************************************)
(* A search index keeps what IndexIsCurrent says of it: for any processes, *)
(* documents, contents and bounds, any number of them in catchUp() or      *)
(* starting at once, and a process that goes down between any two          *)
(* statements.                                                             *)
(*                                                                         *)
(* IndexIsCurrent speaks of a document that nobody is indexing, that has   *)
(* been looked for.  The inductive invariant, IndexInv, says of each       *)
(* document as well                                                        *)
(*                                                                         *)
(*   - that its rows and its mapping are those of one row or of none       *)
(*     (Linked), while nobody indexes it;                                  *)
(*   - what the process that is indexing it has done so far and what that  *)
(*     process has read, statement by statement (InHand): only one does,   *)
(*     as the claim ends where two mix (Alone);                            *)
(*   - if the index has another content than the document, that the        *)
(*     difference is Owed: the document is stamped before the mark, or has *)
(*     been written by a process without the plugin, and then whoever says *)
(*     that it looks for the document still has it in its list (WillDo).   *)
(*                                                                         *)
(* And of the whole, that no two rows have an id in common.  A step is     *)
(* shown to keep that of the document it is about, by a lemma for each     *)
(* action, and of all others because it leaves them as they are (SoundKept)*)
(* or owes them what it did (Debt).                                        *)
(***************************************************************************)
EXTENDS Search, FiniteSetTheorems, WellFoundedInduction, TLAPS

-----------------------------------------------------------------------------
(* The inductive invariant. *)

(* The rows of d, and how the map agrees with them: vector has no map. *)
Of(d) == {e \in entries : e.doc = d}

Linked(d) ==
    \/ Of(d) = {} /\ idMap[d] = 0
    \/ \E e \in Of(d) : Of(d) = {e} /\ idMap[d] = IF plugin = "fts" THEN e.rid ELSE 0

(* The document, as stored, belongs in the index with the content c. *)
Is(d, c) == Indexable(stored[d]) /\ stored[d].is = c

(* p has d to index still, or has nothing to index of it as it is gone. *)
WillDo(p, d) ==
    /\ task[p].step \notin {"drop", "dropMap"}
    /\ stored[d] = NoRecord \/ \E entry \in task[p].todo : entry[1] = d

(* The index may differ from the document, and why it may. *)
Owed(d) ==
    \/ d \in passed
    \/ d \in unseen /\ \A p \in Searchers : d \in task[p].sought => WillDo(p, d)

(* What holds of d while p is between two statements about it. *)
InHand(p, d) ==
    LET t == task[p] IN
    /\ t.step = "clear" => Linked(d) /\ t.prev = idMap[d]
    /\ t.step = "read" => Of(d) = {} /\ t.prev = idMap[d]
    /\ t.step = "unmap" => Of(d) = {} /\ (~Indexable(stored[d]) \/ Owed(d))
    /\ t.step = "put" => Of(d) = {} /\ (Is(d, t.content) \/ Owed(d))
    /\ t.step = "map" => /\ plugin = "fts"
                         /\ \E e \in Of(d) : /\ Of(d) = {e} /\ e.rid = t.prev
                                             /\ Is(d, e.is) \/ Owed(d)
    /\ t.step \in {"drop", "dropMap"} =>
         /\ stored[d] = NoRecord \/ Owed(d)
         /\ IF t.step = "dropMap" /\ t.gone.doc = d
            THEN Of(d) = {} /\ \A o \in t.orphans : o.doc = d => o = t.gone
            ELSE Linked(d) /\ \A o \in t.orphans : o.doc = d => o \in Of(d)
    /\ t.step = "emptyMap" => Of(d) = {} /\ (~Indexable(stored[d]) \/ Owed(d))

(* What holds of a document, and of the index. *)
DocInv(d) ==
    /\ \A p \in Searchers : MidIndex(p, d) => InHand(p, d)
    /\ (\A p \in Searchers : ~MidIndex(p, d)) => Linked(d) /\ (Agrees(d) \/ Owed(d))

Alone ==
    \A d \in Ids, p, q \in Searchers : MidIndex(p, d) /\ MidIndex(q, d) => p = q

Sound ==
    /\ Alone
    /\ \A e, f \in entries : e.rid = f.rid => e = f
    /\ plugin = "vector" => \A d \in Ids : idMap[d] = 0
    /\ \A d \in Ids : DocInv(d)

Typed ==
    /\ TypeOK /\ IsFiniteSet(entries)
    /\ \A p \in Searchers :
         /\ task[p].step \in {"clear", "read", "put", "unmap", "map"} => task[p].doc \in Ids
         /\ task[p].step = "dropMap" => task[p].gone \in task[p].orphans

IndexInv == Typed /\ (~torn => Sound)

-----------------------------------------------------------------------------
(* Numbers, and the id of a new row. *)

LEMMA LeastIn ==
    ASSUME NEW S, S \subseteq Nat, S # {}
    PROVE  Min(S) \in S /\ \A x \in S : Min(S) <= x
<1>1. PICK m \in S : \A x \in S : ~(<<x, m>> \in OpToRel(<, Nat))
  BY NatLessThanWellFounded, WFMin
<1>2. \A x \in S : ~(x < m)
  BY <1>1 DEF OpToRel
<1>3. \E n \in S : \A x \in S : n <= x
  BY <1>2
<1> QED BY <1>3 DEF Min

LEMMA GreaterOfTwo ==
    ASSUME NEW a \in Nat, NEW b \in Nat
    PROVE  Max({a, b}) \in {a, b}
<1>1. \E x \in {a, b} : \A y \in {a, b} : x >= y
  OBVIOUS
<1> QED BY <1>1 DEF Max

LEMMA RidIsFree ==
    ASSUME NEW S \in SUBSET Entries, IsFiniteSet(S)
    PROVE  /\ Rid(S) \in Nat \ {0}
           /\ \A e \in S : e.rid # Rid(S)
<1> DEFINE taken == {e.rid : e \in S}
           all == 1..Cardinality(S) + 1
           rid == [e \in S |-> e.rid]
<1>1. IsFiniteSet(taken) /\ Cardinality(taken) <= Cardinality(S)
  <2>1. rid \in Surjection(S, taken)
    BY DEF Surjection
  <2> QED BY <2>1, FS_Surjection
<1>2. Cardinality(S) \in Nat
  BY FS_CardinalityType
<1>3. IsFiniteSet(all) /\ Cardinality(all) = Cardinality(S) + 1
  BY <1>2, FS_Interval
<1>4. ~ (all \subseteq taken)
  <2>1. ASSUME all \subseteq taken PROVE FALSE
    <3>1. Cardinality(all) <= Cardinality(taken)
      BY <2>1, <1>1, FS_Subset
    <3>2. Cardinality(taken) \in Nat
      BY <1>1, FS_CardinalityType
    <3> HIDE DEF taken, all
    <3> QED BY <3>1, <3>2, <1>1, <1>2, <1>3
  <2> QED BY <2>1
<1>5. all \ taken \in SUBSET Nat /\ all \ taken # {}
  BY <1>2, <1>4
<1>6. Min(all \ taken) \in all \ taken
  BY <1>5, LeastIn
<1>7. Rid(S) = Min(all \ taken)
  BY DEF Rid
<1> QED BY <1>2, <1>6, <1>7

-----------------------------------------------------------------------------
(* The initial states. *)

LEMMA AtFields ==
    ASSUME NEW s \in {"idle", "down", "next", "empty", "emptyMap"}
    PROVE  At(s) \in Tasks /\ At(s).step = s /\ At(s).sought = {} /\ At(s).todo = {}
BY SearchAssumption DEF At, Idle, Tasks

LEMMA InitIsSound == SearchInit => IndexInv
<1> SUFFICES ASSUME SearchInit PROVE IndexInv
  OBVIOUS
<1>1. Typed
  <2>1. Idle \in Tasks /\ Idle.step = "idle"
    BY SearchAssumption DEF Idle, Tasks
  <2>2. TypeOK
    <3>1. torn \in BOOLEAN
      BY DEF SearchInit
    <3>2. high \in 0..MaxTime /\ clock \in 1..MaxTime
      BY SearchAssumption DEF SearchInit
    <3>3. task \in [Searchers -> Tasks]
      BY <2>1 DEF SearchInit
    <3>4. stored \in [Ids -> Documents \cup {NoRecord}] /\ idMap \in [Ids -> Nat]
      BY DEF SearchInit
    <3>5. entries \subseteq Entries /\ unseen \subseteq Ids /\ passed \subseteq Ids
      BY DEF SearchInit
    <3> QED BY <3>1, <3>2, <3>3, <3>4, <3>5 DEF TypeOK, SearchInit
  <2>3. \A p \in Searchers : task[p].step = "idle"
    BY <2>1 DEF SearchInit
  <2> QED BY <2>2, <2>3, FS_EmptySet DEF Typed, SearchInit
<1>2. Sound
  <2>1. \A p \in Searchers, d \in Ids : ~MidIndex(p, d)
    BY DEF SearchInit, MidIndex, Idle
  <2>2. \A d \in Ids : Linked(d) /\ Agrees(d)
    BY DEF SearchInit, Linked, Of, Agrees, Indexable
  <2> QED BY <2>1, <2>2 DEF Sound, Alone, DocInv, SearchInit
<1> QED BY <1>1, <1>2 DEF IndexInv

(* What a catchUp() that begins is about. *)

LEMMA LooksTyped ==
    ASSUME Typed, NEW S \in SUBSET Present
    PROVE  {<<d, stored[d].at>> : d \in S} \in SUBSET (Ids \X (0..MaxTime))
<1>1. \A d \in S : d \in Ids /\ stored[d].at \in 0..MaxTime
  BY DEF Typed, TypeOK, Documents, Present
<1> QED BY <1>1

LEMMA BegunTyped ==
    ASSUME Typed, NEW phase \in {"catchUp", "open"}
    PROVE  /\ Begun(phase) \in Tasks
           /\ Begun(phase).step = "next" /\ Begun(phase).sought = Sought
           /\ Begun(phase).todo = {<<d, stored[d].at>> : d \in Looks}
<1> DEFINE t == At("next")
           todo == {<<d, stored[d].at>> : d \in Looks}
<1>1. todo \in SUBSET (Ids \X (0..MaxTime))
  BY LooksTyped DEF Looks
<1>2. Sought \in SUBSET Ids /\ high \in 0..MaxTime
  BY DEF Typed, TypeOK, Sought
<1>3. t \in Tasks /\ t.step = "next"
  BY AtFields
<1>4. Begun(phase) = [t EXCEPT !.phase = phase, !.todo = todo, !.top = high, !.sought = Sought]
  BY DEF Begun
<1> HIDE DEF t, todo
<1>5. Begun(phase) \in Tasks
  BY <1>1, <1>2, <1>3, <1>4 DEF Tasks
<1>6. Begun(phase).step = "next" /\ Begun(phase).sought = Sought /\ Begun(phase).todo = todo
  BY <1>3, <1>4 DEF Tasks
<1> QED BY <1>5, <1>6 DEF todo

-----------------------------------------------------------------------------
(* What a step leaves as it is: the row and the document that a task is at, *)
(* the rows of a document, and what is owed of one.                        *)
SameTask(q) ==
    /\ task'[q].step = task[q].step /\ task'[q].doc = task[q].doc
    /\ task'[q].prev = task[q].prev /\ task'[q].content = task[q].content
    /\ task'[q].orphans = task[q].orphans /\ task'[q].gone = task[q].gone

Quiet(d) == Of(d)' = Of(d) /\ idMap'[d] = idMap[d] /\ plugin' = plugin

Debt(d) ==
    \/ stored'[d] = stored[d] /\ (Owed(d) => Owed(d)')
    \/ Owed(d)'

(* Frames: what holds of a document that a step does not touch goes on to. *)
LEMMA OwedKept ==
    ASSUME NEW d, d \in passed => d \in passed', d \in unseen => d \in unseen',
           stored'[d] = stored[d],
           \A q \in Searchers : d \in task'[q].sought =>
              d \in task[q].sought /\ (WillDo(q, d) => WillDo(q, d)')
    PROVE  Debt(d)
BY DEF Owed, Debt

LEMMA MidKept ==
    ASSUME NEW q, NEW d, SameTask(q)
    PROVE  MidIndex(q, d)' <=> MidIndex(q, d)
BY DEF SameTask, MidIndex

LEMMA LinkedKept ==
    ASSUME NEW d, Quiet(d)
    PROVE  Linked(d) => Linked(d)'
BY DEF Quiet, Linked

LEMMA HandKept ==
    ASSUME NEW q, NEW d, SameTask(q), Quiet(d), Debt(d), InHand(q, d)
    PROVE  InHand(q, d)'
<1>1. Linked(d) => Linked(d)'
  BY LinkedKept
<1>2. /\ Owed(d) => Owed(d)'
      /\ Of(d)' = Of(d) /\ idMap'[d] = idMap[d] /\ plugin' = plugin
  BY DEF Debt, Quiet
<1>3. \A c : Is(d, c) \/ Owed(d) => Is(d, c)' \/ Owed(d)'
  BY <1>2 DEF Is, Indexable, Debt
<1>4. ~Indexable(stored[d]) \/ Owed(d) => ~Indexable(stored[d])' \/ Owed(d)'
  BY <1>2 DEF Indexable, Debt
<1>5. stored[d] = NoRecord \/ Owed(d) => stored'[d] = NoRecord \/ Owed(d)'
  BY <1>2 DEF Debt
<1> HIDE DEF Debt, Quiet
<1> QED BY <1>1, <1>2, <1>3, <1>4, <1>5 DEF InHand, SameTask

LEMMA DocKept ==
    ASSUME NEW d \in Ids, DocInv(d), Quiet(d), Debt(d), NEW p \in Searchers,
           \A q \in Searchers : q # p => SameTask(q),
           SameTask(p) \/ (~MidIndex(p, d) /\ ~MidIndex(p, d)')
    PROVE  DocInv(d)'
<1>1. \A q \in Searchers : MidIndex(q, d)' <=> MidIndex(q, d)
  BY MidKept
<1>2. ASSUME NEW q \in Searchers, MidIndex(q, d)' PROVE InHand(q, d)'
  <2>1. SameTask(q) /\ InHand(q, d)
    BY <1>1, <1>2 DEF DocInv
  <2> QED BY <2>1, HandKept
<1>3. Linked(d) /\ (Agrees(d) \/ Owed(d)) => Linked(d)' /\ (Agrees(d)' \/ Owed(d)')
  <2>1. Linked(d) => Linked(d)'
    BY LinkedKept
  <2>2. stored'[d] = stored[d] => (Agrees(d) => Agrees(d)')
    BY DEF Agrees, Quiet, Of, Indexable
  <2> QED BY <2>1, <2>2 DEF Debt
<1> QED BY <1>1, <1>2, <1>3 DEF DocInv

LEMMA AloneKept ==
    ASSUME Alone, NEW p \in Searchers,
           \A q \in Searchers : q # p => SameTask(q),
           \A d \in Ids : MidIndex(p, d)' =>
              MidIndex(p, d) \/ \A q \in Searchers \ {p} : ~MidIndex(q, d)
    PROVE  Alone'
<1>1. \A q \in Searchers \ {p}, d \in Ids : MidIndex(q, d)' <=> MidIndex(q, d)
  BY MidKept
<1> QED BY <1>1 DEF Alone

(* A step of p keeps the invariant, if it does so of the documents it touches. *)
LEMMA SoundKept ==
    ASSUME Sound, NEW p \in Searchers,
           \A q \in Searchers : q # p => SameTask(q),
           \A d \in Ids : MidIndex(p, d)' =>
              MidIndex(p, d) \/ \A q \in Searchers \ {p} : ~MidIndex(q, d),
           \A e, f \in entries' : e.rid = f.rid => e = f,
           plugin' = "vector" => \A d \in Ids : idMap'[d] = 0,
           \A d \in Ids :
              \/ DocInv(d)'
              \/ /\ Quiet(d) /\ Debt(d)
                 /\ SameTask(p) \/ (~MidIndex(p, d) /\ ~MidIndex(p, d)')
    PROVE  Sound'
<1>1. Alone'
  BY AloneKept DEF Sound
<1>2. \A d \in Ids : DocInv(d)'
  BY DocKept DEF Sound
<1> QED BY <1>1, <1>2 DEF Sound

(* A step that changes what has been written, and what is sought, only. *)
LEMMA NothingIndexed ==
    ASSUME Sound, NEW p \in Searchers, UNCHANGED <<plugin, entries, idMap>>,
           \A q \in Searchers : q # p => SameTask(q),
           SameTask(p) \/ \A d \in Ids : ~MidIndex(p, d) /\ ~MidIndex(p, d)',
           \A d \in Ids : Debt(d)
    PROVE  Sound'
<1>1. \A d \in Ids : Quiet(d)
  BY DEF Quiet, Of
<1>2. \A d \in Ids : MidIndex(p, d)' => MidIndex(p, d)
  BY MidKept
<1>3. \A e, f \in entries' : e.rid = f.rid => e = f
  BY DEF Sound
<1>4. plugin' = "vector" => \A d \in Ids : idMap'[d] = 0
  BY DEF Sound
<1> QED BY <1>1, <1>2, <1>3, <1>4, SoundKept

-----------------------------------------------------------------------------
(* The clock, writes without the plugin, and the beginning of catchUp(). *)

LEMMA TickKeeps ==
    ASSUME IndexInv, ~torn, Tick, NEW p \in Searchers
    PROVE  IndexInv'
<1>1. clock' \in 1..MaxTime
  BY SearchAssumption DEF Tick, IndexInv, Typed, TypeOK
<1>2. Typed'
  BY <1>1 DEF Tick, IndexInv, Typed, TypeOK
<1>3. \A q \in Searchers : SameTask(q)
  BY DEF SameTask, Tick
<1>4. ASSUME NEW d \in Ids PROVE Debt(d)
  BY OwedKept DEF Tick, WillDo
<1>5. Sound'
  BY <1>3, <1>4, NothingIndexed DEF Tick, IndexInv
<1> QED BY <1>2, <1>5 DEF IndexInv

LEMMA UnsoughtFields ==
    ASSUME Typed, NEW D, NEW q \in Searchers
    PROVE  /\ Unsought(D)[q] \in Tasks
           /\ Unsought(D)[q].sought = task[q].sought \ D
           /\ Unsought(D)[q].todo = task[q].todo /\ Unsought(D)[q].step = task[q].step
           /\ Unsought(D)[q].doc = task[q].doc /\ Unsought(D)[q].prev = task[q].prev
           /\ Unsought(D)[q].content = task[q].content
           /\ Unsought(D)[q].orphans = task[q].orphans /\ Unsought(D)[q].gone = task[q].gone
<1>1. task[q] \in Tasks
  BY DEF Typed, TypeOK
<1>2. Unsought(D)[q] = [task[q] EXCEPT !.sought = @ \ D]
  BY DEF Unsought
<1> QED BY <1>1, <1>2 DEF Tasks

LEMMA WritesPlainKeeps ==
    ASSUME IndexInv, ~torn, NEW d \in Ids, NEW doc \in Documents \cup {NoRecord},
           WritesPlain(d, doc), NEW p \in Searchers
    PROVE  IndexInv'
<1> USE DEF IndexInv
<1>1. \A q \in Searchers :
        /\ task'[q] \in Tasks /\ SameTask(q) /\ task'[q].todo = task[q].todo
        /\ task'[q].sought = task[q].sought \ {d}
  BY UnsoughtFields DEF WritesPlain, SameTask
<1>2. stored' \in [Ids -> Documents \cup {NoRecord}]
      /\ \A c \in Ids \ {d} : stored'[c] = stored[c]
  BY DEF WritesPlain, Stamped, Typed, TypeOK
<1>3. Typed'
  <2>1. task' \in [Searchers -> Tasks]
    BY <1>1 DEF WritesPlain, Unsought
  <2>2. unseen' \subseteq Ids /\ passed' \subseteq Ids
    BY DEF WritesPlain, Typed, TypeOK
  <2>3. TypeOK'
    BY <2>1, <2>2, <1>2 DEF WritesPlain, Typed, TypeOK
  <2> QED BY <2>3, <1>1 DEF WritesPlain, Typed, SameTask
<1>4. ASSUME NEW c \in Ids PROVE Debt(c)
  <2>1. CASE c = d
    BY <2>1, <1>1 DEF Debt, Owed, WritesPlain
  <2>2. CASE c # d
    BY <2>2, <1>1, <1>2, OwedKept DEF WritesPlain, WillDo, SameTask
  <2> QED BY <2>1, <2>2
<1>5. Sound'
  BY <1>1, <1>4, NothingIndexed DEF WritesPlain
<1> QED BY <1>3, <1>5

LEMMA BegunDebt ==
    ASSUME Typed, NEW p \in Searchers, NEW phase \in {"catchUp", "open"}, NEW d \in Ids,
           task' = [task EXCEPT ![p] = Begun(phase)], passed' = PassedBy,
           UNCHANGED <<unseen, stored>>
    PROVE  Debt(d)
<1>1. \A q \in Searchers : q # p => task'[q] = task[q]
  BY DEF Typed, TypeOK
<1>2. /\ task'[p].step = "next" /\ task'[p].sought = Sought
      /\ task'[p].todo = {<<c, stored[c].at>> : c \in Looks}
  BY BegunTyped DEF Typed, TypeOK
<1>3. d \in passed => d \in passed'
  BY DEF PassedBy
<1>4. ASSUME d \in Sought, d \notin passed' PROVE WillDo(p, d)'
  <2>1. d \in unseen
    BY <1>4 DEF Sought
  <2>2. CASE d \in Looks
    <3>1. <<d, stored[d].at>> \in task'[p].todo
      BY <2>2, <1>2
    <3>2. <<d, stored[d].at>>[1] = d
      OBVIOUS
    <3> QED BY <3>1, <3>2, <1>2 DEF WillDo
  <2>3. CASE d \notin Present
    BY <2>3, <1>2 DEF Present, WillDo
  <2>4. CASE d \in Present \ Looks
    <3>1. stored[d].at \in Nat /\ high \in Nat
      BY <2>4, SearchAssumption DEF Typed, TypeOK, Present, Documents
    <3>2. stored[d].at < high
      BY <2>4, <3>1 DEF Looks
    <3>3. plugin = "fts" => \E e \in entries : e.doc = d
      BY <2>4, <1>4 DEF Sought
    <3> QED BY <2>1, <2>4, <3>2, <3>3, <1>4 DEF PassedBy
  <2> QED BY <2>2, <2>3, <2>4
<1>5. ASSUME NEW q \in Searchers, Owed(d), d \in task'[q].sought, d \notin passed'
      PROVE  WillDo(q, d)'
  <2>1. CASE q = p
    BY <2>1, <1>5, <1>2, <1>4
  <2>2. CASE q # p
    BY <2>2, <1>1, <1>3, <1>5 DEF Owed, WillDo
  <2> QED BY <2>1, <2>2
<1> QED BY <1>3, <1>5 DEF Debt, Owed

LEMMA BegunKeeps ==
    ASSUME IndexInv, ~torn, NEW p \in Searchers, NEW phase \in {"catchUp", "open"},
           task[p].step \in {"idle", "next", "down"},
           task' = [task EXCEPT ![p] = Begun(phase)], passed' = PassedBy,
           UNCHANGED <<plugin, stored, entries, high, clock, unseen, torn>>,
           idMap' = idMap
    PROVE  IndexInv'
<1> USE DEF IndexInv
<1>1. \A q \in Searchers : q # p => task'[q] = task[q]
  BY DEF Typed, TypeOK
<1>2. task'[p] \in Tasks /\ task'[p].step = "next"
  BY BegunTyped DEF Typed, TypeOK
<1>3. Typed'
  <2>1. task' \in [Searchers -> Tasks]
    BY <1>1, <1>2 DEF Typed, TypeOK
  <2>2. passed' \subseteq Ids
    BY DEF Typed, TypeOK, PassedBy
  <2> QED BY <2>1, <2>2, <1>1, <1>2 DEF Typed, TypeOK
<1>4. \A q \in Searchers : q # p => SameTask(q)
  BY <1>1 DEF SameTask
<1>5. \A d \in Ids : ~MidIndex(p, d) /\ ~MidIndex(p, d)'
  BY <1>2 DEF MidIndex
<1>6. Sound'
  BY <1>4, <1>5, BegunDebt, NothingIndexed
<1> QED BY <1>3, <1>6

LEMMA CatchUpKeeps ==
    ASSUME IndexInv, ~torn, NEW p \in Searchers, CatchUp(p)
    PROVE  IndexInv'
BY BegunKeeps DEF CatchUp

LEMMA ReindexedKeeps ==
    ASSUME IndexInv, ~torn, NEW p \in Searchers, Reindexed(p)
    PROVE  IndexInv'
BY BegunKeeps DEF Reindexed, On

(* A process that stops, or is between two things. *)
LEMMA StopKeeps ==
    ASSUME IndexInv, ~torn, NEW p \in Searchers, NEW s \in {"idle", "down", "empty"},
           task' = [task EXCEPT ![p] = At(s)],
           \A d \in Ids : ~MidIndex(p, d), \A d \in Ids : Debt(d),
           UNCHANGED <<plugin, stored, entries, idMap, clock, passed>>,
           high' \in 0..MaxTime, unseen' \subseteq unseen, torn' \in BOOLEAN
    PROVE  IndexInv'
<1> USE DEF IndexInv
<1>1. \A q \in Searchers : q # p => task'[q] = task[q]
  BY DEF Typed, TypeOK
<1>2. task'[p] \in Tasks /\ task'[p].step = s
  BY AtFields DEF Typed, TypeOK
<1>3. Typed'
  <2>1. task' \in [Searchers -> Tasks]
    BY <1>1, <1>2 DEF Typed, TypeOK
  <2> QED BY <2>1, <1>1, <1>2 DEF Typed, TypeOK
<1>4. \A q \in Searchers : q # p => SameTask(q)
  BY <1>1 DEF SameTask
<1>5. \A d \in Ids : ~MidIndex(p, d)'
  BY <1>2 DEF MidIndex
<1>6. Sound'
  BY <1>4, <1>5, NothingIndexed
<1> QED BY <1>3, <1>6

LEMMA CrashKeeps ==
    ASSUME IndexInv, ~torn, NEW p \in Searchers, Crash(p)
    PROVE  IndexInv'
<1> USE DEF IndexInv
<1>1. task' = [task EXCEPT ![p] = At("down")] /\ torn' \in BOOLEAN
  BY DEF Crash
<1>2. \A q \in Searchers : q # p => task'[q] = task[q]
  BY <1>1 DEF Typed, TypeOK
<1>3. task'[p] \in Tasks /\ task'[p].step = "down" /\ task'[p].sought = {}
  BY <1>1, AtFields DEF Typed, TypeOK
<1>4. ASSUME NEW d \in Ids PROVE Debt(d)
  BY <1>2, <1>3, OwedKept DEF Crash, WillDo
<1>5. CASE ~torn'
  <2>1. \A d \in Ids : ~MidIndex(p, d)
    BY <1>5 DEF Crash
  <2> QED BY <1>1, <1>4, <2>1, StopKeeps DEF Crash, Typed, TypeOK
<1>6. CASE torn'
  <2>1. task' \in [Searchers -> Tasks]
    BY <1>1, <1>3 DEF Typed, TypeOK
  <2>2. Typed'
    BY <2>1, <1>1, <1>2, <1>3 DEF Crash, Typed, TypeOK
  <2> QED BY <2>2, <1>6
<1> QED BY <1>5, <1>6

LEMMA FinishesKeeps ==
    ASSUME IndexInv, ~torn, NEW p \in Searchers, Finishes(p)
    PROVE  IndexInv'
<1> USE DEF IndexInv
<1>1. task' = [task EXCEPT ![p] = At("idle")]
  BY DEF Finishes
<1>2. \A q \in Searchers : q # p => task'[q] = task[q]
  BY <1>1 DEF Typed, TypeOK
<1>3. /\ task'[p].step = "idle" /\ task'[p].sought = {}
      /\ task[p].step = "drop" /\ task[p].orphans = {}
  BY <1>1, AtFields DEF Typed, TypeOK, Finishes, On
<1>4. ASSUME NEW d \in Ids PROVE Debt(d)
  <2>1. Owed(d) => d \in passed \/ d \in unseen \ task[p].sought
    BY <1>3 DEF Owed, WillDo
  <2>2. \A q \in Searchers : d \in task'[q].sought =>
           d \in task[q].sought /\ (WillDo(q, d) => WillDo(q, d)')
    BY <1>2, <1>3 DEF Finishes, WillDo
  <2> QED BY <2>1, <2>2 DEF Finishes, Owed, Debt
<1>5. \A d \in Ids : ~MidIndex(p, d)
  BY <1>3 DEF MidIndex
<1>6. task[p].top \in 0..MaxTime
  BY DEF Typed, TypeOK, Tasks
<1> QED BY <1>1, <1>4, <1>5, <1>6, StopKeeps DEF Finishes, Typed, TypeOK

-----------------------------------------------------------------------------
(* The statements of indexDoc(). *)

LEMMA GoesFields ==
    ASSUME Typed, NEW p \in Searchers,
           NEW s \in {"clear", "read", "put", "unmap", "map", "drop", "dropMap"}
    PROVE  /\ Goes(p, s) \in Tasks /\ Goes(p, s).step = s
           /\ Goes(p, s).sought = task[p].sought /\ Goes(p, s).todo = task[p].todo
           /\ Goes(p, s).doc = task[p].doc /\ Goes(p, s).prev = task[p].prev
           /\ Goes(p, s).content = task[p].content
           /\ Goes(p, s).orphans = task[p].orphans /\ Goes(p, s).gone = task[p].gone
<1>1. task[p] \in Tasks
  BY DEF Typed, TypeOK
<1> QED BY <1>1 DEF Goes, Tasks

LEMMA GoesOnFields ==
    ASSUME Typed, NEW p \in Searchers, GoesOn(p)
    PROVE  /\ task' \in [Searchers -> Tasks]
           /\ \A q \in Searchers : q # p => task'[q] = task[q]
           /\ task'[p].step = "next" /\ task'[p].todo = task[p].todo
           /\ task'[p].sought = task[p].sought
<1> DEFINE t == At("next")
           u == [t EXCEPT !.phase = task[p].phase, !.todo = task[p].todo,
                          !.top = task[p].top, !.sought = task[p].sought]
<1>1. task[p] \in Tasks
  BY DEF Typed, TypeOK
<1>2. t \in Tasks /\ t.step = "next"
  BY AtFields
<1>3. task' = [task EXCEPT ![p] = u]
  BY DEF GoesOn
<1> HIDE DEF t
<1>4. u \in Tasks /\ u.step = "next" /\ u.todo = task[p].todo /\ u.sought = task[p].sought
  BY <1>1, <1>2 DEF Tasks
<1> HIDE DEF u
<1> QED BY <1>3, <1>4 DEF Typed, TypeOK

LEMMA DebtOfTask ==
    ASSUME NEW p \in Searchers, NEW d,
           \A q \in Searchers : q # p => task'[q] = task[q],
           task'[p].sought = task[p].sought,
           \A entry \in task[p].todo : entry[1] = d => entry \in task'[p].todo,
           task'[p].step \in {"drop", "dropMap"} => task[p].step \in {"drop", "dropMap"},
           UNCHANGED <<stored, unseen, passed>>
    PROVE  Debt(d)
BY OwedKept DEF WillDo

(* A document that only p indexes after the step, and one that nobody does. *)
LEMMA OneHand ==
    ASSUME NEW p \in Searchers, NEW d \in Ids,
           \A q \in Searchers : q # p => SameTask(q) /\ ~MidIndex(q, d),
           MidIndex(p, d)', InHand(p, d)'
    PROVE  DocInv(d)'
<1>1. \A q \in Searchers : q # p => ~MidIndex(q, d)'
  BY MidKept
<1> QED BY <1>1 DEF DocInv

LEMMA NoHand ==
    ASSUME NEW p \in Searchers, NEW d \in Ids,
           \A q \in Searchers : q # p => SameTask(q) /\ ~MidIndex(q, d),
           ~MidIndex(p, d)', Linked(d)', Agrees(d)' \/ Owed(d)'
    PROVE  DocInv(d)'
<1>1. \A q \in Searchers : q # p => ~MidIndex(q, d)'
  BY MidKept
<1> QED BY <1>1 DEF DocInv

(* Deleting by the id in the map deletes the rows of the document. *)
LEMMA ClearedIs ==
    ASSUME Typed, Sound, NEW c \in Ids, Linked(c), NEW map, map[c] = idMap[c]
    PROVE  Cleared(entries, map, c) = entries \ Of(c)
<1>1. \A e \in entries : e.rid \in Nat \ {0}
  BY DEF Typed, TypeOK, Entries
<1>2. CASE plugin = "fts"
  <2>1. ASSUME NEW e \in entries PROVE e.rid # idMap[c] <=> e \notin Of(c)
    <3>1. CASE Of(c) = {} /\ idMap[c] = 0
      BY <3>1, <1>1
    <3>2. CASE \E f \in Of(c) : Of(c) = {f} /\ idMap[c] = f.rid
      BY <3>2 DEF Sound, Of
    <3> QED BY <3>1, <3>2, <1>2 DEF Linked
  <2> QED BY <2>1, <1>2 DEF Cleared
<1>3. CASE plugin # "fts"
  BY <1>3 DEF Cleared, Of
<1> QED BY <1>2, <1>3

Found(t, todo, latest, c, row) ==
    [t EXCEPT !.todo = todo, !.top = latest, !.doc = c, !.prev = row]

LEMMA FoundFields ==
    ASSUME NEW t \in Tasks, NEW todo \in SUBSET (Ids \X (0..MaxTime)),
           NEW latest \in 0..MaxTime, NEW c \in Ids, NEW row \in Nat
    PROVE  LET u == Found(t, todo, latest, c, row)
           IN  /\ u \in Tasks /\ u.step = t.step /\ u.doc = c /\ u.prev = row
               /\ u.sought = t.sought /\ u.todo = todo
BY DEF Tasks, Found

LEMMA IndexFindsKeeps ==
    ASSUME IndexInv, ~torn, NEW p \in Searchers, IndexFinds(p)
    PROVE  IndexInv'
<1> USE DEF IndexInv
<1>1. PICK entry \in task[p].todo :
        /\ task' = [task EXCEPT ![p] = [Goes(p, "clear") EXCEPT
                        !.todo = @ \ {entry}, !.top = Max({@, entry[2]}),
                        !.doc = entry[1], !.prev = idMap[entry[1]]]]
        /\ Mixed(p, entry[1])
  BY DEF IndexFinds
<1>2. /\ UNCHANGED <<plugin, stored, entries, idMap, high, clock, unseen, passed>>
      /\ task[p].step = "next" /\ torn' \in BOOLEAN
  BY <1>1 DEF IndexFinds, Untouched, On, Mixed
<1> DEFINE c == entry[1]
           t == Goes(p, "clear")
<1>3. task[p] \in Tasks /\ entry \in Ids \X (0..MaxTime) /\ c \in Ids /\ idMap[c] \in Nat
  BY DEF Typed, TypeOK, Tasks
<1>4. Max({t.top, entry[2]}) \in 0..MaxTime
  <2>1. t.top \in 0..MaxTime /\ entry[2] \in 0..MaxTime
    BY <1>3, GoesFields DEF Tasks
  <2> QED BY <2>1, GreaterOfTwo, SearchAssumption
<1>5. /\ task'[p] \in Tasks /\ task'[p].step = "clear" /\ task'[p].doc = c
      /\ task'[p].prev = idMap[c] /\ task'[p].sought = task[p].sought
      /\ task'[p].todo = task[p].todo \ {entry}
  <2> DEFINE todo == t.todo \ {entry}
             latest == Max({t.top, entry[2]})
             row == idMap[c]
             u == Found(t, todo, latest, c, row)
  <2>1. /\ t \in Tasks /\ t.step = "clear" /\ t.sought = task[p].sought
        /\ t.todo = task[p].todo
    BY GoesFields
  <2>2. task'[p] = u
    BY <1>1 DEF Typed, TypeOK, Found
  <2>3. todo \in SUBSET (Ids \X (0..MaxTime)) /\ latest \in 0..MaxTime
    BY <2>1, <1>3, <1>4 DEF Tasks
  <2>5. c \in Ids /\ row \in Nat
    BY <1>3
  <2> HIDE DEF t, todo, latest, row, c
  <2>4. /\ u \in Tasks /\ u.step = t.step /\ u.doc = c /\ u.prev = row
        /\ u.sought = t.sought /\ u.todo = todo
    BY <2>1, <2>3, <2>5, FoundFields
  <2> USE DEF todo, row, c
  <2> QED BY <2>1, <2>2, <2>4
<1>6. \A q \in Searchers : q # p => task'[q] = task[q]
  BY <1>1 DEF Typed, TypeOK
<1>7. Typed'
  <2>1. task' \in [Searchers -> Tasks]
    BY <1>1, <1>5, <1>6 DEF Typed, TypeOK
  <2> QED BY <2>1, <1>2, <1>3, <1>5, <1>6 DEF Typed, TypeOK
<1>8. ASSUME ~torn' PROVE Sound'
  <2>1. \A q \in Searchers : q # p => SameTask(q) /\ ~MidIndex(q, c)
    BY <1>1, <1>6, <1>8 DEF Mixed, SameTask
  <2>2. \A d \in Ids : ~MidIndex(p, d) /\ (MidIndex(p, d)' <=> d = c)
    BY <1>2, <1>5 DEF MidIndex
  <2>3. ASSUME NEW d \in Ids, d # c PROVE Quiet(d) /\ Debt(d)
    BY <2>3, <1>2, <1>5, <1>6, DebtOfTask DEF Quiet, Of
  <2>4. DocInv(c)'
    <3>1. Linked(c)
      BY <2>1, <2>2, <1>3 DEF Sound, DocInv
    <3>2. Linked(c)'
      BY <3>1, <1>2, LinkedKept DEF Quiet, Of
    <3>3. InHand(p, c)'
      BY <3>2, <1>2, <1>5 DEF InHand
    <3> QED BY <3>3, <2>1, <2>2, <1>3, OneHand
  <2> HIDE DEF c
  <2>5. \A e, f \in entries' : e.rid = f.rid => e = f
    BY <1>2 DEF Sound
  <2>6. plugin' = "vector" => \A d \in Ids : idMap'[d] = 0
    BY <1>2 DEF Sound
  <2> QED BY <2>1, <2>2, <2>3, <2>4, <2>5, <2>6, SoundKept
<1> QED BY <1>7, <1>8

(* A statement of indexDoc(), of the document c, by p. *)
Statement(p, c) ==
    /\ c \in Ids /\ c = task[p].doc
    /\ task[p].step \in {"clear", "read", "put", "unmap", "map"}
    /\ \A q \in Searchers : q # p => task'[q] = task[q]
    /\ task'[p].step \in {"read", "put", "unmap", "map", "next"}
    /\ task'[p].step # "next" => task'[p].doc = c
    /\ task'[p].sought = task[p].sought /\ task'[p].todo = task[p].todo
    /\ \A d \in Ids : d # c => Of(d)' = Of(d) /\ idMap'[d] = idMap[d]
    /\ UNCHANGED <<plugin, stored, unseen, passed>>

LEMMA HasInHand ==
    ASSUME Sound, NEW p \in Searchers, NEW c \in Ids, c = task[p].doc,
           task[p].step \in {"clear", "read", "put", "unmap", "map"}
    PROVE  /\ InHand(p, c) /\ MidIndex(p, c)
           /\ \A q \in Searchers : q # p => ~MidIndex(q, c)
           /\ \A d \in Ids : d # c => ~MidIndex(p, d)
<1>1. MidIndex(p, c) /\ \A d \in Ids : d # c => ~MidIndex(p, d)
  BY DEF MidIndex
<1> QED BY <1>1 DEF Sound, Alone, DocInv

LEMMA StatementDebt ==
    ASSUME NEW p \in Searchers, NEW c, Statement(p, c), NEW d
    PROVE  Debt(d)
BY DebtOfTask DEF Statement

LEMMA StatementKeeps ==
    ASSUME Sound, NEW p \in Searchers, NEW c \in Ids, Statement(p, c),
           \A e, f \in entries' : e.rid = f.rid => e = f,
           plugin' = "vector" => \A d \in Ids : idMap'[d] = 0,
           IF task'[p].step = "next" THEN Linked(c)' /\ (Agrees(c)' \/ Owed(c)')
           ELSE InHand(p, c)'
    PROVE  Sound'
<1>1. /\ c \in Ids
      /\ \A q \in Searchers : q # p => SameTask(q) /\ ~MidIndex(q, c)
      /\ \A d \in Ids : d # c => ~MidIndex(p, d)
  <2>1. c \in Ids /\ c = task[p].doc
        /\ task[p].step \in {"clear", "read", "put", "unmap", "map"}
    BY DEF Statement
  <2>2. \A q \in Searchers : q # p => SameTask(q)
    BY DEF Statement, SameTask
  <2>3. /\ \A q \in Searchers : q # p => ~MidIndex(q, c)
        /\ \A d \in Ids : d # c => ~MidIndex(p, d)
    BY <2>1, HasInHand
  <2> QED BY <2>1, <2>2, <2>3
<1>2. \A d \in Ids : MidIndex(p, d)' <=> d = c /\ task'[p].step # "next"
  BY DEF Statement, MidIndex
<1>3. DocInv(c)'
  <2>1. CASE task'[p].step = "next"
    BY <2>1, <1>1, <1>2, NoHand
  <2>2. CASE task'[p].step # "next"
    BY <2>2, <1>1, <1>2, OneHand
  <2> QED BY <2>1, <2>2
<1>4. \A d \in Ids : d # c => Quiet(d) /\ Debt(d)
  BY StatementDebt DEF Quiet, Statement
<1> QED BY <1>1, <1>2, <1>3, <1>4, SoundKept

LEMMA TypedKept ==
    ASSUME Typed, NEW p \in Searchers,
           \A q \in Searchers : q # p => task'[q] = task[q],
           task' \in [Searchers -> Tasks],
           task'[p].step \in {"clear", "read", "put", "unmap", "map"} => task'[p].doc \in Ids,
           task'[p].step = "dropMap" => task'[p].gone \in task'[p].orphans,
           entries' \subseteq Entries, IsFiniteSet(entries)', idMap' \in [Ids -> Nat],
           UNCHANGED <<plugin, stored, high, clock, passed>>, unseen' \subseteq Ids,
           torn' \in BOOLEAN
    PROVE  Typed'
BY DEF Typed, TypeOK

LEMMA IndexClearsKeeps ==
    ASSUME IndexInv, ~torn, NEW p \in Searchers, IndexClears(p)
    PROVE  IndexInv'
<1> USE DEF IndexInv
<1> DEFINE t == Goes(p, "read")
<1>c. PICK c \in Ids : c = task[p].doc
  BY DEF IndexClears, On, Typed
<1>1. /\ task[p].step = "clear"
      /\ task' = [task EXCEPT ![p] = t]
      /\ UNCHANGED <<plugin, stored, idMap, high, clock, unseen, passed, torn>>
  BY DEF IndexClears, On, Untouched
<1>2. /\ t \in Tasks /\ t.step = "read" /\ t.doc = c /\ t.prev = task[p].prev
      /\ t.sought = task[p].sought /\ t.todo = task[p].todo
  BY <1>c, GoesFields
<1>3. /\ task'[p] = t /\ \A q \in Searchers : q # p => task'[q] = task[q]
      /\ task' \in [Searchers -> Tasks]
  BY <1>1, <1>2 DEF Typed, TypeOK
<1>4. InHand(p, c)
  BY <1>c, <1>1, HasInHand
<1>5. entries' = entries \ Of(c)
  <2>1. Linked(c) /\ task[p].prev = idMap[c]
    BY <1>1, <1>4 DEF InHand
  <2> DEFINE map == [d \in Ids |-> task[p].prev]
  <2>2. map[c] = idMap[c]
    BY <2>1, <1>1
  <2>3. entries' = Cleared(entries, map, c)
    BY <1>c DEF IndexClears
  <2> HIDE DEF map
  <2> QED BY <1>1, <2>1, <2>2, <2>3, ClearedIs
<1>6. Of(c)' = {} /\ \A d \in Ids : d # c => Of(d)' = Of(d)
  BY <1>5 DEF Of
<1>7. Typed'
  <2>1. entries' \subseteq Entries /\ IsFiniteSet(entries') /\ idMap' \in [Ids -> Nat]
        /\ torn' \in BOOLEAN /\ unseen' \subseteq Ids
    BY <1>1, <1>5, FS_Subset DEF Typed, TypeOK
  <2> HIDE DEF t
  <2> QED BY <2>1, <1>1, <1>2, <1>3, TypedKept
<1>8. Sound'
  <2> HIDE DEF t
  <2>1. Statement(p, c)
    BY <1>c, <1>1, <1>2, <1>3, <1>6 DEF Statement
  <2>2. InHand(p, c)' /\ task'[p].step # "next"
    <3>1. task'[p].prev = idMap'[c]
      BY <1>1, <1>2, <1>3, <1>4 DEF InHand
    <3> QED BY <3>1, <1>2, <1>3, <1>6 DEF InHand
  <2>3. \A e, f \in entries' : e.rid = f.rid => e = f
    BY <1>5 DEF Sound
  <2>4. plugin' = "vector" => \A d \in Ids : idMap'[d] = 0
    BY <1>1 DEF Sound
  <2> QED BY <2>1, <2>2, <2>3, <2>4, StatementKeeps
<1> QED BY <1>7, <1>8

(* What p has in hand, and what else all these statements need. *)
LEMMA HandFacts ==
    ASSUME IndexInv, ~torn, NEW p \in Searchers,
           task[p].step \in {"clear", "read", "put", "unmap", "map"}
    PROVE  /\ task[p].doc \in Ids /\ InHand(p, task[p].doc)
           /\ task[p] \in Tasks /\ Sound /\ Typed
<1>1. task[p].doc \in Ids /\ task[p] \in Tasks /\ Sound /\ Typed
  BY DEF IndexInv, Typed, TypeOK
<1>2. PICK c \in Ids : c = task[p].doc
  BY <1>1
<1>3. InHand(p, c)
  BY <1>1, <1>2, HasInHand
<1> QED BY <1>1, <1>2, <1>3

LEMMA PutFields ==
    ASSUME NEW t \in Tasks, NEW content \in Contents \cup {Nothing}
    PROVE  LET u == [t EXCEPT !.content = content]
           IN  /\ u \in Tasks /\ u.step = t.step /\ u.doc = t.doc /\ u.prev = t.prev
               /\ u.sought = t.sought /\ u.todo = t.todo /\ u.content = content
BY DEF Tasks

(* A statement that leaves the index as it is. *)
LEMMA ReadKeeps ==
    ASSUME IndexInv, ~torn, NEW p \in Searchers, NEW c \in Ids, c = task[p].doc,
           task[p].step \in {"clear", "read", "put", "unmap", "map"},
           \A q \in Searchers : q # p => task'[q] = task[q],
           task' \in [Searchers -> Tasks],
           task'[p].step \in {"read", "put", "unmap", "map", "next"},
           task'[p].step # "next" => task'[p].doc = c,
           task'[p].sought = task[p].sought, task'[p].todo = task[p].todo,
           UNCHANGED <<plugin, stored, entries, high, clock, unseen, passed, torn>>,
           idMap' \in [Ids -> Nat], \A d \in Ids : d # c => idMap'[d] = idMap[d],
           idMap'[c] = 0 \/ plugin = "fts" \/ idMap' = idMap,
           IF task'[p].step = "next" THEN Linked(c)' /\ (Agrees(c)' \/ Owed(c)')
           ELSE InHand(p, c)'
    PROVE  IndexInv'
<1> USE DEF IndexInv
<1>1. Typed'
  <2>1. entries' \subseteq Entries /\ IsFiniteSet(entries') /\ torn' \in BOOLEAN
        /\ unseen' \subseteq Ids
    BY DEF Typed, TypeOK
  <2> QED BY <2>1, TypedKept
<1>2. Statement(p, c)
  BY DEF Statement, Of
<1>3. \A e, f \in entries' : e.rid = f.rid => e = f
  BY DEF Sound
<1>4. plugin' = "vector" => \A d \in Ids : idMap'[d] = 0
  BY DEF Sound
<1>5. Sound'
  BY <1>2, <1>3, <1>4, StatementKeeps
<1> QED BY <1>1, <1>5

LEMMA IndexReadsKeeps ==
    ASSUME IndexInv, ~torn, NEW p \in Searchers, IndexReads(p)
    PROVE  IndexInv'
<1>1. /\ task[p].step = "read"
      /\ UNCHANGED <<plugin, stored, entries, idMap, high, clock, unseen, passed, torn>>
  BY DEF IndexReads, On, Untouched
<1>2. PICK c \in Ids : c = task[p].doc
  BY <1>1, HandFacts
<1>3. /\ InHand(p, c) /\ Of(c) = {} /\ task[p].prev = idMap[c]
      /\ task[p] \in Tasks /\ Typed /\ Sound /\ idMap' \in [Ids -> Nat]
  BY <1>1, <1>2, HandFacts DEF InHand, Typed, TypeOK
<1>4. Of(c)' = {}
  BY <1>1, <1>3 DEF Of
<1>5. CASE Indexable(stored[c])
  <2> DEFINE t == Goes(p, "put")
             u == [t EXCEPT !.content = stored[c].is]
  <2>1. stored[c].is \in Contents \cup {Nothing}
    BY <1>3, <1>5 DEF Typed, TypeOK, Documents, Indexable
  <2>2. t \in Tasks /\ t.step = "put" /\ t.doc = c /\ t.prev = task[p].prev
        /\ t.sought = task[p].sought /\ t.todo = task[p].todo
    BY <1>2, <1>3, GoesFields
  <2>3. task' = [task EXCEPT ![p] = u]
    BY <1>2, <1>5 DEF IndexReads
  <2> HIDE DEF t
  <2>4. /\ u \in Tasks /\ u.step = "put" /\ u.doc = c /\ u.content = stored[c].is
        /\ u.sought = task[p].sought /\ u.todo = task[p].todo
    BY <2>1, <2>2, PutFields
  <2> HIDE DEF u
  <2>5. /\ task'[p] = u /\ \A q \in Searchers : q # p => task'[q] = task[q]
        /\ task' \in [Searchers -> Tasks]
    BY <1>3, <2>3, <2>4 DEF Typed, TypeOK
  <2>6. Is(c, task[p].content)'
    BY <1>1, <1>5, <2>4, <2>5 DEF Is, Indexable
  <2>7. InHand(p, c)'
    BY <1>4, <2>4, <2>5, <2>6 DEF InHand
  <2> QED BY <1>1, <1>2, <1>3, <2>4, <2>5, <2>7, ReadKeeps
<1>6. CASE ~Indexable(stored[c]) /\ plugin = "fts" /\ task[p].prev # 0
  <2> DEFINE t == Goes(p, "unmap")
  <2>1. t \in Tasks /\ t.step = "unmap" /\ t.doc = c
        /\ t.sought = task[p].sought /\ t.todo = task[p].todo
    BY <1>2, <1>3, GoesFields
  <2>2. task' = [task EXCEPT ![p] = t]
    BY <1>2, <1>6 DEF IndexReads
  <2> HIDE DEF t
  <2>3. /\ task'[p] = t /\ \A q \in Searchers : q # p => task'[q] = task[q]
        /\ task' \in [Searchers -> Tasks]
    BY <1>3, <2>1, <2>2 DEF Typed, TypeOK
  <2>4. InHand(p, c)'
    BY <1>1, <1>4, <1>6, <2>1, <2>3 DEF InHand, Indexable
  <2> QED BY <1>1, <1>2, <1>3, <2>1, <2>3, <2>4, ReadKeeps
<1>7. CASE ~Indexable(stored[c]) /\ ~(plugin = "fts" /\ task[p].prev # 0)
  <2>1. GoesOn(p)
    BY <1>2, <1>7 DEF IndexReads
  <2>2. idMap'[c] = 0
    <3>1. plugin \in {"fts", "vector"}
      BY <1>3 DEF Typed, TypeOK
    <3> QED BY <3>1, <1>1, <1>3, <1>7 DEF Sound
  <2>3. Linked(c)' /\ Agrees(c)'
    BY <1>1, <1>4, <1>7, <2>2 DEF Linked, Agrees, Of, Indexable
  <2> QED BY <1>1, <1>2, <1>3, <2>1, <2>3, GoesOnFields, ReadKeeps
<1> QED BY <1>5, <1>6, <1>7

LEMMA IndexUnmapsKeeps ==
    ASSUME IndexInv, ~torn, NEW p \in Searchers, IndexUnmaps(p)
    PROVE  IndexInv'
<1>1. /\ task[p].step = "unmap" /\ GoesOn(p)
      /\ UNCHANGED <<plugin, stored, entries, high, clock, unseen, passed, torn>>
  BY DEF IndexUnmaps, On, Untouched
<1>2. PICK c \in Ids : c = task[p].doc
  BY <1>1, HandFacts
<1>3. /\ Of(c) = {} /\ (~Indexable(stored[c]) \/ Owed(c))
      /\ Typed /\ Sound /\ idMap \in [Ids -> Nat]
  BY <1>1, <1>2, HandFacts DEF InHand, Typed, TypeOK
<1>4. /\ idMap' \in [Ids -> Nat] /\ idMap'[c] = 0
      /\ \A d \in Ids : d # c => idMap'[d] = idMap[d]
  BY <1>2, <1>3 DEF IndexUnmaps
<1>5. /\ \A q \in Searchers : q # p => task'[q] = task[q]
      /\ task' \in [Searchers -> Tasks] /\ task'[p].step = "next"
      /\ task'[p].sought = task[p].sought /\ task'[p].todo = task[p].todo
  BY <1>1, <1>3, GoesOnFields
<1>6. Owed(c) => Owed(c)'
  BY <1>1, <1>5, DebtOfTask DEF Debt
<1>7. Linked(c)' /\ (Agrees(c)' \/ Owed(c)')
  BY <1>1, <1>3, <1>4, <1>6 DEF Linked, Agrees, Of, Indexable
<1> QED BY <1>1, <1>2, <1>4, <1>5, <1>7, ReadKeeps

LEMMA IndexMapsKeeps ==
    ASSUME IndexInv, ~torn, NEW p \in Searchers, IndexMaps(p)
    PROVE  IndexInv'
<1>1. /\ task[p].step = "map" /\ GoesOn(p)
      /\ UNCHANGED <<plugin, stored, entries, high, clock, unseen, passed, torn>>
  BY DEF IndexMaps, On, Untouched
<1>2. PICK c \in Ids : c = task[p].doc
  BY <1>1, HandFacts
<1>3. /\ InHand(p, c) /\ Typed /\ Sound /\ idMap \in [Ids -> Nat] /\ task[p] \in Tasks
  BY <1>1, <1>2, HandFacts DEF Typed, TypeOK
<1>4. plugin = "fts" /\ \E e \in Of(c) : Of(c) = {e} /\ e.rid = task[p].prev
                                         /\ (Is(c, e.is) \/ Owed(c))
  BY <1>1, <1>3 DEF InHand
<1>5. /\ idMap' \in [Ids -> Nat] /\ idMap'[c] = task[p].prev
      /\ \A d \in Ids : d # c => idMap'[d] = idMap[d]
  BY <1>2, <1>3 DEF IndexMaps, Tasks
<1>6. /\ \A q \in Searchers : q # p => task'[q] = task[q]
      /\ task' \in [Searchers -> Tasks] /\ task'[p].step = "next"
      /\ task'[p].sought = task[p].sought /\ task'[p].todo = task[p].todo
  BY <1>1, <1>3, GoesOnFields
<1>7. Owed(c) => Owed(c)'
  BY <1>1, <1>6, DebtOfTask DEF Debt
<1>8. PICK e \in Of(c)' : Of(c)' = {e} /\ idMap'[c] = e.rid /\ (Is(c, e.is)' \/ Owed(c)')
  BY <1>1, <1>4, <1>5, <1>7 DEF Of, Is, Indexable
<1>9. Linked(c)' /\ (Agrees(c)' \/ Owed(c)')
  <2>1. Linked(c)'
    BY <1>1, <1>4, <1>8 DEF Linked
  <2>2. Is(c, e.is)' => Agrees(c)'
    BY <1>1, <1>4, <1>8 DEF Agrees, Is, Of
  <2> QED BY <2>1, <2>2, <1>8
<1> QED BY <1>1, <1>2, <1>4, <1>5, <1>6, <1>9, ReadKeeps

(* A row added to the index, in an id that no row has. *)
LEMMA RowAdded ==
    ASSUME NEW left \in SUBSET Entries, IsFiniteSet(left), NEW c \in Ids,
           NEW content \in Contents \cup {Nothing}, \A e \in left : e.doc # c,
           \A e, f \in left : e.rid = f.rid => e = f,
           NEW new, new = [rid |-> Rid(left), doc |-> c, is |-> content],
           NEW all, all = left \cup {new}
    PROVE  /\ all \subseteq Entries /\ IsFiniteSet(all)
           /\ new \in Entries /\ new.rid = Rid(left) /\ new.doc = c /\ new.is = content
           /\ Rid(left) \in Nat \ {0}
           /\ \A e, f \in all : e.rid = f.rid => e = f
           /\ {e \in all : e.doc = c} = {new}
           /\ \A d \in Ids : d # c => {e \in all : e.doc = d} = {e \in left : e.doc = d}
<1>1. Rid(left) \in Nat \ {0} /\ \A e \in left : e.rid # Rid(left)
  BY RidIsFree
<1>2. new \in Entries /\ new.rid = Rid(left) /\ new.doc = c /\ new.is = content
  BY <1>1 DEF Entries
<1>3. all \subseteq Entries /\ IsFiniteSet(all)
  BY <1>2, FS_AddElement
<1> QED BY <1>1, <1>2, <1>3

LEMMA MapFields ==
    ASSUME NEW t \in Tasks, NEW row \in Nat
    PROVE  LET u == [t EXCEPT !.prev = row]
           IN  /\ u \in Tasks /\ u.step = t.step /\ u.doc = t.doc /\ u.prev = row
               /\ u.sought = t.sought /\ u.todo = t.todo
BY DEF Tasks

LEMMA IndexPutsKeeps ==
    ASSUME IndexInv, ~torn, NEW p \in Searchers, IndexPuts(p)
    PROVE  IndexInv'
<1>1. /\ task[p].step = "put"
      /\ UNCHANGED <<plugin, stored, high, clock, unseen, passed, torn>>
  BY DEF IndexPuts, On, Untouched
<1>2. PICK c \in Ids : c = task[p].doc
  BY <1>1, HandFacts
<1>3. PICK content \in Contents \cup {Nothing} : content = task[p].content
  BY <1>1, HandFacts DEF Tasks
<1>4. /\ Of(c) = {} /\ (Is(c, content) \/ Owed(c))
      /\ Typed /\ Sound /\ task[p] \in Tasks
  BY <1>1, <1>2, <1>3, HandFacts DEF InHand
<1>5. PICK new : new = [rid |-> Rid(entries), doc |-> c, is |-> content]
  OBVIOUS
<1>6. /\ entries' = entries \cup {new} /\ idMap' = idMap
      /\ IF plugin = "fts"
         THEN task' = [task EXCEPT ![p] = [Goes(p, "map") EXCEPT !.prev = Rid(entries)]]
         ELSE GoesOn(p)
  BY <1>2, <1>3, <1>4, <1>5 DEF IndexPuts, Of
<1>7. /\ entries' \subseteq Entries /\ IsFiniteSet(entries')
      /\ new.rid = Rid(entries) /\ new.is = content /\ Rid(entries) \in Nat
      /\ \A e, f \in entries' : e.rid = f.rid => e = f
      /\ Of(c)' = {new} /\ \A d \in Ids : d # c => Of(d)' = Of(d)
  <2>1. entries \in SUBSET Entries /\ IsFiniteSet(entries)
    BY <1>4 DEF Typed, TypeOK
  <2>2. (\A e \in entries : e.doc # c) /\ \A e, f \in entries : e.rid = f.rid => e = f
    BY <1>4 DEF Of, Sound
  <2> QED BY <2>1, <2>2, <1>3, <1>5, <1>6, RowAdded DEF Of
<1>8. PICK next \in Tasks :
        /\ task' = [task EXCEPT ![p] = next]
        /\ next.sought = task[p].sought /\ next.todo = task[p].todo
        /\ IF plugin = "fts" THEN next.step = "map" /\ next.doc = c /\ next.prev = new.rid
           ELSE next.step = "next"
  <2>1. CASE plugin = "fts"
    <3> DEFINE t == Goes(p, "map")
    <3>1. t \in Tasks /\ t.step = "map" /\ t.doc = c
          /\ t.sought = task[p].sought /\ t.todo = task[p].todo
      BY <1>2, <1>4, GoesFields
    <3> HIDE DEF t
    <3>2. LET u == [t EXCEPT !.prev = Rid(entries)]
          IN  /\ u \in Tasks /\ u.step = t.step /\ u.doc = t.doc /\ u.prev = Rid(entries)
              /\ u.sought = t.sought /\ u.todo = t.todo
      BY <3>1, <1>7, MapFields
    <3>3. task' = [task EXCEPT ![p] = [t EXCEPT !.prev = Rid(entries)]]
      BY <2>1, <1>6 DEF t
    <3> QED BY <2>1, <3>1, <3>2, <3>3, <1>7
  <2>2. CASE plugin # "fts"
    <3>1. GoesOn(p)
      BY <2>2, <1>6
    <3>2. /\ task' \in [Searchers -> Tasks] /\ task'[p].step = "next"
          /\ \A q \in Searchers : q # p => task'[q] = task[q]
          /\ task'[p].sought = task[p].sought /\ task'[p].todo = task[p].todo
      BY <3>1, <1>4, GoesOnFields
    <3>3. task' = [task EXCEPT ![p] = task'[p]]
      BY <3>2, <1>4 DEF Typed, TypeOK
    <3> QED BY <2>2, <3>2, <3>3
  <2> QED BY <2>1, <2>2
<1>9. /\ \A q \in Searchers : q # p => task'[q] = task[q]
      /\ task' \in [Searchers -> Tasks] /\ task'[p] = next
  BY <1>4, <1>8 DEF Typed, TypeOK
<1>10. Statement(p, c)
  BY <1>1, <1>2, <1>6, <1>7, <1>8, <1>9 DEF Statement
<1>11. Typed'
  <2>1. idMap' \in [Ids -> Nat] /\ torn' \in BOOLEAN /\ unseen' \subseteq Ids
    BY <1>1, <1>4, <1>6 DEF Typed, TypeOK
  <2> QED BY <2>1, <1>1, <1>4, <1>7, <1>8, <1>9, TypedKept
<1>12. Is(c, content)' \/ Owed(c)'
  BY <1>4, <1>10, StatementDebt DEF Debt, Is, Indexable, Statement
<1>13. CASE plugin = "fts"
  <2>1. InHand(p, c)' /\ task'[p].step # "next"
    <3>1. new \in Of(c)' /\ (Is(c, new.is)' \/ Owed(c)')
      BY <1>7, <1>12
    <3> QED BY <3>1, <1>1, <1>7, <1>8, <1>9, <1>12, <1>13 DEF InHand
  <2>2. Sound'
    BY <2>1, <1>1, <1>4, <1>7, <1>10, <1>13, StatementKeeps
  <2> QED BY <2>2, <1>11 DEF IndexInv
<1>14. CASE plugin # "fts"
  <2>1. \A d \in Ids : idMap'[d] = 0
    BY <1>4, <1>6, <1>14 DEF Typed, TypeOK, Sound
  <2>2. Linked(c)'
    BY <2>1, <1>1, <1>7, <1>14 DEF Linked
  <2>3. Is(c, content)' => Agrees(c)'
    <3>1. {e \in entries' : e.doc = c} = {new}
      BY <1>7 DEF Of
    <3> QED BY <3>1, <1>1, <1>7, <1>14 DEF Is, Agrees
  <2>4. Sound'
    BY <2>1, <2>2, <2>3, <1>4, <1>7, <1>8, <1>9, <1>10, <1>12, <1>14, StatementKeeps
  <2> QED BY <2>4, <1>11 DEF IndexInv
<1> QED BY <1>13, <1>14

-----------------------------------------------------------------------------
(* The removal of entries that have no document. *)

LEMMA OrphansFields ==
    ASSUME NEW t \in Tasks, NEW orphans \in SUBSET Entries
    PROVE  LET u == [t EXCEPT !.orphans = orphans]
           IN  /\ u \in Tasks /\ u.step = t.step /\ u.orphans = orphans /\ u.gone = t.gone
               /\ u.sought = t.sought /\ u.todo = t.todo
BY DEF Tasks

LEMMA OrphansKeeps ==
    ASSUME IndexInv, ~torn, NEW p \in Searchers, Orphans(p)
    PROVE  IndexInv'
<1> USE DEF IndexInv
<1> DEFINE t == Goes(p, "drop")
           lost == {e \in entries : e.doc \notin Present}
           u == [t EXCEPT !.orphans = lost]
<1>1. /\ task[p].step = "next" /\ task[p].todo = {} /\ task' = [task EXCEPT ![p] = u]
      /\ UNCHANGED <<plugin, stored, entries, idMap, high, clock, unseen, passed>>
      /\ torn' \in BOOLEAN
  BY DEF Orphans, On, Untouched
<1>2. lost \in SUBSET Entries
  BY DEF Typed, TypeOK
<1>3. t \in Tasks /\ t.step = "drop" /\ t.sought = task[p].sought /\ t.todo = task[p].todo
  BY GoesFields
<1> HIDE DEF t
<1>4. /\ u \in Tasks /\ u.step = "drop" /\ u.orphans = lost
      /\ u.sought = task[p].sought /\ u.todo = task[p].todo
  BY <1>2, <1>3, OrphansFields
<1> HIDE DEF u
<1>5. /\ task'[p] = u /\ \A q \in Searchers : q # p => task'[q] = task[q]
      /\ task' \in [Searchers -> Tasks]
  BY <1>1, <1>4 DEF Typed, TypeOK
<1>6. Typed'
  BY <1>1, <1>4, <1>5, TypedKept DEF Typed, TypeOK
<1>7. ASSUME ~torn' PROVE Sound'
  <2>1. \A q \in Searchers : q # p => SameTask(q)
    BY <1>5 DEF SameTask
  <2>2. \A d \in Ids : d \notin Present => \A q \in Searchers : q # p => ~MidIndex(q, d)
    BY <1>7 DEF Orphans
  <2>3. \A d \in Ids : /\ ~MidIndex(p, d)
                       /\ MidIndex(p, d)' <=> \E o \in lost : o.doc = d
    BY <1>1, <1>4, <1>5 DEF MidIndex
  <2>4. \A d \in Ids : Quiet(d)
    BY <1>1 DEF Quiet, Of
  <2>5. ASSUME NEW d \in Ids, d \in Present PROVE Debt(d)
    <3>1. Owed(d) => d \in passed \/ d \notin task[p].sought
      BY <2>5, <1>1 DEF Owed, WillDo, Present
    <3>2. \A q \in Searchers : q # p => (WillDo(q, d) => WillDo(q, d)')
      BY <1>1, <1>5 DEF WillDo
    <3> QED BY <3>1, <3>2, <1>1, <1>4, <1>5 DEF Owed, Debt
  <2>6. ASSUME NEW d \in Ids, d \notin Present PROVE DocInv(d)'
    <3>1. Linked(d) /\ stored[d] = NoRecord
      BY <2>2, <2>3, <2>6 DEF Sound, DocInv, Present
    <3>2. Linked(d)'
      BY <3>1, <2>4, LinkedKept
    <3>3. CASE Of(d) = {}
      <4>1. ~MidIndex(p, d)'
        BY <3>3, <2>3 DEF Of
      <4>2. idMap[d] = 0
        BY <3>1, <3>3 DEF Linked
      <4>3. Agrees(d)'
        BY <3>1, <3>3, <4>2, <1>1 DEF Agrees, Of, Indexable
      <4> QED BY <4>1, <4>3, <3>2, <2>1, <2>2, <2>6, NoHand
    <3>4. CASE Of(d) # {}
      <4>1. MidIndex(p, d)'
        BY <3>4, <2>3, <2>6 DEF Of
      <4>2. \A o \in lost : o.doc = d => o \in Of(d)'
        BY <1>1 DEF Of
      <4>3. InHand(p, d)'
        BY <3>1, <3>2, <4>2, <1>1, <1>4, <1>5 DEF InHand
      <4> QED BY <4>1, <4>3, <2>1, <2>2, <2>6, OneHand
    <3> QED BY <3>3, <3>4
  <2>7. \A d \in Ids : MidIndex(p, d)' => d \notin Present
    BY <2>3
  <2>8. \A d \in Ids : d \in Present => ~MidIndex(p, d)'
    BY <2>7
  <2> HIDE DEF lost
  <2>9. \A e, f \in entries' : e.rid = f.rid => e = f
    BY <1>1 DEF Sound
  <2>10. plugin' = "vector" => \A d \in Ids : idMap'[d] = 0
    BY <1>1 DEF Sound
  <2>11. \A d \in Ids : MidIndex(p, d)' =>
           MidIndex(p, d) \/ \A q \in Searchers \ {p} : ~MidIndex(q, d)
    BY <2>2, <2>7
  <2>12. ASSUME NEW d \in Ids
         PROVE  \/ DocInv(d)'
                \/ /\ Quiet(d) /\ Debt(d)
                   /\ SameTask(p) \/ (~MidIndex(p, d) /\ ~MidIndex(p, d)')
    BY <2>3, <2>4, <2>5, <2>6, <2>8
  <2> QED BY <2>1, <2>9, <2>10, <2>11, <2>12, SoundKept
<1> QED BY <1>6, <1>7

(* A statement that removes what is left of the orphan of c, by p. *)
Drops(p, c) ==
    /\ c \in Ids /\ MidIndex(p, c)
    /\ task[p].step \in {"drop", "dropMap"} /\ task'[p].step \in {"drop", "dropMap"}
    /\ task[p].step = "dropMap" => task[p].gone.doc = c
    /\ task'[p].step = "dropMap" => task'[p].gone.doc = c
    /\ \A q \in Searchers : q # p => task'[q] = task[q]
    /\ task'[p].sought = task[p].sought /\ task'[p].todo = task[p].todo
    /\ \A d \in Ids : d # c => {o \in task'[p].orphans : o.doc = d}
                                 = {o \in task[p].orphans : o.doc = d}
    /\ \A d \in Ids : d # c => Of(d)' = Of(d) /\ idMap'[d] = idMap[d]
    /\ UNCHANGED <<plugin, stored, unseen, passed>>

LEMMA DropsDebt ==
    ASSUME NEW p \in Searchers, NEW c, Drops(p, c), NEW d
    PROVE  Debt(d)
BY DebtOfTask DEF Drops

LEMMA DropsKeeps ==
    ASSUME Sound, NEW p \in Searchers, NEW c \in Ids, Drops(p, c),
           \A e, f \in entries' : e.rid = f.rid => e = f,
           plugin' = "vector" => \A d \in Ids : idMap'[d] = 0,
           IF MidIndex(p, c)' THEN InHand(p, c)' ELSE Linked(c)' /\ (Agrees(c)' \/ Owed(c)')
    PROVE  Sound'
<1>1. \A q \in Searchers : q # p => SameTask(q)
  BY DEF Drops, SameTask
<1>2. \A d \in Ids : MidIndex(p, d) => \A q \in Searchers : q # p => ~MidIndex(q, d)
  BY DEF Sound, Alone
<1>3. ASSUME NEW d \in Ids, d # c
      PROVE  Quiet(d) /\ Debt(d) /\ (MidIndex(p, d)' <=> MidIndex(p, d))
  <2>1. Debt(d) /\ Quiet(d)
    BY <1>3, DropsDebt DEF Quiet, Drops
  <2>2. MidIndex(p, d)' <=> MidIndex(p, d)
    BY <1>3 DEF Drops, MidIndex
  <2> QED BY <2>1, <2>2
<1>4. ASSUME NEW d \in Ids, d # c, MidIndex(p, d) PROVE DocInv(d)'
  <2>1. InHand(p, d)
    BY <1>4 DEF Sound, DocInv
  <2>2. Quiet(d) /\ Debt(d) /\ MidIndex(p, d)'
    BY <1>3, <1>4
  <2>4. Linked(d)'
    BY <2>1, <2>2, <1>4, LinkedKept DEF InHand, Drops
  <2>5. stored'[d] = NoRecord \/ Owed(d)'
    BY <2>1, <2>2 DEF InHand, Drops, Debt
  <2>6. \A o \in task'[p].orphans : o.doc = d => o \in Of(d)'
    <3>1. \A o \in task[p].orphans : o.doc = d => o \in Of(d)
      BY <2>1, <1>4 DEF InHand, Drops
    <3>2. \A o \in task'[p].orphans : o.doc = d => o \in task[p].orphans
      BY <1>4 DEF Drops
    <3> QED BY <3>1, <3>2, <2>2 DEF Quiet
  <2>7. InHand(p, d)'
    BY <2>4, <2>5, <2>6, <1>4 DEF InHand, Drops
  <2> QED BY <2>2, <2>7, <1>1, <1>2, <1>4, OneHand
<1>5. DocInv(c)'
  <2>1. \A q \in Searchers : q # p => SameTask(q) /\ ~MidIndex(q, c)
    BY <1>1, <1>2 DEF Drops
  <2> QED BY <2>1, OneHand, NoHand
<1>6. \A d \in Ids : MidIndex(p, d)' => MidIndex(p, d)
  BY <1>3 DEF Drops
<1>7. ASSUME NEW d \in Ids
      PROVE  \/ DocInv(d)'
             \/ /\ Quiet(d) /\ Debt(d)
                /\ SameTask(p) \/ (~MidIndex(p, d) /\ ~MidIndex(p, d)')
  BY <1>3, <1>4, <1>5
<1> QED BY <1>1, <1>6, <1>7, SoundKept

LEMMA GoneFields ==
    ASSUME NEW t \in Tasks, NEW gone \in Entries \cup {Nothing}
    PROVE  LET u == [t EXCEPT !.gone = gone]
           IN  /\ u \in Tasks /\ u.step = t.step /\ u.orphans = t.orphans /\ u.gone = gone
               /\ u.sought = t.sought /\ u.todo = t.todo
BY DEF Tasks

LEMMA DropsOrphanKeeps ==
    ASSUME IndexInv, ~torn, NEW p \in Searchers, DropsOrphan(p)
    PROVE  IndexInv'
<1> USE DEF IndexInv
<1>1. /\ task[p].step = "drop" /\ task[p] \in Tasks
      /\ UNCHANGED <<plugin, stored, idMap, high, clock, unseen, passed, torn>>
  BY DEF DropsOrphan, On, Untouched, Typed, TypeOK
<1>2. PICK o \in task[p].orphans :
        /\ entries' = IF plugin = "fts" THEN {e \in entries : e.rid # o.rid}
                      ELSE {e \in entries : e.doc # o.doc}
        /\ task' = [task EXCEPT ![p] =
                      IF plugin = "fts" THEN [Goes(p, "dropMap") EXCEPT !.gone = o]
                      ELSE [task[p] EXCEPT !.orphans = @ \ {o}]]
  BY DEF DropsOrphan
<1>3. o \in Entries
  BY <1>1 DEF Tasks
<1>4. PICK c \in Ids : c = o.doc
  BY <1>3 DEF Entries
<1>5. MidIndex(p, c)
  BY <1>1, <1>4 DEF MidIndex
<1>6. InHand(p, c)
  BY <1>5 DEF Sound, DocInv
<1>7. /\ stored[c] = NoRecord \/ Owed(c)
      /\ o \in Of(c) /\ \A e \in task[p].orphans : e.doc = c => e \in Of(c)
      /\ Linked(c)
  BY <1>1, <1>4, <1>6 DEF InHand
<1>8. Of(c) = {o}
  BY <1>7 DEF Linked
<1>9. entries' = entries \ {o}
  BY <1>2, <1>4, <1>8 DEF Sound, Of
<1>10. Of(c)' = {} /\ \A d \in Ids : d # c => Of(d)' = Of(d)
  BY <1>4, <1>8, <1>9 DEF Of
<1>11. PICK next \in Tasks :
         /\ task' = [task EXCEPT ![p] = next]
         /\ next.sought = task[p].sought /\ next.todo = task[p].todo
         /\ IF plugin = "fts"
            THEN next.step = "dropMap" /\ next.gone = o /\ next.orphans = task[p].orphans
            ELSE next.step = "drop" /\ next.orphans = task[p].orphans \ {o}
  <2>1. CASE plugin = "fts"
    <3> DEFINE t == Goes(p, "dropMap")
    <3>1. t \in Tasks /\ t.step = "dropMap" /\ t.orphans = task[p].orphans
          /\ t.sought = task[p].sought /\ t.todo = task[p].todo
      BY GoesFields
    <3>2. task' = [task EXCEPT ![p] = [t EXCEPT !.gone = o]]
      BY <2>1, <1>2
    <3> HIDE DEF t
    <3>3. LET u == [t EXCEPT !.gone = o]
          IN  /\ u \in Tasks /\ u.step = t.step /\ u.orphans = t.orphans /\ u.gone = o
              /\ u.sought = t.sought /\ u.todo = t.todo
      BY <3>1, <1>3, GoneFields
    <3> QED BY <2>1, <3>1, <3>2, <3>3
  <2>2. CASE plugin # "fts"
    <3> DEFINE t == task[p]
               left == t.orphans \ {o}
    <3>1. task' = [task EXCEPT ![p] = [t EXCEPT !.orphans = left]]
      BY <2>2, <1>2
    <3>2. t \in Tasks /\ t.step = "drop" /\ left \in SUBSET Entries
      BY <1>1 DEF Tasks
    <3> HIDE DEF left
    <3>3. LET u == [t EXCEPT !.orphans = left]
          IN  /\ u \in Tasks /\ u.step = t.step /\ u.orphans = left /\ u.gone = t.gone
              /\ u.sought = t.sought /\ u.todo = t.todo
      BY <3>2, OrphansFields
    <3> QED BY <2>2, <3>1, <3>2, <3>3 DEF left
  <2> QED BY <2>1, <2>2
<1>12. /\ \A q \in Searchers : q # p => task'[q] = task[q]
       /\ task' \in [Searchers -> Tasks] /\ task'[p] = next
  BY <1>11 DEF Typed, TypeOK
<1>13. Typed'
  <2>1. entries' \subseteq Entries /\ IsFiniteSet(entries') /\ idMap' \in [Ids -> Nat]
        /\ torn' \in BOOLEAN /\ unseen' \subseteq Ids
    BY <1>1, <1>9, FS_Subset DEF Typed, TypeOK
  <2>2. next.step = "dropMap" => next.gone \in next.orphans
    BY <1>11
  <2>3. next.step \in {"drop", "dropMap"}
    BY <1>11
  <2> QED BY <2>1, <2>2, <2>3, <1>1, <1>12, TypedKept
<1>14. Drops(p, c)
  <2>1. task'[p].step \in {"drop", "dropMap"}
        /\ (task'[p].step = "dropMap" => task'[p].gone.doc = c)
    BY <1>4, <1>11, <1>12
  <2>2. \A d \in Ids : d # c => {e \in task'[p].orphans : e.doc = d}
                                  = {e \in task[p].orphans : e.doc = d}
    BY <1>4, <1>11, <1>12
  <2> QED BY <2>1, <2>2, <1>1, <1>5, <1>10, <1>11, <1>12 DEF Drops
<1>15. stored'[c] = NoRecord \/ Owed(c)'
  BY <1>1, <1>7, <1>14, DropsDebt DEF Debt
<1>16. \A e, f \in entries' : e.rid = f.rid => e = f
  BY <1>9 DEF Sound
<1>17. plugin' = "vector" => \A d \in Ids : idMap'[d] = 0
  BY <1>1 DEF Sound
<1>18. CASE plugin = "fts"
  <2>1. MidIndex(p, c)'
    BY <1>4, <1>11, <1>12, <1>18 DEF MidIndex
  <2>2. \A e \in task'[p].orphans : e.doc = c => e = task'[p].gone
    BY <1>7, <1>8, <1>11, <1>12, <1>18
  <2>3. InHand(p, c)'
    BY <2>2, <1>4, <1>10, <1>11, <1>12, <1>15, <1>18 DEF InHand
  <2>4. Sound'
    BY <2>1, <2>3, <1>14, <1>16, <1>17, DropsKeeps
  <2> QED BY <2>4, <1>13
<1>19. CASE plugin # "fts"
  <2>1. ~MidIndex(p, c)'
    BY <1>7, <1>8, <1>11, <1>12, <1>19 DEF MidIndex
  <2>2. idMap'[c] = 0
    BY <1>1, <1>19 DEF Typed, TypeOK, Sound
  <2>3. Linked(c)' /\ (Agrees(c)' \/ Owed(c)')
    BY <2>2, <1>10, <1>15 DEF Linked, Agrees, Of, Indexable
  <2>4. Sound'
    BY <2>1, <2>3, <1>14, <1>16, <1>17, DropsKeeps
  <2> QED BY <2>4, <1>13
<1> QED BY <1>18, <1>19

LEMMA DropsMappingKeeps ==
    ASSUME IndexInv, ~torn, NEW p \in Searchers, DropsMapping(p)
    PROVE  IndexInv'
<1> USE DEF IndexInv
<1>1. /\ task[p].step = "dropMap" /\ task[p] \in Tasks /\ task[p].gone \in task[p].orphans
      /\ UNCHANGED <<plugin, stored, entries, high, clock, unseen, passed, torn>>
  BY DEF DropsMapping, On, Untouched, Typed, TypeOK
<1>2. PICK o \in task[p].orphans : o = task[p].gone
  BY <1>1
<1>3. o \in Entries
  BY <1>1 DEF Tasks
<1>4. PICK c \in Ids : c = o.doc
  BY <1>3 DEF Entries
<1>5. MidIndex(p, c)
  BY <1>1, <1>4 DEF MidIndex
<1>6. InHand(p, c)
  BY <1>5 DEF Sound, DocInv
<1>7. /\ stored[c] = NoRecord \/ Owed(c)
      /\ Of(c) = {} /\ \A e \in task[p].orphans : e.doc = c => e = o
  BY <1>1, <1>2, <1>4, <1>6 DEF InHand
<1>8. /\ idMap' \in [Ids -> Nat] /\ idMap'[c] = 0
      /\ \A d \in Ids : d # c => idMap'[d] = idMap[d]
  BY <1>2, <1>4 DEF DropsMapping, Typed, TypeOK
<1>9. PICK next \in Tasks :
        /\ task' = [task EXCEPT ![p] = next]
        /\ next.sought = task[p].sought /\ next.todo = task[p].todo
        /\ next.step = "drop" /\ next.orphans = task[p].orphans \ {o}
  <2> DEFINE t == Goes(p, "drop")
             left == t.orphans \ {o}
             u == [t EXCEPT !.orphans = left]
  <2>1. t \in Tasks /\ t.step = "drop" /\ t.orphans = task[p].orphans
        /\ t.sought = task[p].sought /\ t.todo = task[p].todo
    BY GoesFields
  <2>2. task' = [task EXCEPT ![p] = [t EXCEPT !.orphans = left, !.gone = Nothing]]
    BY <1>2 DEF DropsMapping
  <2>3. left \in SUBSET Entries /\ left = task[p].orphans \ {o}
    BY <2>1 DEF Tasks
  <2> HIDE DEF t, left
  <2>4. /\ u \in Tasks /\ u.step = t.step /\ u.orphans = left
        /\ u.sought = t.sought /\ u.todo = t.todo
    BY <2>1, <2>3, OrphansFields
  <2>5. task' = [task EXCEPT ![p] = [u EXCEPT !.gone = Nothing]]
    BY <2>2
  <2> HIDE DEF u
  <2>6. LET v == [u EXCEPT !.gone = Nothing]
        IN  /\ v \in Tasks /\ v.step = u.step /\ v.orphans = u.orphans /\ v.gone = Nothing
            /\ v.sought = u.sought /\ v.todo = u.todo
    BY <2>4, GoneFields
  <2> QED BY <2>1, <2>3, <2>4, <2>5, <2>6
<1>10. /\ \A q \in Searchers : q # p => task'[q] = task[q]
       /\ task' \in [Searchers -> Tasks] /\ task'[p] = next
  BY <1>9 DEF Typed, TypeOK
<1>11. Typed'
  <2>1. entries' \subseteq Entries /\ IsFiniteSet(entries')
        /\ torn' \in BOOLEAN /\ unseen' \subseteq Ids
    BY <1>1 DEF Typed, TypeOK
  <2> QED BY <2>1, <1>1, <1>8, <1>9, <1>10, TypedKept
<1>12. \A d \in Ids : Of(d)' = Of(d)
  BY <1>1 DEF Of
<1>13. Drops(p, c)
  <2>1. \A d \in Ids : d # c => {e \in task'[p].orphans : e.doc = d}
                                  = {e \in task[p].orphans : e.doc = d}
    BY <1>4, <1>9, <1>10
  <2> QED BY <2>1, <1>1, <1>2, <1>4, <1>5, <1>8, <1>9, <1>10, <1>12 DEF Drops
<1>14. stored'[c] = NoRecord \/ Owed(c)'
  BY <1>1, <1>7, <1>13, DropsDebt DEF Debt
<1>15. ~MidIndex(p, c)'
  BY <1>7, <1>9, <1>10 DEF MidIndex
<1>16. Linked(c)' /\ (Agrees(c)' \/ Owed(c)')
  BY <1>7, <1>8, <1>12, <1>14 DEF Linked, Agrees, Of, Indexable
<1>17. \A e, f \in entries' : e.rid = f.rid => e = f
  BY <1>1 DEF Sound
<1>18. plugin' = "vector" => \A d \in Ids : idMap'[d] = 0
  BY <1>1, <1>8 DEF Sound
<1>19. Sound'
  BY <1>13, <1>15, <1>16, <1>17, <1>18, DropsKeeps
<1> QED BY <1>11, <1>19

-----------------------------------------------------------------------------
(* A process that starts. *)

LEMMA MigratedTyped ==
    ASSUME Typed
    PROVE  Migrated \in [Ids -> Nat]
<1>1. ASSUME NEW c \in Ids, \E e \in entries : e.doc = c
      PROVE  Min({e.rid : e \in {x \in entries : x.doc = c}}) \in Nat
  <2> DEFINE ids == {e.rid : e \in {x \in entries : x.doc = c}}
  <2>1. ids \subseteq Nat /\ ids # {}
    BY <1>1 DEF Typed, TypeOK, Entries
  <2> HIDE DEF ids
  <2>2. Min(ids) \in Nat
    BY <2>1, LeastIn
  <2> QED BY <2>2 DEF ids
<1>2. idMap \in [Ids -> Nat]
  BY DEF Typed, TypeOK
<1> QED BY <1>1, <1>2 DEF Migrated

(* It gives a row to a document that another process is about to map only.   *)
LEMMA MigratedIs ==
    ASSUME Typed, Sound, NEW d \in Ids
    PROVE  \/ Migrated[d] = idMap[d]
           \/ /\ plugin = "fts"
              /\ \E q \in Searchers : task[q].step = "map" /\ MidIndex(q, d) /\ InHand(q, d)
<1>1. ASSUME Migrated[d] # idMap[d]
      PROVE  /\ plugin = "fts"
             /\ \E q \in Searchers : task[q].step = "map" /\ MidIndex(q, d) /\ InHand(q, d)
  <2>1. plugin = "fts" /\ idMap[d] = 0 /\ Of(d) # {}
    BY <1>1 DEF Migrated, Of, Typed, TypeOK
  <2>2. \A e \in Of(d) : e.rid # 0
    BY DEF Of, Typed, TypeOK, Entries
  <2>3. ~Linked(d)
    BY <2>1, <2>2 DEF Linked
  <2>4. PICK q \in Searchers : MidIndex(q, d) /\ InHand(q, d)
    BY <2>3 DEF Sound, DocInv
  <2>5. task[q].step = "map"
    BY <2>1, <2>3, <2>4 DEF MidIndex, InHand
  <2> QED BY <2>1, <2>4, <2>5
<1> QED BY <1>1

LEMMA OpensKeeps ==
    ASSUME IndexInv, ~torn, NEW p \in Searchers, Opens(p)
    PROVE  IndexInv'
<1> USE DEF IndexInv
<1>1. /\ task[p].step = "down" /\ idMap' = Migrated
      /\ UNCHANGED <<plugin, stored, entries, high, clock, unseen, torn>>
  BY DEF Opens, On
<1>2. \A d \in Ids : ~MidIndex(p, d)
  BY <1>1 DEF MidIndex
<1>3. CASE entries = {}
  <2>1. task' = [task EXCEPT ![p] = At("empty")] /\ passed' = passed
    BY <1>3 DEF Opens
  <2>2. idMap' = idMap
    BY <1>1, <1>3 DEF Migrated, Typed, TypeOK
  <2>3. \A q \in Searchers : q # p => task'[q] = task[q]
    BY <2>1 DEF Typed, TypeOK
  <2>4. task'[p].sought = {}
    BY <2>1, AtFields DEF Typed, TypeOK
  <2>5. ASSUME NEW d \in Ids PROVE Debt(d)
    BY <1>1, <2>1, <2>3, <2>4, OwedKept DEF WillDo
  <2> QED BY <1>1, <1>2, <2>1, <2>2, <2>5, StopKeeps DEF Typed, TypeOK
<1>4. CASE entries # {}
  <2>1. task' = [task EXCEPT ![p] = Begun("open")] /\ passed' = PassedBy
    BY <1>4 DEF Opens
  <2>2. /\ \A q \in Searchers : q # p => task'[q] = task[q]
        /\ task' \in [Searchers -> Tasks] /\ task'[p].step = "next"
    BY <2>1, BegunTyped DEF Typed, TypeOK
  <2>3. \A d \in Ids : Debt(d)
    BY <1>1, <2>1, BegunDebt
  <2>4. idMap' \in [Ids -> Nat]
    BY <1>1, MigratedTyped
  <2>5. Typed'
    <3>1. passed' \subseteq Ids
      BY <2>1 DEF Typed, TypeOK, PassedBy
    <3> QED BY <1>1, <2>2, <2>4, <3>1 DEF Typed, TypeOK
  <2>6. \A q \in Searchers : q # p => SameTask(q)
    BY <2>2 DEF SameTask
  <2>7. \A d \in Ids : ~MidIndex(p, d)'
    BY <2>2 DEF MidIndex
  <2>8. \A d \in Ids : Of(d)' = Of(d)
    BY <1>1 DEF Of
  <2>9. ASSUME NEW d \in Ids, idMap'[d] # idMap[d] PROVE DocInv(d)'
    <3>1. PICK q \in Searchers : task[q].step = "map" /\ MidIndex(q, d) /\ InHand(q, d)
      BY <1>1, <2>9, MigratedIs
    <3>2. q # p /\ SameTask(q) /\ MidIndex(q, d)'
      BY <1>1, <2>6, <3>1, MidKept
    <3>3. \A r \in Searchers : MidIndex(r, d)' => r = q
      BY <2>6, <2>7, <3>1, MidKept DEF Sound, Alone
    <3>4. Debt(d)
      BY <2>3
    <3>5. InHand(q, d)'
      <4>1. task'[q].step = "map" /\ task'[q].prev = task[q].prev
        BY <3>1, <3>2 DEF SameTask
      <4>2. \A c : Is(d, c) \/ Owed(d) => Is(d, c)' \/ Owed(d)'
        BY <1>1, <3>4 DEF Debt, Is, Indexable
      <4>3. plugin = "fts" /\ \E e \in Of(d) : /\ Of(d) = {e} /\ e.rid = task[q].prev
                                               /\ Is(d, e.is) \/ Owed(d)
        BY <3>1 DEF InHand
      <4> QED BY <1>1, <2>8, <4>1, <4>2, <4>3 DEF InHand
    <3> QED BY <3>2, <3>3, <3>5 DEF DocInv
  <2>10. \A d \in Ids : idMap'[d] = idMap[d] => Quiet(d)
    BY <1>1, <2>8 DEF Quiet
  <2>11. \A e, f \in entries' : e.rid = f.rid => e = f
    BY <1>1 DEF Sound
  <2>12. plugin' = "vector" => \A d \in Ids : idMap'[d] = 0
    BY <1>1 DEF Migrated, Sound
  <2>13. Sound'
    BY <1>2, <2>3, <2>6, <2>7, <2>9, <2>10, <2>11, <2>12, SoundKept
  <2> QED BY <2>5, <2>13
<1> QED BY <1>3, <1>4

LEMMA EmptiesKeeps ==
    ASSUME IndexInv, ~torn, NEW p \in Searchers, Empties(p)
    PROVE  IndexInv'
<1> USE DEF IndexInv
<1> DEFINE docs == {e.doc : e \in entries}
<1>1. /\ task[p].step = "empty" /\ entries' = {} /\ unseen' = unseen \cup docs
      /\ task' = [Unsought(docs) EXCEPT ![p] = At("emptyMap")]
      /\ UNCHANGED <<plugin, stored, idMap, high, clock, passed>> /\ torn' \in BOOLEAN
  BY DEF Empties, On
<1> HIDE DEF docs
<1>2. Unsought(docs) \in [Searchers -> Tasks]
  BY UnsoughtFields DEF Unsought
<1>3. \A q \in Searchers : q # p =>
        /\ SameTask(q) /\ task'[q].todo = task[q].todo
        /\ task'[q].sought = task[q].sought \ docs
  <2>1. \A q \in Searchers : q # p => task'[q] = Unsought(docs)[q]
    BY <1>1, <1>2
  <2> QED BY <2>1, UnsoughtFields DEF SameTask
<1>4. task'[p].step = "emptyMap" /\ task'[p].sought = {} /\ task' \in [Searchers -> Tasks]
  BY <1>1, <1>2, AtFields
<1>5. Typed'
  <2>1. unseen' \subseteq Ids
    BY <1>1 DEF docs, Typed, TypeOK, Entries
  <2>2. TypeOK'
    BY <2>1, <1>1, <1>4 DEF Typed, TypeOK
  <2>3. IsFiniteSet(entries')
    BY <1>1, FS_EmptySet
  <2>4. \A q \in Searchers :
          /\ task'[q].step \in {"clear", "read", "put", "unmap", "map"} => task'[q].doc \in Ids
          /\ task'[q].step = "dropMap" => task'[q].gone \in task'[q].orphans
    BY <1>3, <1>4 DEF Typed, SameTask
  <2> QED BY <2>2, <2>3, <2>4 DEF Typed
<1>6. ASSUME ~torn' PROVE Sound'
  <2>1. \A d \in Ids, q \in Searchers : q # p => ~MidIndex(q, d)
    BY <1>6 DEF Empties
  <2>2. \A d \in Ids : ~MidIndex(p, d) /\ MidIndex(p, d)'
    BY <1>1, <1>4 DEF MidIndex
  <2>3. ASSUME NEW d \in Ids PROVE DocInv(d)'
    <3>1. Of(d)' = {}
      BY <1>1 DEF Of
    <3>2. ~Indexable(stored[d])' \/ Owed(d)'
      <4>1. CASE Of(d) = {}
        <5>1. Agrees(d) \/ Owed(d)
          BY <2>1, <2>2 DEF Sound, DocInv
        <5>2. Debt(d)
          BY <1>1, <1>3, <1>4, OwedKept DEF WillDo, SameTask
        <5>3. Agrees(d) => ~Indexable(stored[d])
          BY <4>1 DEF Agrees, Of
        <5> QED BY <1>1, <5>1, <5>2, <5>3 DEF Debt, Indexable
      <4>2. CASE Of(d) # {}
        <5>1. d \in docs
          BY <4>2 DEF docs, Of
        <5> QED BY <5>1, <1>1, <1>3, <1>4 DEF Owed
      <4> QED BY <4>1, <4>2
    <3>3. InHand(p, d)'
      BY <1>4, <3>1, <3>2 DEF InHand
    <3> QED BY <1>3, <2>1, <2>2, <3>3, OneHand
  <2>4. \A e, f \in entries' : e.rid = f.rid => e = f
    BY <1>1
  <2>5. plugin' = "vector" => \A d \in Ids : idMap'[d] = 0
    BY <1>1 DEF Sound
  <2> QED BY <1>3, <2>1, <2>3, <2>4, <2>5, SoundKept
<1> QED BY <1>5, <1>6

LEMMA EmptiesMapKeeps ==
    ASSUME IndexInv, ~torn, NEW p \in Searchers, EmptiesMap(p)
    PROVE  IndexInv'
<1> USE DEF IndexInv
<1> DEFINE t == At("next")
           todo == {<<d, stored[d].at>> : d \in Present}
           u == [t EXCEPT !.phase = "reindex", !.todo = todo]
<1>1. /\ task[p].step = "emptyMap" /\ idMap' = [d \in Ids |-> 0]
      /\ task' = [task EXCEPT ![p] = u]
      /\ UNCHANGED <<plugin, stored, entries, high, clock, unseen, passed>>
      /\ torn' \in BOOLEAN
  BY DEF EmptiesMap, On, Untouched
<1>2. u \in Tasks /\ u.step = "next" /\ u.sought = {}
  <2>1. t \in Tasks /\ t.step = "next" /\ t.sought = {}
    BY AtFields
  <2>2. todo \in SUBSET (Ids \X (0..MaxTime))
    BY LooksTyped
  <2> HIDE DEF t, todo
  <2> QED BY <2>1, <2>2 DEF Tasks
<1> HIDE DEF u
<1>3. /\ task'[p] = u /\ \A q \in Searchers : q # p => task'[q] = task[q]
      /\ task' \in [Searchers -> Tasks]
  BY <1>1, <1>2 DEF Typed, TypeOK
<1>4. Typed'
  <2>1. entries' \subseteq Entries /\ IsFiniteSet(entries') /\ unseen' \subseteq Ids
        /\ idMap' \in [Ids -> Nat]
    BY <1>1 DEF Typed, TypeOK
  <2> QED BY <2>1, <1>1, <1>2, <1>3, TypedKept
<1>5. ASSUME ~torn' PROVE Sound'
  <2>1. \A d \in Ids : MidIndex(p, d) /\ ~MidIndex(p, d)'
    BY <1>1, <1>2, <1>3 DEF MidIndex
  <2>2. \A q \in Searchers, d \in Ids : q # p => SameTask(q) /\ ~MidIndex(q, d)
    BY <1>3, <2>1 DEF Sound, Alone, SameTask
  <2>3. \A q \in Searchers : q # p => SameTask(q)
    BY <1>3 DEF SameTask
  <2>4. ASSUME NEW d \in Ids PROVE DocInv(d)'
    <3>1. InHand(p, d)
      BY <2>1 DEF Sound, DocInv
    <3>2. Of(d) = {} /\ (~Indexable(stored[d]) \/ Owed(d))
      BY <3>1, <1>1 DEF InHand
    <3>3. Debt(d)
      BY <1>1, <1>2, <1>3, OwedKept DEF WillDo
    <3>4. Linked(d)' /\ (Agrees(d)' \/ Owed(d)')
      BY <1>1, <3>2, <3>3 DEF Debt, Linked, Agrees, Of, Indexable
    <3> QED BY <2>1, <2>2, <3>4, NoHand
  <2>5. \A e, f \in entries' : e.rid = f.rid => e = f
    BY <1>1 DEF Sound
  <2>6. plugin' = "vector" => \A d \in Ids : idMap'[d] = 0
    BY <1>1
  <2> QED BY <2>1, <2>3, <2>4, <2>5, <2>6, SoundKept
<1> QED BY <1>4, <1>5

-----------------------------------------------------------------------------
(* Writes, which index a document in one step. *)

LEMMA WritesKeeps ==
    ASSUME IndexInv, ~torn, NEW p \in Searchers, NEW c \in Ids,
           NEW doc \in Documents \cup {NoRecord}, Writes(p, c, doc)
    PROVE  IndexInv'
<1> USE DEF IndexInv
<1> DEFINE left == Cleared(entries, idMap, c)
           new == [rid |-> Rid(left), doc |-> c, is |-> doc.is]
<1>1. /\ task[p].step = "idle" /\ high' = clock /\ stored' = [stored EXCEPT ![c] = doc]
      /\ unseen' = unseen \ {c} /\ passed' = passed \ {c}
      /\ UNCHANGED <<plugin, clock, task>> /\ torn' \in BOOLEAN
      /\ torn' = (torn \/ \E q \in Searchers \ {p} : MidIndex(q, c))
  BY DEF Writes, Stamped, Mixed
<1>2. /\ entries' = IF Indexable(doc) THEN left \cup {new} ELSE left
      /\ idMap' = [idMap EXCEPT ![c] = IF plugin = "fts" /\ doc # NoRecord THEN Rid(left) ELSE 0]
  BY DEF Writes, IndexDoc
<1>3. left \in SUBSET Entries /\ IsFiniteSet(left) /\ left \subseteq entries
  <2>1. left \subseteq entries
    BY DEF Cleared
  <2> HIDE DEF left
  <2> QED BY <2>1, FS_Subset DEF Typed, TypeOK
<1>4. Indexable(doc) => doc.is \in Contents \cup {Nothing}
  BY DEF Indexable, Documents
<1>5. Rid(left) \in Nat
  <2> HIDE DEF left
  <2> QED BY <1>3, RidIsFree
<1>6. stored' \in [Ids -> Documents \cup {NoRecord}] /\ stored'[c] = doc
      /\ \A d \in Ids : d # c => stored'[d] = stored[d]
  BY <1>1 DEF Typed, TypeOK
<1> HIDE DEF left
<1>7. /\ idMap' \in [Ids -> Nat]
      /\ idMap'[c] = IF plugin = "fts" /\ doc # NoRecord THEN Rid(left) ELSE 0
      /\ \A d \in Ids : d # c => idMap'[d] = idMap[d]
  BY <1>2, <1>5 DEF Typed, TypeOK
<1>8. Typed'
  <2>1. entries' \subseteq Entries /\ IsFiniteSet(entries')
    <3>1. CASE Indexable(doc)
      <4>1. new \in Entries
        <5>1. Rid(left) \in Nat \ {0}
          BY <1>3, RidIsFree
        <5> QED BY <5>1, <1>4, <3>1 DEF Entries
      <4> HIDE DEF new
      <4> QED BY <4>1, <3>1, <1>2, <1>3, FS_AddElement
    <3>2. CASE ~Indexable(doc)
      BY <3>2, <1>2, <1>3
    <3> QED BY <3>1, <3>2
  <2>2. high' \in 0..MaxTime
    BY <1>1, SearchAssumption DEF Typed, TypeOK
  <2> QED BY <2>1, <2>2, <1>1, <1>6, <1>7 DEF Typed, TypeOK
<1>9. ASSUME ~torn' PROVE Sound'
  <2>1. \A q \in Searchers : SameTask(q)
    BY <1>1 DEF SameTask
  <2>2. \A q \in Searchers : ~MidIndex(q, c)
    BY <1>1, <1>9 DEF MidIndex
  <2>3. Linked(c)
    BY <2>2 DEF Sound, DocInv
  <2>4. left = entries \ Of(c)
    BY <2>3, ClearedIs DEF left
  <2>5. \A e, f \in left : e.rid = f.rid => e = f
    BY <1>3 DEF Sound
  <2>6. ASSUME \A d \in Ids : d # c => Of(d)' = Of(d), Linked(c)', Agrees(c)',
               \A e, f \in entries' : e.rid = f.rid => e = f
        PROVE  Sound'
    <3>1. ASSUME NEW d \in Ids, d # c PROVE Quiet(d) /\ Debt(d)
      <4>1. Debt(d)
        BY <3>1, <1>1, <1>6, OwedKept DEF WillDo
      <4> QED BY <4>1, <3>1, <2>6, <1>1, <1>7 DEF Quiet
    <3>2. \A q \in Searchers, d \in Ids : MidIndex(q, d)' <=> MidIndex(q, d)
      BY <2>1, MidKept
    <3>3. DocInv(c)'
      BY <2>2, <2>6, <3>2 DEF DocInv
    <3>4. plugin' = "vector" => \A d \in Ids : idMap'[d] = 0
      BY <1>1, <1>7 DEF Sound
    <3> QED BY <2>1, <2>6, <3>1, <3>2, <3>3, <3>4, SoundKept
  <2>7. CASE Indexable(doc)
    <3>1. PICK content \in Contents \cup {Nothing} : content = doc.is
      BY <2>7, <1>4
    <3>2. \A e \in left : e.doc # c
      BY <2>4 DEF Of
    <3>3. PICK row : row = [rid |-> Rid(left), doc |-> c, is |-> content]
      OBVIOUS
    <3>4. entries' = left \cup {row}
      BY <2>7, <1>2, <3>1, <3>3
    <3>5. /\ row.rid = Rid(left) /\ row.is = content
          /\ \A e, f \in entries' : e.rid = f.rid => e = f
          /\ Of(c)' = {row}
          /\ \A d \in Ids : d # c => Of(d)' = {e \in left : e.doc = d}
      BY <2>5, <3>2, <3>3, <3>4, <1>3, RowAdded DEF Of
    <3>6. \A d \in Ids : d # c => Of(d)' = Of(d)
      BY <3>5, <2>4 DEF Of
    <3>7. Linked(c)' /\ Agrees(c)'
      <4>1. idMap'[c] = IF plugin = "fts" THEN row.rid ELSE 0
        BY <2>7, <3>5, <1>7 DEF Indexable
      <4>2. Linked(c)'
        BY <4>1, <3>5, <1>1 DEF Linked
      <4>3. {e \in entries' : e.doc = c} = {row}
        BY <3>5 DEF Of
      <4>4. stored'[c].is = row.is
        BY <3>1, <3>5, <1>6
      <4>5. Agrees(c)'
        BY <4>1, <4>3, <4>4, <1>1 , <1>6, <2>7 DEF Agrees, Indexable
      <4> QED BY <4>2, <4>5
    <3> QED BY <3>5, <3>6, <3>7, <2>6
  <2>8. CASE ~Indexable(doc)
    <3>1. entries' = left
      BY <2>8, <1>2
    <3>2. idMap'[c] = 0
      BY <2>8, <1>7 DEF Indexable, Typed, TypeOK
    <3>3. Of(c)' = {} /\ \A d \in Ids : d # c => Of(d)' = Of(d)
      BY <3>1, <2>4 DEF Of
    <3>4. Linked(c)'
      BY <3>2, <3>3 DEF Linked
    <3>5. Agrees(c)'
      BY <3>2, <3>3, <2>8, <1>1, <1>6 DEF Agrees, Indexable, Of
    <3>6. \A e, f \in entries' : e.rid = f.rid => e = f
      BY <3>1, <2>5
    <3> QED BY <3>3, <3>4, <3>5, <3>6, <2>6
  <2> QED BY <2>7, <2>8
<1> QED BY <1>8, <1>9

-----------------------------------------------------------------------------
(* Every step, and the theorem. *)

LEMMA WritesAreDocuments ==
    ASSUME Typed, NEW doc \in Contented \cup {NoRecord} \cup Older
    PROVE  doc \in Documents \cup {NoRecord}
<1>1. clock \in 0..MaxTime /\ clock - 1 \in 0..MaxTime
  BY SearchAssumption DEF Typed, TypeOK
<1> QED BY <1>1 DEF Contented, Older, Documents

(* The lemmas above are about a process; there may be none, and only writes. *)
LEMMA NobodyIndexes ==
    ASSUME Sound, Searchers = {}, UNCHANGED <<plugin, entries, idMap>>,
           \A d \in Ids : Debt(d)
    PROVE  Sound'
<1>1. ASSUME NEW d \in Ids PROVE DocInv(d)'
  <2>1. Linked(d) /\ (Agrees(d) \/ Owed(d))
    BY DEF Sound, DocInv
  <2>2. Linked(d)'
    BY <2>1, LinkedKept DEF Quiet, Of
  <2>3. stored'[d] = stored[d] => (Agrees(d) => Agrees(d)')
    BY DEF Agrees, Indexable
  <2> QED BY <2>1, <2>2, <2>3 DEF DocInv, Debt
<1> QED BY <1>1 DEF Sound, Alone

LEMMA WithoutProcesses ==
    ASSUME IndexInv, ~torn, Searchers = {},
           Tick \/ \E d \in Ids, doc \in Documents \cup {NoRecord} : WritesPlain(d, doc)
    PROVE  IndexInv'
<1> USE DEF IndexInv
<1>1. CASE Tick
  <2>1. clock' \in 1..MaxTime
    BY <1>1, SearchAssumption DEF Tick, Typed, TypeOK
  <2>2. Typed'
    BY <2>1, <1>1 DEF Tick, Typed, TypeOK
  <2>3. ASSUME NEW d \in Ids PROVE Debt(d)
    BY <1>1, OwedKept DEF Tick, WillDo
  <2> QED BY <2>2, <2>3, <1>1, NobodyIndexes DEF Tick
<1>2. ASSUME NEW d \in Ids, NEW doc \in Documents \cup {NoRecord}, WritesPlain(d, doc)
      PROVE  IndexInv'
  <2>1. stored' \in [Ids -> Documents \cup {NoRecord}]
        /\ \A c \in Ids \ {d} : stored'[c] = stored[c]
    BY <1>2 DEF WritesPlain, Stamped, Typed, TypeOK
  <2>2. task' \in [Searchers -> Tasks] /\ unseen' \subseteq Ids /\ passed' \subseteq Ids
    BY <1>2 DEF WritesPlain, Unsought, Typed, TypeOK
  <2>3. Typed'
    BY <2>1, <2>2, <1>2 DEF WritesPlain, Typed, TypeOK
  <2>4. ASSUME NEW c \in Ids PROVE Debt(c)
    BY <1>2, <2>1 DEF Debt, Owed, WritesPlain
  <2> QED BY <2>3, <2>4, <1>2, NobodyIndexes DEF WritesPlain
<1> QED BY <1>1, <1>2

LEMMA Unmoved == IndexInv /\ UNCHANGED searchVars => IndexInv'
<1> SUFFICES ASSUME IndexInv, UNCHANGED searchVars PROVE IndexInv'
  OBVIOUS
<1>1. Typed'
  BY DEF IndexInv, Typed, TypeOK, searchVars
<1>2. ASSUME ~torn' PROVE Sound'
  <2>1. Sound /\ UNCHANGED <<plugin, entries, idMap>>
    BY <1>2 DEF IndexInv, searchVars
  <2>2. ASSUME NEW d \in Ids PROVE Debt(d)
    BY DEF Debt, Owed, WillDo, searchVars
  <2>3. CASE Searchers = {}
    BY <2>1, <2>2, <2>3, NobodyIndexes
  <2>4. ASSUME NEW p \in Searchers PROVE Sound'
    <3>1. \A q \in Searchers : SameTask(q)
      BY DEF SameTask, searchVars
    <3> QED BY <2>1, <2>2, <3>1, NothingIndexed
  <2> QED BY <2>3, <2>4
<1> QED BY <1>1, <1>2 DEF IndexInv

LEMMA StepKeeps == IndexInv /\ [SearchNext]_searchVars => IndexInv'
<1> SUFFICES ASSUME IndexInv, [SearchNext]_searchVars PROVE IndexInv'
  OBVIOUS
<1>1. CASE UNCHANGED searchVars
  BY <1>1, Unmoved
<1>2. ASSUME SearchNext, NEW p \in Searchers PROVE IndexInv'
  <2>1. ~torn /\ Typed
    BY <1>2 DEF SearchNext, IndexInv
  <2>2. CASE Tick
    BY <2>1, <2>2, TickKeeps
  <2>3. CASE \E d \in Ids, doc \in Contented \cup {NoRecord} \cup Older : WritesPlain(d, doc)
    BY <2>1, <2>3, WritesAreDocuments, WritesPlainKeeps
  <2>4. CASE \E d \in Ids, doc \in Contented \cup {NoRecord} \cup Older :
               \E q \in Searchers : Writes(q, d, doc)
    BY <2>1, <2>4, WritesAreDocuments, WritesKeeps
  <2>5. CASE \E q \in Searchers :
               \/ IndexFinds(q) \/ IndexClears(q) \/ IndexReads(q) \/ IndexUnmaps(q)
               \/ IndexPuts(q) \/ IndexMaps(q)
    BY <2>1, <2>5, IndexFindsKeeps, IndexClearsKeeps, IndexReadsKeeps, IndexUnmapsKeeps,
       IndexPutsKeeps, IndexMapsKeeps
  <2>6. CASE \E q \in Searchers :
               CatchUp(q) \/ Orphans(q) \/ DropsOrphan(q) \/ DropsMapping(q) \/ Finishes(q)
    BY <2>1, <2>6, CatchUpKeeps, OrphansKeeps, DropsOrphanKeeps, DropsMappingKeeps,
       FinishesKeeps
  <2>7. CASE \E q \in Searchers :
               Crash(q) \/ Opens(q) \/ Empties(q) \/ EmptiesMap(q) \/ Reindexed(q)
    BY <2>1, <2>7, CrashKeeps, OpensKeeps, EmptiesKeeps, EmptiesMapKeeps, ReindexedKeeps
  <2> QED BY <1>2, <2>2, <2>3, <2>4, <2>5, <2>6, <2>7 DEF SearchNext, SearchSteps
<1>3. CASE SearchNext /\ Searchers = {}
  <2>1. ~torn /\ Typed
    BY <1>3 DEF SearchNext, IndexInv
  <2>2. Tick \/ \E d \in Ids, doc \in Contented \cup {NoRecord} \cup Older : WritesPlain(d, doc)
    BY <1>3 DEF SearchNext, SearchSteps
  <2>3. Tick \/ \E d \in Ids, doc \in Documents \cup {NoRecord} : WritesPlain(d, doc)
    BY <2>1, <2>2, WritesAreDocuments
  <2> QED BY <1>3, <2>1, <2>3, WithoutProcesses
<1> QED BY <1>1, <1>2, <1>3

LEMMA InvIsCurrent == IndexInv => IndexIsCurrent
<1> SUFFICES ASSUME IndexInv, ~torn, NEW d \in Ids \ (unseen \cup passed),
                    \A p \in Searchers : ~MidIndex(p, d)
             PROVE  Agrees(d)
  BY DEF IndexIsCurrent
<1>1. DocInv(d)
  BY DEF IndexInv, Sound
<1> QED BY <1>1 DEF DocInv, Owed

(* The types of Search, for every value of the constants. *)
THEOREM IndexTypeCorrect == SearchSpec => []TypeOK
<1>1. IndexInv => TypeOK
  BY DEF IndexInv, Typed
<1> QED BY <1>1, InitIsSound, StepKeeps, PTL DEF SearchSpec

(* catchUp() does what it is for: a document that nobody is indexing is in   *)
(* the index once, with the content it has and under the id that the map     *)
(* gives it, and one that is gone is not - unless it has not been looked for *)
(* since a process without the plugin wrote it, or is stamped before the     *)
(* mark - whatever other processes write, index or empty meanwhile, and      *)
(* wherever one goes down.                                                   *)
THEOREM IndexStaysCurrent == SearchSpec => []IndexIsCurrent
<1>1. SearchInit => IndexInv
  BY InitIsSound
<1>2. IndexInv /\ [SearchNext]_searchVars => IndexInv'
  BY StepKeeps
<1>3. IndexInv => IndexIsCurrent
  BY InvIsCurrent
<1> QED BY <1>1, <1>2, <1>3, PTL DEF SearchSpec

=============================================================================
