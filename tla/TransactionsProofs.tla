------------------------- MODULE TransactionsProofs -------------------------
(***************************************************************************)
(* Transactions on the one SQLite connection are all or nothing, for any   *)
(* flows, however they are nested and wherever they fail, as long as a     *)
(* callback awaits each call that it makes before the next (~Parallel).    *)
(*                                                                         *)
(* The flows that run are a stack, each within the callback of the one     *)
(* below it, and so are their savepoints: the innermost flow, which is the *)
(* only one to write or to end, owns the topmost savepoint (Stacked).  A   *)
(* flow's writes are read by the connection, are not in what its own       *)
(* savepoint saved, and are in what those above it saved (Separated).      *)
(*                                                                         *)
(* On top of that, the same for both engines in the behaviours of MCLive,  *)
(* and what subscribers of KvChannels hear; and of LiveQueries, what the   *)
(* watchers are told, and that a watcher holds a page of what its query    *)
(* finds but for the documents that it has still to be told of (AllFollow),*)
(* which are those of the next flush and of the feed past the cursor.      *)
(***************************************************************************)
EXTENDS MCLive, SequenceTheorems, FiniteSetTheorems, WellFoundedInduction, TLAPS

Running == {f \in Flows : flow[f] = "running"}

States == {"idle", "queued", "running", "done", "failed"}
Writes == [n : Nat, doc : Docs, v : Values]

(* The types, as far as the proof needs them. *)
TxTyped ==
    /\ stored \in Seq(Writes) /\ view \in Seq(Writes)
    /\ saves \in Seq([name : Nat, data : Seq(Writes)])
    /\ depth \in Nat /\ asyncDepth \in Nat
    /\ name \in [Flows -> Nat] /\ flow \in [Flows -> States]
    /\ used \in Nat /\ mine \in [Flows -> SUBSET Nat]
    /\ promised \subseteq Nat /\ refused \subseteq Nat
    /\ tail \in Seq(Flows)

(* The driver's depth counts the open savepoints, which are named from 0.   *)
Nested ==
    /\ depth = Len(saves) /\ asyncDepth = depth
    /\ \A i \in 1..depth : saves[i].name = i - 1

Stacked ==
    /\ \A f \in Running : name[f] < depth
    /\ \A f, g \in Running : name[f] = name[g] => f = g
    /\ \A i \in 0..(depth - 1) : \E f \in Running : name[f] = i
    /\ \A f \in Running : name[f] = 0 =>
          Outer[f] = Top /\ tail # << >> /\ Head(tail) = f
    /\ \A f \in Running : name[f] # 0 =>
          Outer[f] \in Running /\ name[Outer[f]] = name[f] - 1

(* What the savepoint of a flow saved. *)
SavedBy(f) == Numbers(saves[name[f] + 1].data)

(* What is read outside and around the open transaction. *)
Grown ==
    /\ saves = << >> => view = stored
    /\ saves # << >> => saves[1].data = stored
    /\ \A i, j \in 1..depth : i <= j =>
          Numbers(saves[i].data) \subseteq Numbers(saves[j].data)
    /\ \A i \in 1..depth : Numbers(saves[i].data) \subseteq Numbers(view)

Separated ==
    /\ \A f \in Running : mine[f] \subseteq Numbers(view) /\ mine[f] \cap SavedBy(f) = {}
    /\ \A f, g \in Running : name[f] < name[g] => mine[f] \subseteq SavedBy(g)
    /\ \A f \in Flows : flow[f] \in {"idle", "queued"} => mine[f] = {}

(* Only calls outside any callback queue. *)
Queued == \A f \in Flows : flow[f] = "queued" => Outer[f] = Top

(* A number is given to one write only. *)
Counted == \A n \in Numbers(view) \cup refused : n <= used

Answered == promised \subseteq Numbers(stored) /\ refused \cap Numbers(view) = {}

TxInv == /\ TxTyped /\ Nested /\ Stacked /\ Grown /\ Separated
         /\ Queued /\ Counted /\ Answered

-----------------------------------------------------------------------------
LEMMA NumbersAreNat == ASSUME NEW data \in Seq(Writes) PROVE Numbers(data) \subseteq Nat
<1>1. \A i \in DOMAIN data : data[i] \in Writes
  BY LenProperties, ElementOfSeq
<1> QED
  BY <1>1 DEF Numbers, Writes

LEMMA NumbersOfAppend ==
    ASSUME NEW data \in Seq(Writes), NEW w \in Writes
    PROVE  /\ Append(data, w) \in Seq(Writes)
           /\ Numbers(Append(data, w)) = Numbers(data) \cup {w.n}
<1> DEFINE longer == Append(data, w)
<1>1. /\ longer \in Seq(Writes) /\ Len(longer) = Len(data) + 1
      /\ \A i \in 1..Len(data) : longer[i] = data[i]
      /\ longer[Len(data) + 1] = w
  BY AppendProperties
<1>2. DOMAIN data = 1..Len(data) /\ Len(data) \in Nat
  BY LenProperties
<1> HIDE DEF longer
<1>3. DOMAIN longer = 1..(Len(data) + 1)
  BY <1>1, LenProperties
<1>4. \A i \in DOMAIN longer : i \in DOMAIN data \/ i = Len(data) + 1
  BY <1>2, <1>3
<1>5. (Len(data) + 1) \in DOMAIN longer /\ \A i \in DOMAIN data : i \in DOMAIN longer
  BY <1>2, <1>3
<1>6. Numbers(longer) = Numbers(data) \cup {w.n}
  BY <1>1, <1>2, <1>4, <1>5 DEF Numbers
<1> QED
  BY <1>1, <1>6 DEF longer

LEMMA SavesAt ==
    ASSUME TxTyped
    PROVE  /\ Len(saves) \in Nat
           /\ \A i \in 1..Len(saves) :
                 saves[i].name \in Nat /\ saves[i].data \in Seq(Writes)
           /\ (saves = << >>) <=> (Len(saves) = 0)
<1>1. saves \in Seq([name : Nat, data : Seq(Writes)])
  BY DEF TxTyped
<1>2. Len(saves) \in Nat
        /\ \A i \in 1..Len(saves) : saves[i] \in [name : Nat, data : Seq(Writes)]
  BY <1>1, LenProperties, ElementOfSeq
<1>3. (saves = << >>) <=> (Len(saves) = 0)
  BY <1>1, EmptySeq
<1> QED
  BY <1>2, <1>3

(* A flow whose callback runs is the innermost one, and its savepoint is    *)
(* the topmost one.                                                         *)
LEMMA RunsInnermost ==
    ASSUME TxTyped, Nested, Stacked, NEW f \in Flows, Runs(f)
    PROVE  /\ f \in Running /\ name[f] = depth - 1 /\ depth >= 1
           /\ \A g \in Running : g # f => name[g] < name[f]
           /\ Outer[f] = Top <=> depth = 1
<1>1. f \in Running /\ \A g \in Running : Outer[g] # f
  BY DEF Runs, Inner, Running
<1>2. name[f] \in Nat /\ depth \in Nat /\ name[f] < depth
  BY <1>1 DEF TxTyped, Stacked
<1>3. name[f] = depth - 1
  <2> SUFFICES ASSUME name[f] # depth - 1 PROVE FALSE
    OBVIOUS
  <2>1. name[f] + 1 \in 0..(depth - 1)
    BY <1>2
  <2>2. PICK g \in Running : name[g] = name[f] + 1
    BY <2>1 DEF Stacked
  <2>3. name[g] # 0 /\ name[g] - 1 = name[f]
    BY <1>2, <2>2
  <2>4. Outer[g] \in Running /\ name[Outer[g]] = name[f]
    BY <2>2, <2>3 DEF Stacked
  <2>5. Outer[g] = f
    BY <1>1, <2>4 DEF Stacked
  <2> QED
    BY <1>1, <2>2, <2>5
<1>4. \A g \in Running : g # f => name[g] < name[f]
  <2>1. \A g \in Running : name[g] \in Nat /\ name[g] < depth
    BY DEF TxTyped, Stacked, Running
  <2>2. \A g \in Running : g # f => name[g] # name[f]
    BY <1>1 DEF Stacked
  <2> QED
    BY <1>2, <1>3, <2>1, <2>2
<1>5. Outer[f] = Top <=> depth = 1
  <2>1. name[f] = 0 => Outer[f] = Top
    BY <1>1 DEF Stacked
  <2>2. name[f] # 0 => Outer[f] # Top
    BY <1>1, TransactionsAssumption DEF Stacked, Running
  <2> QED
    BY <1>2, <1>3, <2>1, <2>2
<1> QED
  BY <1>1, <1>2, <1>3, <1>4, <1>5

(* Nothing runs when no transaction is open. *)
LEMMA NothingRuns ==
    ASSUME TxTyped, Nested, Stacked, depth = 0
    PROVE  Running = {} /\ saves = << >>
<1>1. \A f \in Running : name[f] \in Nat /\ name[f] < 0
  BY DEF Stacked, TxTyped, Running
<1>2. Running = {}
  BY <1>1
<1> QED
  BY <1>2, SavesAt DEF Nested

LEMMA SavepointOf ==
    ASSUME TxTyped, Nested, Stacked, NEW f \in Flows, Runs(f)
    PROVE  SaveOf(f) = IF depth = 1 THEN 0 ELSE depth
<1> DEFINE S == {0} \cup {i \in DOMAIN saves : saves[i].name = name[f] /\ name[f] > 0}
<1>1. /\ name[f] = depth - 1 /\ depth \in Nat /\ depth >= 1
      /\ DOMAIN saves = 1..depth /\ \A i \in 1..depth : saves[i].name = i - 1
  BY RunsInnermost, LenProperties DEF TxTyped, Nested
<1>2. S = IF depth = 1 THEN {0} ELSE {0, depth}
  BY <1>1
<1> HIDE DEF S
<1>3. Max(S) = IF depth = 1 THEN 0 ELSE depth
  <2>1. CASE depth = 1
    BY <1>2, <2>1 DEF Max
  <2>2. CASE depth # 1
    <3>1. S = {0, depth} /\ depth > 0 /\ depth \in Nat
      BY <1>1, <1>2, <2>2
    <3>2. \A x \in S : (\A y \in S : x >= y) <=> x = depth
      BY <3>1
    <3> QED
      BY <2>2, <3>1, <3>2 DEF Max
  <2> QED
    BY <2>1, <2>2
<1> QED
  BY <1>3 DEF SaveOf, S

-----------------------------------------------------------------------------
(* A flow opens its savepoint on top of the stack. *)
LEMMA OpensOnTop ==
    ASSUME TxInv, NEW f \in Flows, flow[f] \in {"idle", "queued"}, Opens(f),
           UNCHANGED <<stored, view, tail, used, mine, promised, refused>>,
           IF Outer[f] = Top THEN depth = 0 /\ tail # << >> /\ Head(tail) = f
           ELSE Outer[f] \in Running /\ name[Outer[f]] = depth - 1 /\ depth >= 1
    PROVE  TxInv'
<1> USE DEF TxInv
<1>1. /\ depth \in Nat /\ name \in [Flows -> Nat] /\ depth = Len(saves)
      /\ f \notin Running
  BY DEF TxTyped, Nested, Running
<1>2. /\ depth' = depth + 1 /\ asyncDepth' = asyncDepth + 1
      /\ name' = [name EXCEPT ![f] = depth] /\ flow' = [flow EXCEPT ![f] = "running"]
      /\ saves' = Append(saves, [name |-> depth, data |-> view])
  BY DEF Opens
<1>3. /\ saves' \in Seq([name : Nat, data : Seq(Writes)])
      /\ Len(saves') = depth + 1
      /\ \A i \in 1..depth : saves'[i] = saves[i]
      /\ saves'[depth + 1] = [name |-> depth, data |-> view]
  <2>1. /\ saves \in Seq([name : Nat, data : Seq(Writes)])
        /\ [name |-> depth, data |-> view] \in [name : Nat, data : Seq(Writes)]
    BY DEF TxTyped
  <2> QED
    BY <1>1, <1>2, <2>1, AppendProperties
<1>4. /\ Running' = Running \cup {f} /\ name'[f] = depth
      /\ \A g \in Running : g # f /\ name'[g] = name[g] /\ name[g] < depth
                           /\ name[g] \in Nat
  BY <1>1, <1>2, SMTT(40) DEF Running, TxTyped, Stacked
<1>5. TxTyped'
  BY <1>1, <1>2, <1>3, SMTT(40) DEF TxTyped, States
<1>6. Nested'
  <2>1. \A i \in 1..(depth + 1) : i \in 1..depth \/ i = depth + 1
    BY <1>1
  <2>2. ASSUME NEW i \in 1..(depth + 1)
        PROVE  saves'[i].name = i - 1
    <3>1. CASE i \in 1..depth
      BY <1>3, <3>1 DEF Nested
    <3>2. CASE i = depth + 1
      BY <1>1, <1>3, <3>2
    <3> QED
      BY <2>1, <3>1, <3>2
  <2> QED
    BY <1>1, <1>2, <1>3, <2>2 DEF Nested
<1>7. Stacked'
  <2>1. \A g \in Running' : name'[g] < depth'
    BY <1>1, <1>2, <1>4
  <2>2. \A g, h \in Running' : name'[g] = name'[h] => g = h
    BY <1>1, <1>4 DEF Stacked
  <2>3. \A i \in 0..(depth' - 1) : \E g \in Running' : name'[g] = i
    <3>1. \A i \in 0..(depth' - 1) : i \in 0..(depth - 1) \/ i = depth
      BY <1>1, <1>2
    <3>2. \A i \in 0..(depth - 1) : \E g \in Running : name[g] = i
      BY DEF Stacked
    <3> QED
      BY <1>4, <3>1, <3>2
  <2>4. \A g \in Running' : name'[g] = 0 =>
           Outer[g] = Top /\ tail' # << >> /\ Head(tail') = g
    BY <1>1, <1>4 DEF Stacked
  <2>5. \A g \in Running' : name'[g] # 0 =>
           Outer[g] \in Running' /\ name'[Outer[g]] = name'[g] - 1
    <3>1. \A g \in Running : name[g] # 0 =>
             Outer[g] \in Running /\ name[Outer[g]] = name[g] - 1
      BY DEF Stacked
    <3>2. depth # 0 => Outer[f] \in Running /\ name[Outer[f]] = depth - 1
      BY <1>1
    <3> QED
      BY <1>4, <3>1, <3>2
  <2> QED
    BY <2>1, <2>2, <2>3, <2>4, <2>5 DEF Stacked
<1>8. Grown'
  <2>1. Len(saves') # 0 /\ saves' # << >>
    BY <1>1, <1>3, <1>5, SavesAt
  <2>2. saves'[1].data = stored'
    <3>1. CASE depth = 0
      BY <1>1, <1>3, <3>1, SavesAt DEF Grown
    <3>2. CASE depth # 0
      BY <1>1, <1>3, <3>2, SavesAt DEF Grown
    <3> QED
      BY <3>1, <3>2
  <2>3. \A i, j \in 1..(depth + 1) : i <= j =>
          Numbers(saves'[i].data) \subseteq Numbers(saves'[j].data)
    <3>1. \A i \in 1..(depth + 1) : i \in 1..depth \/ i = depth + 1
      BY <1>1
    <3>2. saves'[depth + 1].data = view
      BY <1>3
    <3>3. \A i, j \in 1..depth : i <= j =>
             Numbers(saves[i].data) \subseteq Numbers(saves[j].data)
      BY DEF Grown
    <3>4. \A i \in 1..depth : Numbers(saves[i].data) \subseteq Numbers(view)
      BY DEF Grown
    <3>5. ASSUME NEW i \in 1..(depth + 1), NEW j \in 1..(depth + 1), i <= j
          PROVE  Numbers(saves'[i].data) \subseteq Numbers(saves'[j].data)
      <4>1. CASE j \in 1..depth
        <5>1. i \in 1..depth
          BY <1>1, <3>5, <4>1
        <5>2. saves'[i] = saves[i] /\ saves'[j] = saves[j]
          BY <1>3, <4>1, <5>1
        <5> QED
          BY <3>3, <3>5, <4>1, <5>1, <5>2
      <4>2. CASE j = depth + 1 /\ i \in 1..depth
        <5>1. saves'[i] = saves[i]
          BY <1>3, <4>2
        <5> QED
          BY <3>2, <3>4, <4>2, <5>1
      <4>3. CASE i = depth + 1 /\ j = depth + 1
        BY <4>3
      <4> QED
        BY <1>1, <3>1, <3>5, <4>1, <4>2, <4>3
    <3> QED
      BY <3>5
  <2>4. \A i \in 1..(depth + 1) : Numbers(saves'[i].data) \subseteq Numbers(view')
    <3>1. view' = view /\ saves'[depth + 1].data = view
      BY <1>3
    <3>2. ASSUME NEW i \in 1..depth
          PROVE  Numbers(saves'[i].data) \subseteq Numbers(view)
      <4>1. saves'[i] = saves[i]
        BY <1>3
      <4> QED
        BY <4>1 DEF Grown
    <3>3. \A i \in 1..(depth + 1) : i \in 1..depth \/ i = depth + 1
      BY <1>1
    <3> QED
      BY <3>1, <3>2, <3>3
  <2> QED
    BY <1>2, <2>1, <2>2, <2>3, <2>4 DEF Grown
<1>9. Separated'
  <2>1. SavedBy(f)' = Numbers(view) /\ mine[f] = {}
    BY <1>3, <1>4 DEF SavedBy, Separated
  <2>2. \A g \in Running : SavedBy(g)' = SavedBy(g)
    <3>1. \A g \in Running : name[g] + 1 \in 1..depth
      BY <1>1, <1>4
    <3> QED
      BY <1>3, <1>4, <3>1 DEF SavedBy
  <2>3. \A g \in Running : mine[g] \subseteq Numbers(view)
    BY DEF Separated
  <2>4. \A g \in Running' : mine'[g] \subseteq Numbers(view') /\ mine'[g] \cap SavedBy(g)' = {}
    BY <1>4, <2>1, <2>2, <2>3 DEF Separated
  <2>5. \A g, h \in Running' : name'[g] < name'[h] => mine'[g] \subseteq SavedBy(h)'
    <3>1. \A g \in Running : ~(depth < name[g])
      BY <1>1, <1>4
    <3>2. ~(depth < depth)
      BY <1>1
    <3> QED
      BY <1>4, <2>1, <2>2, <2>3, <3>1, <3>2 DEF Separated
  <2>6. \A g \in Flows : flow'[g] \in {"idle", "queued"} => mine'[g] = {}
    BY <1>2 DEF Separated, TxTyped
  <2> QED
    BY <2>4, <2>5, <2>6 DEF Separated
<1>10. Queued' /\ Counted' /\ Answered'
  BY <1>2 DEF Queued, Counted, Answered, TxTyped
<1> QED
  BY <1>5, <1>6, <1>7, <1>8, <1>9, <1>10

-----------------------------------------------------------------------------
(* The savepoints below the topmost one. *)
LEMMA Cut ==
    ASSUME TxTyped, depth = Len(saves), depth >= 1,
           saves' = IF depth = 1 THEN << >> ELSE SubSeq(saves, 1, depth - 1)
    PROVE  /\ saves' \in Seq([name : Nat, data : Seq(Writes)])
           /\ Len(saves') = depth - 1
           /\ \A i \in 1..(depth - 1) : saves'[i] = saves[i]
<1> DEFINE Save == [name : Nat, data : Seq(Writes)]
<1>1. saves \in Seq(Save) /\ depth \in Nat /\ \A i \in 1..depth : saves[i] \in Save
  BY ElementOfSeq DEF TxTyped
<1> HIDE DEF Save
<1>2. CASE depth = 1
  <2>1. << >> \in Seq(Save) /\ Len(<< >>) = 0
    BY EmptySeq
  <2>2. saves' = << >>
    BY <1>2
  <2> QED
    BY <1>2, <2>1, <2>2 DEF Save
<1>3. CASE depth # 1
  <2>1. /\ depth - 1 \in Int /\ 1 <= depth - 1 /\ (depth - 1) - 1 + 1 = depth - 1
        /\ \A i \in 1..(depth - 1) : saves[i] \in Save /\ 1 + i - 1 = i
    BY <1>1, <1>3
  <2>2. /\ SubSeq(saves, 1, depth - 1) \in Seq(Save)
        /\ Len(SubSeq(saves, 1, depth - 1)) =
             IF 1 <= depth - 1 THEN (depth - 1) - 1 + 1 ELSE 0
        /\ \A i \in 1..((depth - 1) - 1 + 1) :
             SubSeq(saves, 1, depth - 1)[i] = saves[1 + i - 1]
    BY <2>1, SubSeqProperties
  <2> QED
    BY <1>3, <2>1, <2>2 DEF Save
<1> QED
  BY <1>2, <1>3

(* The innermost flow ends: its savepoint is taken off the stack.           *)
LEMMA EndsOnTop ==
    ASSUME TxTyped, Nested, Stacked, NEW f \in Flows, Runs(f),
           NEW outcome \in {"done", "failed"}, Settles(f, outcome),
           depth' = depth - 1, name' = name, TxTyped', Len(saves') = depth - 1,
           \A i \in 1..(depth - 1) : saves'[i] = saves[i]
    PROVE  /\ Nested' /\ Stacked'
           /\ Running' = Running \ {f}
           /\ \A g \in Running' : /\ SavedBy(g)' = SavedBy(g)
                                  /\ name[g] < name[f] /\ name[g] + 1 \in 1..depth
           /\ \A g \in Flows : flow'[g] \in {"idle", "queued"} => flow'[g] = flow[g]
<1>1. /\ f \in Running /\ name[f] = depth - 1 /\ depth >= 1 /\ depth \in Nat
      /\ \A g \in Running : g # f => name[g] < name[f]
      /\ Outer[f] = Top <=> depth = 1
  BY RunsInnermost DEF TxTyped
<1>2. /\ flow' = [flow EXCEPT ![f] = outcome] /\ asyncDepth' = asyncDepth - 1
      /\ depth # 1 => tail' = tail
  BY <1>1 DEF Settles
<1>3. Running' = Running \ {f}
  BY <1>2 DEF Running, TxTyped
<1>4. \A g \in Running' : name[g] \in Nat /\ name[g] < depth - 1 /\ g \in Running
  BY <1>1, <1>3 DEF Running, TxTyped
<1>5. Nested'
  BY <1>1, <1>2 DEF Nested
<1>6. Stacked'
  <2>1. \A g \in Running' : name'[g] < depth'
    BY <1>4
  <2>2. \A g, h \in Running' : name'[g] = name'[h] => g = h
    BY <1>4 DEF Stacked
  <2>3. \A i \in 0..(depth' - 1) : \E g \in Running' : name'[g] = i
    <3>1. \A i \in 0..(depth' - 1) : i \in 0..(depth - 1) /\ i # name[f]
      BY <1>1
    <3>2. \A i \in 0..(depth - 1) : \E g \in Running : name[g] = i
      BY DEF Stacked
    <3> QED
      BY <1>3, <3>1, <3>2
  <2>4. \A g \in Running' : name'[g] = 0 =>
           Outer[g] = Top /\ tail' # << >> /\ Head(tail') = g
    <3>1. \A g \in Running' : depth # 1
      BY <1>1, <1>4
    <3> QED
      BY <1>2, <1>4, <3>1 DEF Stacked
  <2>5. \A g \in Running' : name'[g] # 0 =>
           Outer[g] \in Running' /\ name'[Outer[g]] = name'[g] - 1
    <3>1. \A g \in Running : name[g] # 0 =>
             Outer[g] \in Running /\ name[Outer[g]] = name[g] - 1
      BY DEF Stacked
    <3>2. \A g \in Running' : name[g] # 0 => name[g] - 1 # name[f]
      BY <1>1, <1>4
    <3> QED
      BY <1>3, <1>4, <3>1, <3>2
  <2> QED
    BY <2>1, <2>2, <2>3, <2>4, <2>5 DEF Stacked
<1>7. \A g \in Running' : /\ SavedBy(g)' = SavedBy(g)
                         /\ name[g] < name[f] /\ name[g] + 1 \in 1..depth
  <2>1. \A g \in Running' : name[g] + 1 \in 1..(depth - 1)
    BY <1>1, <1>4
  <2> QED
    BY <1>1, <1>4, <2>1 DEF SavedBy
<1>8. \A g \in Flows : flow'[g] \in {"idle", "queued"} => flow'[g] = flow[g]
  BY <1>2 DEF TxTyped
<1> QED
  BY <1>3, <1>5, <1>6, <1>7, <1>8

LEMMA TailStaysTyped ==
    ASSUME TxTyped, Nested, Stacked, NEW f \in Flows, Runs(f), NEW outcome,
           Settles(f, outcome)
    PROVE  tail' \in Seq(Flows)
<1>1. Outer[f] = Top => f \in Running /\ name[f] = 0
  BY RunsInnermost DEF TxTyped
<1>2. Outer[f] = Top => tail # << >>
  BY <1>1 DEF Stacked
<1>3. tail' = IF Outer[f] = Top THEN Tail(tail) ELSE tail
  BY DEF Settles
<1> QED
  BY <1>2, <1>3, HeadTailProperties DEF TxTyped

(* A rollback of the innermost flow: what its callers are told of has gone. *)
LEMMA RollbackHolds ==
    ASSUME TxInv, NEW f \in Flows, Runs(f), NEW left \in Int,
           depth # 1 => left = depth - 1,
           RollsBack(f, left), used' = used
    PROVE  TxInv'
<1> USE DEF TxInv
<1>1. /\ f \in Running /\ name[f] = depth - 1 /\ depth >= 1 /\ depth \in Nat
      /\ \A g \in Running : g # f => name[g] < name[f]
      /\ SaveOf(f) = IF depth = 1 THEN 0 ELSE depth
  BY RunsInnermost, SavepointOf DEF TxTyped
<1>2. /\ Len(saves) = depth /\ saves # << >> /\ InTx
      /\ \A i \in 1..depth : saves[i].data \in Seq(Writes)
  BY <1>1, SavesAt DEF Nested, InTx
<1>3. view' = saves[depth].data
  BY <1>1, <1>2 DEF RollsBack
<1>4. saves' = IF depth = 1 THEN << >> ELSE SubSeq(saves, 1, depth - 1)
  BY <1>1, <1>2 DEF RollsBack
<1>5. /\ depth' = depth - 1 /\ Settles(f, "failed") /\ name' = name
      /\ refused' = refused \cup mine[f]
      /\ UNCHANGED <<stored, mine, promised, used>>
  BY <1>1, <1>2 DEF RollsBack, Drops
<1>6. /\ saves' \in Seq([name : Nat, data : Seq(Writes)]) /\ Len(saves') = depth - 1
      /\ \A i \in 1..(depth - 1) : saves'[i] = saves[i]
  BY <1>1, <1>2, <1>4, Cut DEF TxTyped
<1>7. TxTyped'
  <2>1. depth' \in Nat /\ asyncDepth' \in Nat
    BY <1>1, <1>5 DEF Settles, Nested
  <2>2. flow' \in [Flows -> States]
    BY <1>5 DEF Settles, TxTyped, States
  <2>3. view' \in Seq(Writes) /\ refused' \subseteq Nat
    <3>1. depth \in 1..depth
      BY <1>1
    <3> QED
      BY <1>2, <1>3, <1>5, <3>1 DEF TxTyped
  <2>4. tail' \in Seq(Flows)
    BY <1>5, TailStaysTyped
  <2> QED
    BY <1>5, <1>6, <2>1, <2>2, <2>3, <2>4 DEF TxTyped
<1>8. /\ Nested' /\ Stacked'
      /\ Running' = Running \ {f}
      /\ \A g \in Running' : /\ SavedBy(g)' = SavedBy(g)
                             /\ name[g] < name[f] /\ name[g] + 1 \in 1..depth
      /\ \A g \in Flows : flow'[g] \in {"idle", "queued"} => flow'[g] = flow[g]
  BY <1>5, <1>6, <1>7, EndsOnTop
<1>9. Numbers(view') \subseteq Numbers(view) /\ Numbers(view') = SavedBy(f)
  BY <1>1, <1>3 DEF Grown, SavedBy
<1>10. Grown'
  <2>1. saves' = << >> => view' = stored'
    BY <1>1, <1>2, <1>3, <1>4, <1>5, <1>6, <1>7, SavesAt DEF Grown
  <2>2. saves' # << >> => saves'[1].data = stored'
    <3>1. saves' # << >> => depth # 1 /\ 1 \in 1..(depth - 1)
      BY <1>1, <1>4
    <3> QED
      BY <1>2, <1>5, <1>6, <3>1 DEF Grown
  <2>3. \A i \in 1..(depth - 1) : i \in 1..depth /\ saves'[i] = saves[i] /\ i <= depth
    BY <1>1, <1>6
  <2>4. \A i, j \in 1..depth' : i <= j =>
          Numbers(saves'[i].data) \subseteq Numbers(saves'[j].data)
    BY <1>5, <2>3 DEF Grown
  <2>5. \A i \in 1..depth' : Numbers(saves'[i].data) \subseteq Numbers(view')
    <3>1. depth \in 1..depth
      BY <1>1
    <3> QED
      BY <1>3, <1>5, <2>3, <3>1 DEF Grown
  <2> QED
    BY <2>1, <2>2, <2>4, <2>5 DEF Grown
<1>11. Separated'
  <2>1. \A g \in Running' : mine[g] \subseteq SavedBy(f)
    BY <1>1, <1>8 DEF Separated
  <2>2. \A g \in Running' : mine'[g] \subseteq Numbers(view') /\ mine'[g] \cap SavedBy(g)' = {}
    BY <1>5, <1>8, <1>9, <2>1 DEF Separated
  <2>3. \A g, h \in Running' : name'[g] < name'[h] => mine'[g] \subseteq SavedBy(h)'
    BY <1>5, <1>8 DEF Separated
  <2>4. \A g \in Flows : flow'[g] \in {"idle", "queued"} => mine'[g] = {}
    BY <1>5, <1>8 DEF Separated
  <2> QED
    BY <2>2, <2>3, <2>4 DEF Separated
<1>12. Queued' /\ Counted'
  <2>1. mine[f] \subseteq Numbers(view)
    BY <1>1 DEF Separated
  <2> QED
    BY <1>5, <1>8, <1>9, <2>1 DEF Queued, Counted
<1>13. Answered'
  BY <1>1, <1>5, <1>9 DEF Answered, Separated
<1> QED
  BY <1>7, <1>8, <1>10, <1>11, <1>12, <1>13

(* The innermost flow keeps its writes: they become its outer flow's, or,   *)
(* when it is the outermost, are committed.                                 *)
LEMMA KeepHolds ==
    ASSUME TxInv, NEW f \in Flows, Runs(f),
           Settles(f, "done"), Keeps(f), depth' = depth - 1,
           saves' = IF depth = 1 THEN << >> ELSE SubSeq(saves, 1, depth - 1),
           stored' = IF depth = 1 THEN view ELSE stored,
           UNCHANGED <<view, name, used>>
    PROVE  TxInv'
<1> USE DEF TxInv
<1>1. /\ f \in Running /\ name[f] = depth - 1 /\ depth >= 1 /\ depth \in Nat
      /\ \A g \in Running : g # f => name[g] < name[f]
      /\ Outer[f] = Top <=> depth = 1
  BY RunsInnermost DEF TxTyped
<1>2. /\ Len(saves) = depth /\ saves # << >>
      /\ \A i \in 1..depth : saves[i].data \in Seq(Writes)
  BY <1>1, SavesAt DEF Nested
<1>3. /\ saves' \in Seq([name : Nat, data : Seq(Writes)]) /\ Len(saves') = depth - 1
      /\ \A i \in 1..(depth - 1) : saves'[i] = saves[i]
  BY <1>1, <1>2, Cut DEF TxTyped
<1>4. /\ refused' = refused
      /\ promised' = IF depth = 1 THEN promised \cup mine[f] ELSE promised
      /\ mine' = IF depth = 1 THEN mine
                 ELSE [mine EXCEPT ![Outer[f]] = mine[Outer[f]] \cup mine[f]]
      /\ flow' = [flow EXCEPT ![f] = "done"] /\ asyncDepth' = asyncDepth - 1
  BY <1>1 DEF Keeps, Settles
<1>5. TxTyped'
  <2>1. mine' \in [Flows -> SUBSET Nat] /\ promised' \subseteq Nat /\ stored' \in Seq(Writes)
    BY <1>4 DEF TxTyped
  <2>2. depth' \in Nat /\ asyncDepth' \in Nat
    BY <1>1, <1>4 DEF Nested
  <2>3. flow' \in [Flows -> States]
    BY <1>4 DEF TxTyped, States
  <2>4. tail' \in Seq(Flows)
    BY TailStaysTyped
  <2> QED
    BY <1>3, <1>4, <2>1, <2>2, <2>3, <2>4 DEF TxTyped
<1>6. /\ Nested' /\ Stacked'
      /\ Running' = Running \ {f}
      /\ \A g \in Running' : /\ SavedBy(g)' = SavedBy(g)
                             /\ name[g] < name[f] /\ name[g] + 1 \in 1..depth
      /\ \A g \in Flows : flow'[g] \in {"idle", "queued"} => flow'[g] = flow[g]
  BY <1>3, <1>5, EndsOnTop
<1>7. Numbers(stored) \subseteq Numbers(view)
  <2>1. saves[1].data = stored /\ 1 \in 1..depth
    BY <1>1, <1>2 DEF Grown
  <2> QED
    BY <2>1 DEF Grown
<1>8. Grown'
  <2>1. saves' = << >> => view' = stored'
    <3>1. saves' = << >> => Len(saves') = 0
      OBVIOUS
    <3>2. saves' = << >> => depth = 1
      BY <1>1, <1>3, <3>1, SMTT(40)
    <3> QED
      BY <3>2
  <2>2. saves' # << >> => saves'[1].data = stored'
    <3>1. saves' # << >> => depth # 1 /\ 1 \in 1..(depth - 1)
      BY <1>1
    <3>2. saves' # << >> => saves[1].data = stored
      BY <1>1, <1>2, <3>1 DEF Grown
    <3> QED
      BY <1>3, <3>1, <3>2
  <2>3. \A i \in 1..(depth - 1) : i \in 1..depth /\ saves'[i] = saves[i]
    BY <1>1, <1>3
  <2>4. \A i, j \in 1..depth' : i <= j =>
          Numbers(saves'[i].data) \subseteq Numbers(saves'[j].data)
    BY <2>3, ZenonT(60) DEF Grown
  <2>5. \A i \in 1..depth' : Numbers(saves'[i].data) \subseteq Numbers(view')
    BY <2>3 DEF Grown
  <2> QED
    BY <2>1, <2>2, <2>4, <2>5 DEF Grown
<1>0. Queued'
  BY <1>6 DEF Queued
<1>9. CASE depth = 1
  <2>1. Running' = {}
    BY <1>1, <1>6, <1>9 DEF Running, TxTyped
  <2>2. mine[f] \subseteq Numbers(view)
    BY <1>1 DEF Separated
  <2>3. Separated'
    BY <1>4, <1>6, <1>9, <2>1 DEF Separated
  <2>4. Counted' /\ Answered'
    BY <1>4, <1>7, <1>9, <2>2 DEF Counted, Answered
  <2> QED
    BY <1>0, <1>5, <1>6, <1>8, <2>3, <2>4
<1>10. CASE depth # 1
  <2> DEFINE o == Outer[f]
  <2>1. /\ o \in Running /\ name[o] = depth - 2 /\ o \in Running'
        /\ mine' = [mine EXCEPT ![o] = mine[o] \cup mine[f]]
    <3>1. name[f] # 0
      BY <1>1, <1>10
    <3>2. o \in Running /\ name[o] = name[f] - 1
      BY <1>1, <3>1 DEF Stacked
    <3> QED
      BY <1>1, <1>4, <1>6, <1>10, <3>2
  <2> HIDE DEF o
  <2>2. /\ mine'[o] = mine[o] \cup mine[f]
        /\ \A g \in Flows : g # o => mine'[g] = mine[g]
    BY <2>1 DEF TxTyped, Running
  <2>3. SavedBy(o) \subseteq SavedBy(f)
    <3>1. name[o] + 1 \in 1..depth /\ name[f] + 1 \in 1..depth /\ name[o] + 1 <= name[f] + 1
      BY <1>1, <1>6, <2>1
    <3>2. \A i, j \in 1..depth : i <= j =>
             Numbers(saves[i].data) \subseteq Numbers(saves[j].data)
      BY DEF Grown
    <3>3. Numbers(saves[name[o] + 1].data) \subseteq Numbers(saves[name[f] + 1].data)
      BY <3>1, <3>2
    <3> QED
      BY <3>3 DEF SavedBy
  <2>4. \A g \in Running' : mine'[g] \subseteq Numbers(view') /\ mine'[g] \cap SavedBy(g)' = {}
    BY <1>1, <1>6, <2>1, <2>2, <2>3 DEF Separated, Running
  <2>5. \A g, h \in Running' : name'[g] < name'[h] => mine'[g] \subseteq SavedBy(h)'
    <3>1. \A h \in Running' : ~(name[o] < name[h])
      BY <1>1, <1>6, <2>1 DEF TxTyped, Running
    <3> QED
      BY <1>6, <2>2, <3>1 DEF Separated, Running
  <2>6. \A g \in Flows : flow'[g] \in {"idle", "queued"} => mine'[g] = {}
    BY <1>6, <2>1, <2>2 DEF Separated, Running
  <2>7. Counted' /\ Answered'
    BY <1>4, <1>10 DEF Counted, Answered
  <2> QED
    BY <1>0, <1>5, <1>6, <1>8, <2>4, <2>5, <2>6, <2>7 DEF Separated
<1> QED
  BY <1>9, <1>10

-----------------------------------------------------------------------------
(* Writes. *)
LEMMA WriteInside ==
    ASSUME TxInv, NEW f \in Flows, NEW d \in Docs, NEW v \in Values, Write(f, d, v)
    PROVE  TxInv'
<1> USE DEF TxInv
<1> DEFINE w == Written(d, v)
<1>1. Runs(f) /\ w \in Writes /\ w.n = used + 1
  BY DEF Write, Written, Writes, TxTyped
<1>2. /\ f \in Running /\ depth >= 1 /\ depth \in Nat
      /\ \A g \in Running : g # f => name[g] < name[f]
  BY <1>1, RunsInnermost DEF TxTyped
<1>3. saves # << >> /\ depth = Len(saves)
  BY <1>2, SavesAt DEF Nested
<1>4. /\ view' = Append(view, w) /\ stored' = stored /\ used' = used + 1
      /\ mine' = [mine EXCEPT ![f] = mine[f] \cup {used + 1}]
      /\ UNCHANGED <<saves, depth, name, asyncDepth, tail, flow, promised, refused>>
  BY <1>3 DEF Write, Stores, InTx
<1> HIDE DEF w
<1>5. view' \in Seq(Writes) /\ Numbers(view') = Numbers(view) \cup {used + 1}
  BY <1>1, <1>4, NumbersOfAppend DEF TxTyped
<1>6. TxTyped'
  BY <1>4, <1>5 DEF TxTyped
<1>7. /\ Running' = Running /\ Nested' /\ Stacked' /\ Queued'
      /\ \A g \in Flows : SavedBy(g)' = SavedBy(g)
  BY <1>4 DEF Running, Nested, Stacked, Queued, SavedBy
<1>8. Grown'
  <2>1. \A i \in 1..depth : Numbers(saves[i].data) \subseteq Numbers(view')
    BY <1>5 DEF Grown
  <2> QED
    BY <1>3, <1>4, <2>1 DEF Grown
<1>9. /\ mine'[f] = mine[f] \cup {used + 1}
      /\ \A g \in Flows : g # f => mine'[g] = mine[g]
  BY <1>4 DEF TxTyped
<1>10. Separated'
  <2>1. used + 1 \notin SavedBy(f)
    <3>1. name[f] + 1 \in 1..depth
      BY <1>2 DEF TxTyped, Stacked, Running
    <3>2. SavedBy(f) \subseteq Numbers(view)
      BY <3>1 DEF Grown, SavedBy
    <3>3. used \in Nat /\ ~(used + 1 <= used)
      BY DEF TxTyped
    <3> QED
      BY <3>2, <3>3 DEF Counted
  <2>2. \A g \in Running' : mine'[g] \subseteq Numbers(view') /\ mine'[g] \cap SavedBy(g)' = {}
    BY <1>5, <1>7, <1>9, <2>1 DEF Separated, Running
  <2>3. \A g, h \in Running' : name'[g] < name'[h] => mine'[g] \subseteq SavedBy(h)'
    <3>1. \A h \in Running : ~(name[f] < name[h])
      <4>1. \A h \in Running : name[h] \in Nat
        BY DEF TxTyped, Running
      <4> QED
        BY <1>2, <4>1
    <3> QED
      BY <1>4, <1>7, <1>9, <3>1 DEF Separated, Running
  <2>4. \A g \in Flows : flow'[g] \in {"idle", "queued"} => mine'[g] = {}
    BY <1>2, <1>4, <1>9 DEF Separated, Running
  <2> QED
    BY <2>2, <2>3, <2>4 DEF Separated
<1>11. Counted'
  <2>1. \A n \in Numbers(view') \cup refused : n \in Nat
    BY <1>5, <1>6, NumbersAreNat DEF TxTyped
  <2>2. \A n \in Numbers(view) \cup refused : n <= used
    BY DEF Counted
  <2>3. used \in Nat
    BY DEF TxTyped
  <2>4. \A n \in Nat : n <= used => n <= used + 1
    BY <2>3
  <2> QED
    BY <1>4, <1>5, <2>1, <2>2, <2>3, <2>4 DEF Counted
<1>12. Answered'
  <2>1. used + 1 \notin refused
    BY DEF Counted, TxTyped
  <2> QED
    BY <1>4, <1>5, <2>1 DEF Answered
<1> QED
  BY <1>6, <1>7, <1>8, <1>10, <1>11, <1>12

(* A write outside any transaction is committed at once. *)
LEMMA WriteOutside ==
    ASSUME TxInv, NEW d \in Docs, NEW v \in Values, depth = 0,
           stored' = Append(stored, Written(d, v)), view' = stored',
           used' = used + 1, promised' = promised \cup {used + 1},
           UNCHANGED <<saves, depth, name, asyncDepth, tail, flow, mine, refused>>
    PROVE  TxInv'
<1> USE DEF TxInv
<1> DEFINE w == Written(d, v)
<1>1. w \in Writes /\ w.n = used + 1
  BY DEF Written, Writes, TxTyped
<1>2. Running = {} /\ saves = << >> /\ view = stored /\ Running' = {}
  BY NothingRuns DEF Grown, Running
<1> HIDE DEF w
<1>3. /\ view' = Append(view, w) /\ view' \in Seq(Writes)
      /\ Numbers(view') = Numbers(view) \cup {used + 1}
  BY <1>1, <1>2, NumbersOfAppend DEF TxTyped, w
<1>4. TxTyped'
  BY <1>3 DEF TxTyped
<1>5. Nested' /\ Stacked' /\ Separated' /\ Queued'
  BY <1>2 DEF Nested, Stacked, Separated, Queued
<1>6. Grown'
  BY <1>2, <1>4, SavesAt DEF Grown
<1>7. Counted'
  <2>1. \A n \in Numbers(view') \cup refused : n \in Nat
    BY <1>3, <1>4, NumbersAreNat DEF TxTyped
  <2>2. \A n \in Nat : n <= used => n <= used + 1
    BY DEF TxTyped
  <2>3. used + 1 <= used + 1
    BY DEF TxTyped
  <2> QED
    BY <1>3, <2>1, <2>2, <2>3 DEF Counted
<1>8. Answered'
  <2>1. used + 1 \notin refused
    BY DEF Counted, TxTyped
  <2> QED
    BY <1>2, <1>3, <2>1 DEF Answered
<1> QED
  BY <1>4, <1>5, <1>6, <1>7, <1>8

-----------------------------------------------------------------------------
LEMMA TxInitHolds == TxInit => TxInv
<1> SUFFICES ASSUME TxInit PROVE TxInv
  OBVIOUS
<1> USE DEF TxInit
<1>1. /\ << >> \in Seq(Writes) /\ << >> \in Seq([name : Nat, data : Seq(Writes)])
      /\ Len(<< >>) = 0 /\ DOMAIN << >> = {}
  BY EmptySeq
<1>2. TxTyped
  BY <1>1 DEF TxTyped, States
<1>3. Running = {} /\ Numbers(view) = {}
  BY <1>1 DEF Running, Numbers
<1>4. Nested /\ Stacked /\ Grown
  BY <1>1, <1>3 DEF Nested, Stacked, Grown
<1>5. Separated
  BY <1>3 DEF Separated
<1>6. Queued /\ Counted /\ Answered
  BY <1>3 DEF Queued, Counted, Answered
<1> QED
  BY <1>2, <1>4, <1>5, <1>6 DEF TxInv

(* A step that neither runs, ends nor writes leaves the invariant.          *)
LEMMA QueueHolds ==
    ASSUME TxInv, TxTyped', NEW f \in Flows,
           UNCHANGED <<stored, view, saves, depth, name, asyncDepth, used, mine,
                       promised, refused>>,
           flow[f] # "running", Running' = Running,
           \A g \in Flows : flow'[g] \in {"idle", "queued"} =>
                              flow[g] \in {"idle", "queued"},
           Queued',
           \A g \in Running : tail # << >> /\ Head(tail) = g =>
                              tail' # << >> /\ Head(tail') = g
    PROVE  TxInv'
<1> USE DEF TxInv
<1>1. Nested' /\ Grown' /\ Counted' /\ Answered'
  BY DEF Nested, Grown, Counted, Answered
<1>2. Stacked'
  BY DEF Stacked
<1>3. Separated'
  BY DEF Separated, SavedBy
<1> QED
  BY <1>1, <1>2, <1>3

LEMMA AppendKeepsHead ==
    ASSUME tail \in Seq(Flows), NEW x \in Flows
    PROVE  /\ Append(tail, x) \in Seq(Flows)
           /\ tail # << >> => Append(tail, x) # << >> /\ Head(Append(tail, x)) = Head(tail)
<1> DEFINE longer == Append(tail, x)
<1>1. /\ longer \in Seq(Flows) /\ longer # << >> /\ Len(tail) \in Nat
      /\ \A i \in 1..Len(tail) : longer[i] = tail[i]
  BY AppendProperties, LenProperties
<1>2. tail # << >> => 1 \in 1..Len(tail) /\ Head(tail) = tail[1]
  BY <1>1, EmptySeq, HeadTailProperties
<1>3. Head(longer) = longer[1]
  BY <1>1, HeadTailProperties
<1> HIDE DEF longer
<1> QED
  BY <1>1, <1>2, <1>3 DEF longer

LEMMA TxStepHolds == ~Parallel /\ TxInv /\ [TxNext]_txVars => TxInv'
<1> SUFFICES ASSUME ~Parallel, TxInv, [TxNext]_txVars PROVE TxInv'
  OBVIOUS
<1> USE DEF TxInv
<1>1. ASSUME NEW f \in Flows, Call(f)
      PROVE  TxInv'
  <2>1. TxTyped'
    BY <1>1 DEF Call, TxTyped, States
  <2>2. Running' = Running /\ Queued' /\ tail' = Append(tail, f)
    BY <1>1 DEF Call, Running, Queued, TxTyped
  <2>3. \A g \in Flows : flow'[g] \in {"idle", "queued"} => flow[g] \in {"idle", "queued"}
    BY <1>1 DEF Call, TxTyped
  <2>4. \A g \in Running : tail # << >> /\ Head(tail) = g =>
                           tail' # << >> /\ Head(tail') = g
    BY <2>2, AppendKeepsHead
  <2> QED
    BY <1>1, <2>1, <2>2, <2>3, <2>4, QueueHolds DEF Call
<1>2. ASSUME NEW f \in Flows, StartFails(f)
      PROVE  TxInv'
  <2>1. TxTyped'
    BY <1>2 DEF StartFails, TxTyped, States
  <2>2. Running' = {} /\ Running = {}
    <3>1. Running = {}
      BY <1>2, NothingRuns, SavesAt DEF StartFails, InTx, Nested
    <3> QED
      BY <1>2, <3>1 DEF StartFails, Running, TxTyped
  <2>3. Queued' /\ \A g \in Flows : flow'[g] \in {"idle", "queued"} => flow'[g] = flow[g]
    BY <1>2 DEF StartFails, TxTyped, Queued
  <2> QED
    BY <1>2, <2>1, <2>2, <2>3, QueueHolds DEF StartFails
<1>3. ASSUME NEW f \in Flows, Start(f)
      PROVE  TxInv'
  <2>1. depth = 0
    <3> SUFFICES ASSUME depth # 0 PROVE FALSE
      OBVIOUS
    <3>1. 0 \in 0..(depth - 1)
      BY DEF TxTyped
    <3>2. PICK g \in Running : name[g] = 0
      BY <3>1 DEF Stacked
    <3>3. Head(tail) = g
      BY <3>2 DEF Stacked
    <3> QED
      BY <1>3, <3>3 DEF Start, Running
  <2>2. Outer[f] = Top
    BY <1>3 DEF Start, Queued
  <2> QED
    BY <1>3, <2>1, <2>2, OpensOnTop DEF Start
<1>4. ASSUME NEW f \in Flows, CallWithin(f)
      PROVE  TxInv'
  <2>1. Runs(Outer[f]) /\ Outer[f] \in Flows /\ Outer[f] # Top
    BY <1>4, TransactionsAssumption DEF CallWithin
  <2>2. Outer[f] \in Running /\ name[Outer[f]] = depth - 1 /\ depth >= 1
    BY <2>1, RunsInnermost
  <2> QED
    BY <1>4, <2>1, <2>2, OpensOnTop DEF CallWithin
<1>5. ASSUME NEW f \in Flows, Commits(f)
      PROVE  TxInv'
  BY <1>5, KeepHolds DEF Commits, TxTyped
<1>6. ASSUME NEW f \in Flows, CommitFails(f)
      PROVE  TxInv'
  BY <1>6, RollbackHolds DEF CommitFails
<1>7. ASSUME NEW f \in Flows, Releases(f)
      PROVE  TxInv'
  <2>1. /\ depth \in Nat /\ depth > 1 /\ SaveOf(f) = depth
    BY <1>7, RunsInnermost, SavepointOf, SMTT(40) DEF Releases, TxTyped
  <2>2. saves' = SubSeq(saves, 1, depth - 1)
    BY <1>7, <2>1 DEF Releases
  <2>3. saves' # << >>
    <3>1. Len(saves') = depth - 1 /\ Len(saves') # 0
      BY <2>1, <2>2, Cut DEF Nested
    <3> QED
      BY <3>1, EmptySeq
  <2> QED
    BY <1>7, <2>1, <2>2, <2>3, KeepHolds DEF Releases
<1>8. ASSUME NEW f \in Flows, Throws(f)
      PROVE  TxInv'
  <2>1. Runs(f) /\ RollsBack(f, depth - 1) /\ used' = used /\ depth - 1 \in Int
    BY <1>8 DEF Throws, TxTyped
  <2> QED
    BY <2>1, RollbackHolds
<1>9. ASSUME NEW f \in Flows, NEW d \in Docs, NEW v \in Values, Write(f, d, v)
      PROVE  TxInv'
  BY <1>9, WriteInside
<1>10. ASSUME NEW d \in Docs, NEW v \in Values, PlainWrite(d, v)
       PROVE  TxInv'
  <2>1. depth = 0 /\ saves = << >> /\ view = stored
    BY <1>10, NothingRuns DEF PlainWrite, Nested, Grown
  <2> QED
    BY <1>10, <2>1, WriteOutside DEF PlainWrite, Stores, InTx
<1>11. ASSUME NEW d \in Docs, NEW v \in Values, OtherProcess(d, v)
       PROVE  TxInv'
  <2>1. depth = 0
    BY <1>11, SavesAt DEF OtherProcess, InTx, Nested
  <2> QED
    BY <1>11, <2>1, WriteOutside DEF OtherProcess
<1>12. CASE UNCHANGED txVars
  BY <1>12 DEF txVars, TxTyped, Nested, Stacked, Grown, Separated, Queued, Counted, Answered,
               Running, SavedBy
<1> QED
  BY <1>1, <1>2, <1>3, <1>4, <1>5, <1>6, <1>7, <1>8, <1>9, <1>10, <1>11, <1>12
     DEF TxNext, FlowSteps

LEMMA StoredIsRead == TxInv => Numbers(stored) \subseteq Numbers(view)
<1> SUFFICES ASSUME TxInv PROVE Numbers(stored) \subseteq Numbers(view)
  OBVIOUS
<1>1. CASE saves = << >>
  BY <1>1 DEF TxInv, Grown
<1>2. CASE saves # << >>
  <2>1. 1 \in 1..depth
    BY <1>2, SavesAt DEF TxInv, Nested
  <2> QED
    BY <1>2, <2>1 DEF TxInv, Grown
<1> QED
  BY <1>1, <1>2

LEMMA TxInvAnswers == TxInv => AllOrNothing
BY StoredIsRead DEF TxInv, Answered, AllOrNothing

(* What a caller was told is done is committed, and what it was told is     *)
(* undone is not, when callbacks await their calls in turn                  *)
(* (transactionAsync(), the driver's savepoints).                           *)
THEOREM TransactionsAreAtomic == ~Parallel => (TxSpec => []AllOrNothing)
<1> SUFFICES ASSUME ~Parallel PROVE TxSpec => []AllOrNothing
  OBVIOUS
<1>1. TxInv /\ [TxNext]_txVars => TxInv'
  BY TxStepHolds
<1> QED
  BY <1>1, TxInitHolds, TxInvAnswers, PTL DEF TxSpec

-----------------------------------------------------------------------------
(* The same in the behaviours of MCLive, each of which is one part.         *)

PP == INSTANCE PgTransactionsProofs
        WITH Overlaps <- FALSE, MaxWrites <- PgWrites, MaxRetries <- 1, MaxFaults <- 1
OO == INSTANCE PgTransactionsProofs
        WITH Overlaps <- TRUE, MaxWrites <- PgWrites, MaxRetries <- 1, MaxFaults <- 1

(* The invariant of the part that runs. *)
PartsInv ==
    /\ part.kind = "sqlite" => TxInv
    /\ part.kind = "pgtx" => PP!PgInv
    /\ part.kind = "pgoverlap" => OO!Resting /\ used \in Nat

(* What a step of the live queries does to the transactions. *)
LEMMA LiveStep ==
    ASSUME Next
    PROVE  [TxNext]_txVars
<1>1. CASE PlainWrites
  BY <1>1 DEF PlainWrites, TxNext
<1>2. CASE WritesInside
  BY <1>2 DEF WritesInside, TxNext
<1>3. CASE Committed
  BY <1>3 DEF Committed, TxNext, FlowSteps
<1>4. CASE Turns
  BY <1>4 DEF Turns, TxNext, FlowSteps
<1>5. CASE OthersWrite
  BY <1>5 DEF OthersWrite, TxNext
<1>6. CASE Poll \/ Flush \/ \E w \in Watchers : WatchReads(w) \/ WatchRegisters(w) \/ Unwatch(w)
  BY <1>6 DEF Poll, Flush, WatchReads, WatchRegisters, Unwatch
<1> QED
  BY <1>1, <1>2, <1>3, <1>4, <1>5, <1>6 DEF Next

(* The driver of the model and that of its proofs take the same steps. *)
LEMMA DrivesAlike == [P!PgTxNext]_(P!pgtxVars) => [PP!PgTxNext]_(PP!pgtxVars)
<1> SUFFICES ASSUME [P!PgTxNext]_(P!pgtxVars) PROVE [PP!PgTxNext]_(PP!pgtxVars)
  OBVIOUS
<1>1. ASSUME NEW f \in Flows
      PROVE  /\ P!Call(f) => PP!Call(f)
             /\ P!ConnectFails(f) => PP!ConnectFails(f)
             /\ P!CommitFails(f) => PP!CommitFails(f)
             /\ P!Write(f) => PP!Write(f)
             /\ P!WriteFails(f) => PP!WriteFails(f)
             /\ P!Connects(f) => PP!Connects(f)
             /\ P!Enters(f) => PP!Enters(f)
             /\ P!Commits(f) => PP!Commits(f)
             /\ P!Releases(f) => PP!Releases(f)
             /\ P!Throws(f) => PP!Throws(f)
             /\ P!RollsBack(f) => PP!RollsBack(f)
             /\ P!Succeeds(f) => PP!Succeeds(f)
             /\ P!Fails(f) => PP!Fails(f)
             /\ P!Retries(f) => PP!Retries(f)
  <2> USE DEF P!Max, PP!Max, P!Errors, PP!Errors, P!Fresh, PP!Fresh, P!Idle, PP!Idle, P!Inner,
          PP!Inner, P!Settled, PP!Settled, P!Runs, PP!Runs, P!Goes, PP!Goes, P!Catches,
          PP!Catches, P!History, PP!History, P!Begun, PP!Begun, P!Ended, PP!Ended, P!LastSave,
          PP!LastSave, P!Has, PP!Has, P!Saved, PP!Saved, P!Released, PP!Released,
          P!RolledBackTo, PP!RolledBackTo, P!Aborted, PP!Aborted, P!Stores, PP!Stores,
          P!Answers, PP!Answers, P!Again, PP!Again, P!GivesBack, PP!GivesBack, P!Puts, PP!Puts,
          P!LeavesQueue, PP!LeavesQueue, P!Nests, PP!Nests, P!Queues, PP!Queues
  <2>1. P!Call(f) => PP!Call(f)
    BY DEF P!Call, PP!Call
  <2>2. P!ConnectFails(f) => PP!ConnectFails(f)
    BY DEF P!ConnectFails, PP!ConnectFails
  <2>3. P!CommitFails(f) => PP!CommitFails(f)
    BY DEF P!CommitFails, PP!CommitFails
  <2>4. P!Write(f) => PP!Write(f)
    BY DEF P!Write, PP!Write
  <2>5. P!WriteFails(f) => PP!WriteFails(f)
    BY DEF P!WriteFails, PP!WriteFails
  <2>6. P!Connects(f) => PP!Connects(f)
    BY DEF P!Connects, PP!Connects
  <2>7. P!Enters(f) => PP!Enters(f)
    BY DEF P!Enters, PP!Enters
  <2>8. P!Commits(f) => PP!Commits(f)
    BY SMTT(40) DEF P!Commits, PP!Commits
  <2>9. P!Releases(f) => PP!Releases(f)
    BY DEF P!Releases, PP!Releases
  <2>10. P!Throws(f) => PP!Throws(f)
    BY DEF P!Throws, PP!Throws
  <2>11. P!RollsBack(f) => PP!RollsBack(f)
    BY DEF P!RollsBack, PP!RollsBack
  <2>12. P!Succeeds(f) => PP!Succeeds(f)
    BY DEF P!Succeeds, PP!Succeeds
  <2>13. P!Fails(f) => PP!Fails(f)
    BY DEF P!Fails, PP!Fails
  <2>14. P!Retries(f) => PP!Retries(f)
    BY DEF P!Retries, PP!Retries
  <2> QED
    BY <2>1, <2>2, <2>3, <2>4, <2>5, <2>6, <2>7, <2>8, <2>9, <2>10, <2>11, <2>12, <2>13, <2>14
<1>2. P!PlainWrite => PP!PlainWrite
  BY DEF P!PlainWrite, PP!PlainWrite, P!Stores, PP!Stores, P!Answers, PP!Answers
<1>3. ASSUME NEW c \in Clients PROVE P!Dies(c) => PP!Dies(c)
  BY DEF P!Dies, PP!Dies, P!Ended, PP!Ended, P!Fresh, PP!Fresh, P!History,
     PP!History
<1>4. UNCHANGED P!pgtxVars => UNCHANGED PP!pgtxVars
  BY DEF P!pgtxVars, PP!pgtxVars, P!History, PP!History
<1> QED
  BY <1>1, <1>2, <1>3, <1>4 DEF P!PgTxNext, PP!PgTxNext, P!Steps, PP!Steps

LEMMA OverlapsAlike == [O!PgTxNext]_(O!pgtxVars) => [OO!PgTxNext]_(OO!pgtxVars)
<1> SUFFICES ASSUME [O!PgTxNext]_(O!pgtxVars) PROVE [OO!PgTxNext]_(OO!pgtxVars)
  OBVIOUS
<1>1. ASSUME NEW f \in Flows
      PROVE  /\ O!Call(f) => OO!Call(f)
             /\ O!ConnectFails(f) => OO!ConnectFails(f)
             /\ O!CommitFails(f) => OO!CommitFails(f)
             /\ O!Write(f) => OO!Write(f)
             /\ O!WriteFails(f) => OO!WriteFails(f)
             /\ O!Connects(f) => OO!Connects(f)
             /\ O!Enters(f) => OO!Enters(f)
             /\ O!Commits(f) => OO!Commits(f)
             /\ O!Releases(f) => OO!Releases(f)
             /\ O!Throws(f) => OO!Throws(f)
             /\ O!RollsBack(f) => OO!RollsBack(f)
             /\ O!Succeeds(f) => OO!Succeeds(f)
             /\ O!Fails(f) => OO!Fails(f)
             /\ O!Retries(f) => OO!Retries(f)
  <2> USE DEF O!Max, OO!Max, O!Errors, OO!Errors, O!Fresh, OO!Fresh, O!Idle, OO!Idle, O!Inner,
          OO!Inner, O!Settled, OO!Settled, O!Runs, OO!Runs, O!Goes, OO!Goes, O!Catches,
          OO!Catches, O!History, OO!History, O!Begun, OO!Begun, O!Ended, OO!Ended, O!LastSave,
          OO!LastSave, O!Has, OO!Has, O!Saved, OO!Saved, O!Released, OO!Released,
          O!RolledBackTo, OO!RolledBackTo, O!Aborted, OO!Aborted, O!Stores, OO!Stores,
          O!Answers, OO!Answers, O!Again, OO!Again, O!GivesBack, OO!GivesBack, O!Puts, OO!Puts,
          O!LeavesQueue, OO!LeavesQueue, O!Nests, OO!Nests, O!Queues, OO!Queues
  <2>1. O!Call(f) => OO!Call(f)
    BY SMTT(40) DEF O!Call, OO!Call
  <2>2. O!ConnectFails(f) => OO!ConnectFails(f)
    BY DEF O!ConnectFails, OO!ConnectFails
  <2>3. O!CommitFails(f) => OO!CommitFails(f)
    BY DEF O!CommitFails, OO!CommitFails
  <2>4. O!Write(f) => OO!Write(f)
    BY DEF O!Write, OO!Write
  <2>5. O!WriteFails(f) => OO!WriteFails(f)
    BY DEF O!WriteFails, OO!WriteFails
  <2>6. O!Connects(f) => OO!Connects(f)
    BY DEF O!Connects, OO!Connects
  <2>7. O!Enters(f) => OO!Enters(f)
    BY DEF O!Enters, OO!Enters
  <2>8. O!Commits(f) => OO!Commits(f)
    BY SMTT(40) DEF O!Commits, OO!Commits
  <2>9. O!Releases(f) => OO!Releases(f)
    BY DEF O!Releases, OO!Releases
  <2>10. O!Throws(f) => OO!Throws(f)
    BY DEF O!Throws, OO!Throws
  <2>11. O!RollsBack(f) => OO!RollsBack(f)
    BY DEF O!RollsBack, OO!RollsBack
  <2>12. O!Succeeds(f) => OO!Succeeds(f)
    BY DEF O!Succeeds, OO!Succeeds
  <2>13. O!Fails(f) => OO!Fails(f)
    BY DEF O!Fails, OO!Fails
  <2>14. O!Retries(f) => OO!Retries(f)
    BY DEF O!Retries, OO!Retries
  <2> QED
    BY <2>1, <2>2, <2>3, <2>4, <2>5, <2>6, <2>7, <2>8, <2>9, <2>10, <2>11, <2>12, <2>13, <2>14
<1>2. O!PlainWrite => OO!PlainWrite
  BY DEF O!PlainWrite, OO!PlainWrite, O!Stores, OO!Stores, O!Answers, OO!Answers
<1>3. ASSUME NEW c \in Clients PROVE O!Dies(c) => OO!Dies(c)
  BY DEF O!Dies, OO!Dies, O!Ended, OO!Ended, O!Fresh, OO!Fresh, O!History,
     OO!History
<1>4. UNCHANGED O!pgtxVars => UNCHANGED OO!pgtxVars
  BY DEF O!pgtxVars, OO!pgtxVars, O!History, OO!History
<1> QED
  BY <1>1, <1>2, <1>3, <1>4 DEF O!PgTxNext, OO!PgTxNext, O!Steps, OO!Steps

LEMMA PartsInit == MCInit => PartsInv
<1> SUFFICES ASSUME MCInit PROVE PartsInv
  OBVIOUS
<1>1. CASE Init /\ part \in Parts
  <2>1. part.kind = "sqlite"
    BY <1>1 DEF Parts
  <2> QED
    BY <1>1, <2>1, TxInitHolds DEF Init, PartsInv
<1>2. CASE part = [kind |-> "channels"]
  BY <1>2 DEF PartsInv
<1>3. CASE part \in [kind : {"pgtx", "pgoverlap"}] /\ P!PgTxInit
  <2>1. PP!PgTxAssumption /\ OO!PgTxAssumption
    <3>1. P!PgTxAssumption /\ O!PgTxAssumption
      BY FlowsAndClients
    <3> QED
      BY <3>1 DEF P!PgTxAssumption, O!PgTxAssumption, PP!PgTxAssumption,
         OO!PgTxAssumption, P!IsFiniteSet, O!IsFiniteSet, PP!IsFiniteSet, OO!IsFiniteSet
  <2>2. PP!PgTxInit /\ OO!PgTxInit /\ used = 0
    BY <1>3 DEF P!PgTxInit, PP!PgTxInit, OO!PgTxInit, P!Fresh, PP!Fresh, OO!Fresh,
       P!Idle, PP!Idle, OO!Idle
  <2>3. PP!PgInv /\ OO!Resting
    BY <2>1, <2>2, PP!PgInvInit, OO!RestingInit
  <2>4. part.kind # "sqlite"
    BY <1>3
  <2> QED
    BY <2>2, <2>3, <2>4 DEF PartsInv
<1> QED
  BY <1>1, <1>2, <1>3 DEF MCInit

LEMMA PartsStep == ~Parallel /\ PartsInv /\ [MCNext]_mcVars => PartsInv'
<1> SUFFICES ASSUME ~Parallel, PartsInv, [MCNext]_mcVars PROVE PartsInv'
  OBVIOUS
<1>1. part' = part
  BY DEF MCNext, mcVars
<1>2. CASE part.kind = "sqlite"
  <2>1. [TxNext]_txVars
    BY <1>2, LiveStep DEF MCNext, mcVars, vars
  <2> QED
    BY <1>1, <1>2, <2>1, TxStepHolds DEF PartsInv
<1>3. CASE part.kind = "pgtx"
  <2>1. [P!PgTxNext]_(P!pgtxVars)
    BY <1>3 DEF MCNext, mcVars, vars, txVars, P!pgtxVars
  <2>2. [PP!PgTxNext]_(PP!pgtxVars)
    BY <2>1, DrivesAlike
  <2> QED
    BY <1>1, <1>3, <2>2, PP!PgInvStep DEF PartsInv
<1>4. CASE part.kind = "pgoverlap"
  <2>1. [O!PgTxNext]_(O!pgtxVars)
    BY <1>4 DEF MCNext, mcVars, vars, txVars, O!pgtxVars
  <2>2. [OO!PgTxNext]_(OO!pgtxVars)
    BY <2>1, OverlapsAlike
  <2> QED
    BY <1>1, <1>4, <2>2, OO!RestingStep DEF PartsInv
<1> QED
  BY <1>1, <1>2, <1>3, <1>4 DEF PartsInv

LEMMA PartsAnswer == PartsInv => AllOrNothingHolds
<1> SUFFICES ASSUME PartsInv PROVE AllOrNothingHolds
  OBVIOUS
<1>1. part.kind = "sqlite" => AllOrNothing
  BY TxInvAnswers DEF PartsInv
<1>2. CASE part.kind = "pgtx"
  <2>1. PP!Durable /\ PP!Resting
    BY <1>2 DEF PartsInv, PP!PgInv, PP!PgData
  <2>2. PP!ComesToRest
    BY <2>1, PP!RestingRests
  <2> QED
    BY <1>2, <2>1, <2>2 DEF AllOrNothingHolds, P!PgAllOrNothing, P!ComesToRest, PP!ComesToRest,
       PP!Durable, PP!PgAllOrNothing, P!Fresh, PP!Fresh, P!Settled, PP!Settled
<1>3. CASE part.kind = "pgoverlap"
  <2>1. OO!ComesToRest
    BY <1>3, OO!RestingRests DEF PartsInv
  <2> QED
    BY <1>3, <2>1 DEF AllOrNothingHolds, O!ComesToRest, OO!ComesToRest, P!ComesToRest,
       P!Fresh, OO!Fresh, P!Settled, OO!Settled
<1> QED
  BY <1>1, <1>2, <1>3 DEF AllOrNothingHolds, OnPg

(* On both engines every caller of transactionAsync() learns what became of *)
(* its writes, and the Postgres driver comes to rest, also where calls of   *)
(* several parts of the program overlap.                                    *)
THEOREM CallersLearnTheOutcome == ~Parallel => (MCSpec => []AllOrNothingHolds)
<1> SUFFICES ASSUME ~Parallel PROVE MCSpec => []AllOrNothingHolds
  OBVIOUS
<1>1. PartsInv /\ [MCNext]_mcVars => PartsInv'
  BY PartsStep
<1> QED
  BY <1>1, PartsInit, PartsAnswer, PTL DEF MCSpec

-----------------------------------------------------------------------------
(* What a query finds.                                                      *)

LEMMA LeastOne ==
    ASSUME NEW S, S \subseteq Nat, S # {}
    PROVE  Min(S) \in S
<1>1. PICK m \in S : \A x \in S : ~(<<x, m>> \in OpToRel(<, Nat))
  BY NatLessThanWellFounded, WFMin
<1>2. \A x \in S : ~(x < m)
  BY <1>1 DEF OpToRel
<1>3. \A x \in S : m <= x
  BY <1>2
<1> QED
  BY <1>3 DEF Min

LEMMA GreatestOne ==
    ASSUME NEW S, NEW b \in Nat, S \subseteq 0..b, S # {}
    PROVE  Max(S) \in S /\ \A x \in S : x <= Max(S)
<1> DEFINE T == {b - x : x \in S}
<1>1. T \subseteq Nat /\ T # {}
  <2>1. \A x \in S : b - x \in Nat
    OBVIOUS
  <2> QED
    BY <2>1
<1>2. PICK t \in T : \A u \in T : ~(<<u, t>> \in OpToRel(<, Nat))
  BY <1>1, NatLessThanWellFounded, WFMin
<1>3. PICK m \in S : t = b - m
  OBVIOUS
<1>4. \A x \in S : m >= x
  <2> TAKE x \in S
  <2>1. b - x \in T
    OBVIOUS
  <2>2. ~(b - x < t)
    BY <1>1, <1>2, <2>1 DEF OpToRel
  <2>3. b \in Nat /\ x \in Nat /\ m \in Nat
    OBVIOUS
  <2> HIDE DEF T
  <2> QED
    BY <1>3, <2>2, <2>3
<1> QED
  BY <1>4 DEF Max

Orders(R, S) ==
    /\ \A x \in S : <<x, x>> \notin R
    /\ \A x, y \in S : x # y => <<x, y>> \in R \/ <<y, x>> \in R
    /\ \A x, y, z \in S : <<x, y>> \in R /\ <<y, z>> \in R => <<x, z>> \in R

(* How many elements of S are before e. *)
Rank(R, S, e) == Cardinality({x \in S : <<x, e>> \in R})

Ranks(R, S) ==
    \A k \in 0..(Cardinality(S) - 1) : \E e \in S : Rank(R, S, e) = k

LEMMA RanksRise ==
    ASSUME NEW S, IsFiniteSet(S), NEW R, Orders(R, S)
    PROVE  /\ \A e \in S : Rank(R, S, e) \in 0..(Cardinality(S) - 1)
           /\ \A x, y \in S : <<x, y>> \in R => Rank(R, S, x) < Rank(R, S, y)
           /\ \A x, y \in S : Rank(R, S, x) = Rank(R, S, y) => x = y
<1>0. /\ \A x \in S : <<x, x>> \notin R
      /\ \A x, y \in S : x # y => <<x, y>> \in R \/ <<y, x>> \in R
      /\ \A x, y, z \in S : <<x, y>> \in R /\ <<y, z>> \in R => <<x, z>> \in R
  BY DEF Orders
<1> DEFINE Below(e) == {x \in S : <<x, e>> \in R}
<1>1. Cardinality(S) \in Nat
  BY FS_CardinalityType
<1>2. ASSUME NEW e \in S
      PROVE  /\ IsFiniteSet(Below(e)) /\ Cardinality(Below(e)) \in Nat
             /\ Cardinality(Below(e)) \in 0..(Cardinality(S) - 1)
  <2>1. IsFiniteSet(S \ {e}) /\ Cardinality(S \ {e}) = Cardinality(S) - 1
    BY FS_RemoveElement
  <2>2. Below(e) \in SUBSET (S \ {e})
    BY <1>0
  <2> HIDE DEF Below
  <2>3. IsFiniteSet(Below(e)) /\ Cardinality(Below(e)) <= Cardinality(S \ {e})
    BY <2>1, <2>2, FS_Subset
  <2>4. Cardinality(Below(e)) \in Nat
    BY <2>3, FS_CardinalityType
  <2> QED
    BY <1>1, <2>1, <2>3, <2>4
<1>3. ASSUME NEW x \in S, NEW y \in S, <<x, y>> \in R
      PROVE  Cardinality(Below(x)) < Cardinality(Below(y))
  <2>1. Below(x) \cup {x} \in SUBSET Below(y) /\ x \notin Below(x)
    BY <1>0, <1>3
  <2> HIDE DEF Below
  <2>2. /\ Cardinality(Below(x) \cup {x}) = Cardinality(Below(x)) + 1
        /\ Cardinality(Below(x) \cup {x}) <= Cardinality(Below(y))
    BY <1>2, <2>1, FS_AddElement, FS_Subset
  <2> QED
    BY <1>2, <2>2
<1>4. \A e \in S : Rank(R, S, e) = Cardinality(Below(e))
  BY DEF Rank
<1> HIDE DEF Below
<1>5. \A x, y \in S : Rank(R, S, x) = Rank(R, S, y) => x = y
  <2> TAKE x, y \in S
  <2>1. CASE <<x, y>> \in R
    BY <1>2, <1>3, <1>4, <2>1
  <2>2. CASE <<y, x>> \in R
    BY <1>2, <1>3, <1>4, <2>2
  <2> QED
    BY <1>0, <2>1, <2>2
<1> QED
  BY <1>2, <1>3, <1>4, <1>5

(* In a finite set ordered by R, every number below its size is the number  *)
(* of elements before one of them.                                          *)
LEMMA RanksTaken ==
    ASSUME NEW S, IsFiniteSet(S), NEW R, Orders(R, S)
    PROVE  Ranks(R, S)
<1> SUFFICES ASSUME NEW k \in 0..(Cardinality(S) - 1)
             PROVE  \E e \in S : Rank(R, S, e) = k
  BY DEF Ranks
<1> DEFINE Places == 0..(Cardinality(S) - 1)
           rank == [e \in S |-> Rank(R, S, e)]
<1>1. Cardinality(S) \in Nat
  BY FS_CardinalityType
<1>2. rank \in [S -> Places] /\ \A x, y \in S : rank[x] = rank[y] => x = y
  BY RanksRise
<1>3. IsFiniteSet(Places) /\ Cardinality(Places) = Cardinality(S)
  BY <1>1, FS_Interval
<1> HIDE DEF rank, Places
<1>4. rank \in Injection(S, Places)
  BY <1>2 DEF Injection, IsInjective
<1>5. rank \in Surjection(S, Places)
  BY <1>3, <1>4, FS_Injection
<1>6. PICK e \in S : rank[e] = k
  BY <1>5 DEF Surjection, Places
<1> QED
  BY <1>6 DEF rank

LEMMA FoundAre ==
    ASSUME NEW data \in Seq(Writes), NEW d, Matches(data, d)
    PROVE  /\ Entry(data, d).id = d /\ Entry(data, d).n \in Numbers(data)
           /\ Entry(data, d).v.a \in Int
           /\ \E i \in DOMAIN data : /\ data[i].doc = d
                                     /\ Entry(data, d) = [id |-> d, n |-> data[i].n, v |-> data[i].v]
           /\ Created(data, d) \in DOMAIN data /\ data[Created(data, d)].doc = d
<1> DEFINE S == {0} \cup {i \in DOMAIN data : data[i].doc = d}
           G == {0} \cup {i \in DOMAIN data : data[i].doc = d /\ data[i].v = Gone}
           C == {i \in DOMAIN data : i > Max(G) /\ data[i].doc = d}
<1>1. DOMAIN data = 1..Len(data) /\ Len(data) \in Nat
  BY LenProperties
<1>2. Max(S) \in S /\ \A x \in S : x <= Max(S)
  <2>1. S \subseteq 0..Len(data) /\ S # {}
    BY <1>1
  <2> HIDE DEF S
  <2> QED
    BY <1>1, <2>1, GreatestOne
<1>3. Max(G) \in G
  <2>1. G \subseteq 0..Len(data) /\ G # {}
    BY <1>1
  <2> HIDE DEF G
  <2> QED
    BY <1>1, <2>1, GreatestOne
<1>4. LastWrite(data, d) = Max(S) /\ Created(data, d) = Min(C)
  BY DEF LastWrite, Created
<1>5. Max(S) # 0 /\ data[Max(S)].v # Gone
  BY <1>4 DEF Matches
<1>6. Max(S) \in DOMAIN data /\ data[Max(S)].doc = d
  BY <1>2, <1>5
<1>7. data[Max(S)].v \in Values \ {Gone}
  <2>1. data[Max(S)] \in Writes
    BY <1>1, <1>6, ElementOfSeq
  <2> QED
    BY <1>5, <2>1 DEF Writes
<1>8. Max(S) \in C
  <2>1. Max(G) \in S /\ Max(G) # Max(S) /\ Max(G) <= Max(S)
    BY <1>2, <1>3, <1>5
  <2>2. Max(G) \in Nat /\ Max(S) \in Nat
    BY <1>1, <1>2, <1>3
  <2> HIDE DEF S, G
  <2> QED
    BY <1>6, <2>1, <2>2
<1>9. Min(C) \in C
  <2>1. C \subseteq DOMAIN data /\ C # {}
    BY <1>8
  <2>2. C \subseteq Nat
    BY <1>1, <2>1
  <2> HIDE DEF C
  <2> QED
    BY <2>1, <2>2, LeastOne
<1>10. Created(data, d) \in DOMAIN data /\ data[Created(data, d)].doc = d
  BY <1>4, <1>9
<1> HIDE DEF S, G, C
<1>11. Entry(data, d) = [id |-> d, n |-> data[Max(S)].n, v |-> data[Max(S)].v]
  BY <1>4 DEF Entry
<1>12. Entry(data, d).n \in Numbers(data) /\ Entry(data, d).v.a \in Int
  BY <1>6, <1>7, <1>11, WatchAssumption DEF Numbers
<1> QED
  BY <1>6, <1>10, <1>11, <1>12

LEMMA FoundIsFinite ==
    ASSUME NEW data \in Seq(Writes)
    PROVE  IsFiniteSet(Found(data))
<1> DEFINE E == {[id |-> data[i].doc, n |-> data[i].n, v |-> data[i].v] : i \in 1..Len(data)}
           f == [i \in 1..Len(data) |-> [id |-> data[i].doc, n |-> data[i].n, v |-> data[i].v]]
<1>1. DOMAIN data = 1..Len(data) /\ Len(data) \in Nat
  BY LenProperties
<1>2. f \in Surjection(1..Len(data), E)
  BY DEF Surjection
<1>3. Found(data) \in SUBSET E
  BY <1>1, FoundAre DEF Found
<1> HIDE DEF E, f
<1>4. IsFiniteSet(1..Len(data))
  BY <1>1, FS_Interval
<1>5. IsFiniteSet(E)
  BY <1>2, <1>4, FS_Surjection
<1> QED
  BY <1>3, <1>5, FS_Subset

(* What is found is in the order of the query. *)
OrderOf(w, data) ==
    {q \in Found(data) \X Found(data) : Before(w, data, q[1], q[2])}

LEMMA FoundOrdered ==
    ASSUME NEW data \in Seq(Writes), NEW w \in Watchers
    PROVE  /\ Orders(OrderOf(w, data), Found(data))
           /\ \A x, y \in Found(data) :
                 <<x, y>> \in OrderOf(w, data) <=> Before(w, data, x, y)
<1> DEFINE S == Found(data)
           R == OrderOf(w, data)
<1>1. \A x, y \in S : <<x, y>> \in R <=> Before(w, data, x, y)
  BY DEF OrderOf
<1>2. \A x \in S : /\ x.v.a \in Int /\ Created(data, x.id) \in Int
                   /\ \E d \in Docs : Matches(data, d) /\ x = Entry(data, d)
  <2> TAKE x \in S
  <2>1. PICK d \in Docs : Matches(data, d) /\ x = Entry(data, d)
    BY DEF Found
  <2>2. Created(data, d) \in Int
    BY <2>1, FoundAre, LenProperties
  <2> QED
    BY <2>1, <2>2, FoundAre
<1>3. \A x, y \in S : Created(data, x.id) = Created(data, y.id) => x = y
  <2> TAKE x, y \in S
  <2>1. PICK d \in Docs : Matches(data, d) /\ x = Entry(data, d)
    BY <1>2
  <2>2. PICK e \in Docs : Matches(data, e) /\ y = Entry(data, e)
    BY <1>2
  <2>3. x.id = d /\ y.id = e /\ data[Created(data, d)].doc = d /\ data[Created(data, e)].doc = e
    BY <2>1, <2>2, FoundAre
  <2> QED
    BY <2>1, <2>2, <2>3
<1> HIDE DEF S, R
<1>4. \A x \in S : <<x, x>> \notin R
  BY <1>1, <1>2 DEF Before
<1>5. \A x, y \in S : x # y => <<x, y>> \in R \/ <<y, x>> \in R
  <2> TAKE x, y \in S
  <2> HAVE x # y
  <2>1. Created(data, x.id) # Created(data, y.id)
    BY <1>3
  <2>2. Before(w, data, x, y) \/ Before(w, data, y, x)
    BY <1>2, <2>1 DEF Before
  <2> QED
    BY <1>1, <2>2
<1>6. \A x, y, z \in S : <<x, y>> \in R /\ <<y, z>> \in R => <<x, z>> \in R
  BY <1>1, <1>2 DEF Before
<1> QED
  BY <1>1, <1>4, <1>5, <1>6 DEF Orders, S, R

(* The last place of a query's page. *)
LastOf(w, data) == Min({Cardinality(Found(data)), Args[w].skip + Args[w].take})

LEMMA LastOfPage ==
    ASSUME NEW data \in Seq(Writes), NEW w \in Watchers
    PROVE  /\ LastOf(w, data) \in Nat /\ LastOf(w, data) <= Cardinality(Found(data))
           /\ LastOf(w, data) <= Args[w].skip + Args[w].take
           /\ \/ LastOf(w, data) = Cardinality(Found(data))
              \/ LastOf(w, data) = Args[w].skip + Args[w].take
<1> DEFINE n == Cardinality(Found(data))
           m == Args[w].skip + Args[w].take
<1>1. n \in Nat /\ m \in Nat
  BY FoundIsFinite, FS_CardinalityType, WatchAssumption
<1>2. LastOf(w, data) = Min({n, m})
  BY DEF LastOf
<1> HIDE DEF n, m
<1>3. \E x \in {n, m} : \A y \in {n, m} : x <= y
  BY <1>1
<1>4. Min({n, m}) \in {n, m} /\ \A y \in {n, m} : Min({n, m}) <= y
  BY <1>3 DEF Min
<1>5. /\ Min({n, m}) \in Nat /\ Min({n, m}) <= n /\ Min({n, m}) <= m
      /\ Min({n, m}) = n \/ Min({n, m}) = m
  BY <1>1, <1>4
<1> QED
  BY <1>2, <1>5 DEF n, m

(* The i-th of a page has as many before it as the query skips, and i - 1.  *)
LEMMA FindRanks ==
    ASSUME NEW data \in Seq(Writes), NEW w \in Watchers
    PROVE  /\ DOMAIN Find(w, data) = 1..(LastOf(w, data) - Args[w].skip)
           /\ \A i \in DOMAIN Find(w, data) :
                /\ Find(w, data)[i] \in Found(data)
                /\ Rank(OrderOf(w, data), Found(data), Find(w, data)[i])
                      = Args[w].skip + i - 1
<1> DEFINE S == Found(data)
           R == OrderOf(w, data)
           skip == Args[w].skip
           last == LastOf(w, data)
<1>1. Find(w, data) = [j \in 1..(last - skip) |->
          CHOOSE e \in S : Cardinality({x \in S : Before(w, data, x, e)}) = skip + j - 1]
  BY DEF Find, LastOf
<1>2. IsFiniteSet(S) /\ Cardinality(S) \in Nat /\ last \in Nat /\ last <= Cardinality(S)
      /\ skip \in Nat
  BY FoundIsFinite, FS_CardinalityType, LastOfPage, WatchAssumption
<1>3. Orders(R, S) /\ \A x, y \in S : <<x, y>> \in R <=> Before(w, data, x, y)
  BY FoundOrdered
<1> HIDE DEF S, R, skip, last
<1>4. Ranks(R, S)
  BY <1>2, <1>3, RanksTaken
<1>5. \A e \in S : Rank(R, S, e) = Cardinality({x \in S : Before(w, data, x, e)})
  <2> TAKE e \in S
  <2>1. {x \in S : <<x, e>> \in R} = {x \in S : Before(w, data, x, e)}
    BY <1>3
  <2> QED
    BY <2>1 DEF Rank
<1>6. DOMAIN Find(w, data) = 1..(last - skip)
  BY <1>1
<1>7. ASSUME NEW i \in 1..(last - skip)
      PROVE  Find(w, data)[i] \in S /\ Rank(R, S, Find(w, data)[i]) = skip + i - 1
  <2>1. skip + i - 1 \in 0..(Cardinality(S) - 1)
    BY <1>2
  <2>2. \E e \in S : Cardinality({x \in S : Before(w, data, x, e)}) = skip + i - 1
    BY <1>4, <1>5, <2>1 DEF Ranks
  <2> DEFINE e == CHOOSE e \in S : Cardinality({x \in S : Before(w, data, x, e)}) = skip + i - 1
  <2>3. e \in S /\ Cardinality({x \in S : Before(w, data, x, e)}) = skip + i - 1
    BY <2>2
  <2>4. Find(w, data)[i] = e
    BY <1>1
  <2> HIDE DEF e
  <2> QED
    BY <1>5, <2>3, <2>4
<1> QED
  BY <1>6, <1>7 DEF S, R, skip, last

LEMMA FindsFound ==
    ASSUME NEW data \in Seq(Writes), NEW w \in Watchers, NEW i \in DOMAIN Find(w, data)
    PROVE  Find(w, data)[i] \in Found(data)
BY FindRanks

(* A query finds what the connection reads. *)
LEMMA FindsWhatIsRead ==
    ASSUME NEW data \in Seq(Writes), NEW w \in Watchers
    PROVE  \A i \in DOMAIN Find(w, data) : Find(w, data)[i].n \in Numbers(data)
<1> TAKE i \in DOMAIN Find(w, data)
<1>1. PICK d \in Docs : Matches(data, d) /\ Find(w, data)[i] = Entry(data, d)
  BY FindsFound DEF Found
<1> QED
  BY <1>1, FoundAre
-----------------------------------------------------------------------------
(* What the watchers hold.                                                  *)

Entries == [id : Docs, n : Nat, v : Values]

LEMMA FindTyped ==
    ASSUME NEW data \in Seq(Writes), NEW w \in Watchers
    PROVE  Find(w, data) \in Seq(Entries)
<1> DEFINE k == LastOf(w, data) - Args[w].skip
           page == [i \in 1..k |-> CHOOSE e \in Found(data) :
              Cardinality({x \in Found(data) : Before(w, data, x, e)}) = Args[w].skip + i - 1]
<1>1. Find(w, data) = page
  BY DEF Find, LastOf
<1>2. k \in Int
  BY LastOfPage, WatchAssumption
<1> HIDE DEF k
<1>3. DOMAIN Find(w, data) = 1..k
  BY <1>1
<1>4. \A i \in 1..k : Find(w, data)[i] \in Entries
  <2> TAKE i \in 1..k
  <2>1. PICK d \in Docs : Matches(data, d) /\ Find(w, data)[i] = Entry(data, d)
    BY <1>3, FindsFound DEF Found
  <2>2. PICK j \in DOMAIN data :
           Entry(data, d) = [id |-> d, n |-> data[j].n, v |-> data[j].v]
    BY <2>1, FoundAre
  <2>3. data[j] \in Writes
    BY <2>2, LenProperties, ElementOfSeq
  <2> QED
    BY <2>1, <2>2, <2>3 DEF Entries, Writes
<1>5. Find(w, data) \in [1..k -> Entries]
  <2>1. Find(w, data) = [i \in 1..k |-> Find(w, data)[i]]
    BY <1>1
  <2> QED
    BY <1>4, <2>1
<1>6. \E n \in Nat : 1..k = 1..n
  <2>1. CASE k >= 0
    BY <1>2, <2>1
  <2>2. CASE k < 0
    <3>1. 1..k = 1..0
      BY <1>2, <2>2
    <3> QED
      BY <3>1
  <2> QED
    BY <1>2, <2>1, <2>2
<1>7. PICK n \in Nat : 1..k = 1..n
  BY <1>6
<1>8. Find(w, data) \in [1..n -> Entries]
  BY <1>5, <1>7
<1> QED
  BY <1>8, SeqDef

(* What is committed stays, in the writes' numbers. *)
LEMMA StoredGrows ==
    ASSUME ~Parallel, TxInv, [TxNext]_txVars
    PROVE  Numbers(stored) \subseteq Numbers(stored')
<1>1. stored \in Seq(Writes) /\ used \in Nat /\ depth \in Nat
  BY DEF TxInv, TxTyped
<1>2. ASSUME NEW d \in Docs, NEW v \in Values, stored' \in {stored, Append(stored, Written(d, v))}
      PROVE  Numbers(stored) \subseteq Numbers(stored')
  <2>1. Written(d, v) \in Writes
    BY <1>1 DEF Written, Writes
  <2> QED
    BY <1>1, <1>2, <2>1, NumbersOfAppend
<1>3. ASSUME NEW f \in Flows, Commits(f)
      PROVE  Numbers(stored) \subseteq Numbers(stored')
  BY <1>3, StoredIsRead DEF Commits
<1>4. ASSUME NEW f \in Flows, Releases(f)
      PROVE  Numbers(stored) \subseteq Numbers(stored')
  BY <1>4, StoredIsRead DEF Releases, RollsBack
<1>5. ASSUME NEW f \in Flows,
             Call(f) \/ Start(f) \/ StartFails(f) \/ CallWithin(f) \/ CommitFails(f) \/ Throws(f)
      PROVE  stored' = stored
  BY <1>5 DEF Call, Start, StartFails, CallWithin, CommitFails, Throws, RollsBack
<1>6. ASSUME NEW f \in Flows, NEW d \in Docs, NEW v \in Values, Write(f, d, v)
      PROVE  stored' \in {stored, Append(stored, Written(d, v))}
  BY <1>6 DEF Write, Stores
<1>7. ASSUME NEW d \in Docs, NEW v \in Values, PlainWrite(d, v) \/ OtherProcess(d, v)
      PROVE  stored' \in {stored, Append(stored, Written(d, v))}
  BY <1>7 DEF PlainWrite, OtherProcess, Stores
<1>8. CASE UNCHANGED txVars
  BY <1>8 DEF txVars
<1> QED
  BY <1>2, <1>3, <1>4, <1>5, <1>6, <1>7, <1>8 DEF TxNext, FlowSteps

Queries == [state : {"off", "opening", "on"}, full : Seq(Entries)]

(* What the watchers hold has been committed, and a flush that is scheduled *)
(* reads nothing else: nothing that awaits runs before it.                  *)
WatchInv ==
    /\ TxInv
    /\ query \in [Watchers -> Queries]
    /\ dirty \/ /\ \A w \in Watchers : \A i \in DOMAIN query[w].full :
                       query[w].full[i].n \in Numbers(stored)
                /\ pending # {} => view = stored

LEMMA ReadsCommitted ==
    ASSUME TxInv, ~Uncommitted
    PROVE  view = stored
BY DEF TxInv, Grown, Uncommitted, InTx

LEMMA WatchInit == Init => WatchInv
<1> SUFFICES ASSUME Init PROVE WatchInv
  OBVIOUS
<1>1. TxInv
  BY TxInitHolds DEF Init
<1>2. << >> \in Seq(Entries) /\ DOMAIN << >> = {}
  <2>1. << >> \in Seq(Entries) /\ Len(<< >>) = 0
    BY EmptySeq
  <2> QED
    BY <2>1, LenProperties
<1>3. query = [w \in Watchers |-> [state |-> "off", full |-> << >>]] /\ pending = {}
  BY DEF Init, LiveInit
<1> QED
  BY <1>1, <1>2, <1>3 DEF WatchInv, Queries

LEMMA WatchStep ==
    ASSUME ~Parallel, WatchInv, [Next]_vars
    PROVE  WatchInv'
<1> USE DEF WatchInv
<1>1. [TxNext]_txVars
  BY LiveStep DEF vars
<1>2. TxInv' /\ Numbers(stored) \subseteq Numbers(stored')
  BY <1>1, TxStepHolds, StoredGrows
<1>3. view \in Seq(Writes)
  BY DEF TxInv, TxTyped
<1>4. ASSUME query' = query, dirty' = dirty, dirty \/ (pending' # {} => view' = stored')
      PROVE  WatchInv'
  BY <1>2, <1>4
<1>5. CASE PlainWrites
  <2>1. PICK d \in Docs, v \in Values : PlainWrite(d, v)
    BY <1>5 DEF PlainWrites
  <2>2. saves' = << >>
    BY <2>1, NothingRuns DEF PlainWrite, TxInv, Nested
  <2> QED
    BY <1>2, <1>4, <1>5, <2>2 DEF PlainWrites, OnlyNotified, TxInv, Grown
<1>6. CASE WritesInside \/ Turns
  BY <1>4, <1>6 DEF WritesInside, Turns, Quiet, Silent, liveVars
<1>7. CASE Committed
  <2>1. view' = stored'
    BY <1>7 DEF Committed, Commits
  <2> QED
    BY <1>4, <1>7, <2>1 DEF Committed, OnlyNotified
<1>8. CASE OthersWrite
  <2>1. view' = stored'
    BY <1>8 DEF OthersWrite, OtherProcess
  <2> QED
    BY <1>4, <1>8, <2>1 DEF OthersWrite
<1>9. CASE Poll
  <2>1. query' = query /\ dirty' = (dirty \/ Uncommitted) /\ UNCHANGED <<view, stored>>
    BY <1>9 DEF Poll, txVars
  <2> QED
    BY <1>2, <2>1, ReadsCommitted
<1>10. CASE Flush
  <2>1. /\ pending # {} /\ pending' = {} /\ UNCHANGED <<view, stored, dirty>>
        /\ \A w \in Watchers : query'[w] \in {query[w], [query[w] EXCEPT !.full = Find(w, view)]}
    BY <1>10 DEF Flush, txVars
  <2>2. query' \in [Watchers -> Queries]
    <3>1. \A w \in Watchers : query'[w] \in Queries
      BY <1>3, <2>1, FindTyped DEF Queries
    <3>2. query' = [w \in Watchers |-> query'[w]]
      BY <1>10 DEF Flush
    <3> QED
      BY <3>1, <3>2
  <2>3. \A w \in Watchers : query'[w].full \in {query[w].full, Find(w, view)}
    BY <2>1 DEF Queries
  <2>4. dirty \/ \A w \in Watchers : \A i \in DOMAIN query'[w].full :
                     query'[w].full[i].n \in Numbers(stored)
    <3> SUFFICES ASSUME ~dirty, NEW w \in Watchers
                 PROVE  \A i \in DOMAIN query'[w].full : query'[w].full[i].n \in Numbers(stored)
      OBVIOUS
    <3>1. view = stored
      BY <2>1
    <3>2. CASE query'[w].full = query[w].full
      BY <3>2
    <3>3. CASE query'[w].full = Find(w, view)
      BY <1>3, <3>1, <3>3, FindsWhatIsRead
    <3> QED
      BY <2>3, <3>2, <3>3
  <2> QED
    BY <1>2, <2>1, <2>2, <2>4
<1>11. ASSUME NEW w \in Watchers, WatchReads(w)
       PROVE  WatchInv'
  <2>1. /\ query' = [query EXCEPT ![w] = [state |-> "opening", full |-> Find(w, view)]]
        /\ dirty' = (dirty \/ Uncommitted) /\ UNCHANGED <<view, stored, pending>>
    BY <1>11 DEF WatchReads, txVars
  <2>2. query' \in [Watchers -> Queries]
    BY <1>3, <2>1, FindTyped DEF Queries
  <2>3. ASSUME ~dirty' PROVE ~dirty /\ view = stored
    BY <2>1, <2>3, ReadsCommitted
  <2>4. ASSUME ~dirty', NEW u \in Watchers
        PROVE  \A i \in DOMAIN query'[u].full : query'[u].full[i].n \in Numbers(stored)
    <3>1. CASE u = w
      <4>1. query'[u].full = Find(w, view)
        BY <2>1, <3>1
      <4> QED
        BY <1>3, <2>3, <2>4, <4>1, FindsWhatIsRead
    <3>2. CASE u # w
      BY <2>1, <2>3, <2>4, <3>2
    <3> QED
      BY <3>1, <3>2
  <2> QED
    BY <1>2, <2>1, <2>2, <2>3, <2>4
<1>12. ASSUME NEW w \in Watchers, WatchRegisters(w) \/ Unwatch(w)
       PROVE  WatchInv'
  <2>1. /\ UNCHANGED <<view, stored, pending, dirty>>
        /\ \E s \in {"on", "off"} : query' = [query EXCEPT ![w].state = s]
    BY <1>12 DEF WatchRegisters, Unwatch, txVars
  <2>2. /\ query' \in [Watchers -> Queries]
        /\ \A u \in Watchers : query'[u].full = query[u].full
    BY <2>1 DEF Queries
  <2> QED
    BY <1>2, <2>1, <2>2
<1>13. CASE UNCHANGED vars
  <2>1. UNCHANGED <<view, stored, pending, query, dirty>>
    BY <1>13 DEF vars, txVars, liveVars
  <2> QED
    BY <1>4, <2>1
<1> QED
  BY <1>5, <1>6, <1>7, <1>8, <1>9, <1>10, <1>11, <1>12, <1>13 DEF Next

(* A watcher is told of committed documents only, also while transactions   *)
(* are open (Reactor, notifyReactor() after the commit) - unless it, or the *)
(* poll of the feed, has read while one had written.                        *)
THEOREM WatchersSeeCommitted == ~Parallel => (MCSpec => []SeesOnlyCommitted)
<1> SUFFICES ASSUME ~Parallel PROVE MCSpec => []SeesOnlyCommitted
  OBVIOUS
<1> DEFINE Inv == part.kind = "sqlite" => WatchInv
<1>1. MCInit => Inv
  <2> SUFFICES ASSUME MCInit, part.kind = "sqlite" PROVE WatchInv
    OBVIOUS
  <2>1. Init
    BY DEF MCInit, Parts
  <2> QED
    BY <2>1, WatchInit
<1>2. Inv /\ [MCNext]_mcVars => Inv'
  <2> SUFFICES ASSUME Inv, [MCNext]_mcVars, part'.kind = "sqlite" PROVE WatchInv'
    OBVIOUS
  <2>1. part' = part
    BY DEF MCNext, mcVars
  <2>2. [Next]_vars /\ WatchInv
    BY <2>1 DEF MCNext, mcVars
  <2> QED
    BY <2>2, WatchStep
<1>3. Inv => SeesOnlyCommitted
  BY DEF SeesOnlyCommitted, SeesCommitted, WatchInv, Watching
<1> QED
  BY <1>1, <1>2, <1>3, PTL DEF MCSpec

-----------------------------------------------------------------------------
(* The pages of a query.                                                    *)

(* p is the beginning of S in the order R: n elements, or all of S. *)
Page(R, S, n, p) ==
    /\ Len(p) <= n
    /\ \A i \in 1..Len(p) : p[i] \in S
    /\ \A i, j \in 1..Len(p) : i < j => <<p[i], p[j]>> \in R
    /\ \A x \in S : \/ \E i \in 1..Len(p) : x = p[i]
                    \/ Len(p) = n /\ \A i \in 1..Len(p) : <<p[i], x>> \in R

LEMMA PagesAgree ==
    ASSUME NEW S, NEW R, Orders(R, S), NEW n \in Nat,
           NEW p, Len(p) \in Nat, Page(R, S, n, p), NEW q, Len(q) \in Nat, Page(R, S, n, q)
    PROVE  \A i \in 1..Len(p) : i \in 1..Len(q) => p[i] = q[i]
<1> DEFINE Bad == {i \in 1..Len(p) : i \in 1..Len(q) /\ p[i] # q[i]}
<1> SUFFICES ASSUME Bad # {} PROVE FALSE
  OBVIOUS
<1>0. /\ \A x \in S : <<x, x>> \notin R
      /\ \A x, y \in S : x # y => <<x, y>> \in R \/ <<y, x>> \in R
      /\ \A x, y \in S : <<x, y>> \in R => <<y, x>> \notin R
  BY DEF Orders
<1>1. Bad \subseteq Nat
  OBVIOUS
<1> HIDE DEF Bad
<1>2. PICK i \in Bad : \A j \in Bad : ~(<<j, i>> \in OpToRel(<, Nat))
  BY <1>1, NatLessThanWellFounded, WFMin
<1>3. \A j \in Bad : ~(j < i)
  BY <1>1, <1>2 DEF OpToRel
<1> USE DEF Bad
<1>4. i \in 1..Len(p) /\ i \in 1..Len(q) /\ p[i] # q[i] /\ p[i] \in S /\ q[i] \in S
  BY <1>2 DEF Page
<1>5. \A j \in 1..Len(p) : j < i => j \in 1..Len(q) /\ p[j] = q[j]
  <2> TAKE j \in 1..Len(p)
  <2> HAVE j < i
  <2>1. j \in 1..Len(q)
    BY <1>4
  <2> QED
    BY <1>3, <2>1
<1>6. \A j \in 1..Len(q) : j < i => j \in 1..Len(p)
  BY <1>4
<1>7. \A j \in 1..Len(p) : j < i \/ j = i \/ i < j
  BY <1>4
<1>8. \A j \in 1..Len(q) : j < i \/ j = i \/ i < j
  BY <1>4
<1> HIDE DEF Bad
<1>9. CASE <<p[i], q[i]>> \in R
  <2>1. <<q[i], p[i]>> \notin R
    BY <1>0, <1>4, <1>9
  <2>2. PICK j \in 1..Len(q) : p[i] = q[j]
    BY <1>4, <2>1 DEF Page
  <2>3. CASE j < i
    <3>1. j \in 1..Len(p) /\ p[j] = p[i] /\ <<p[j], p[i]>> \in R
      BY <1>4, <1>5, <1>6, <2>2, <2>3 DEF Page
    <3> QED
      BY <1>0, <1>4, <3>1
  <2>4. CASE i < j
    BY <1>4, <2>1, <2>2, <2>4 DEF Page
  <2> QED
    BY <1>4, <1>8, <2>2, <2>3, <2>4
<1>10. CASE <<q[i], p[i]>> \in R
  <2>1. <<p[i], q[i]>> \notin R
    BY <1>0, <1>4, <1>10
  <2>2. PICK j \in 1..Len(p) : q[i] = p[j]
    BY <1>4, <2>1 DEF Page
  <2>3. CASE j < i
    <3>1. j \in 1..Len(q) /\ q[j] = q[i] /\ <<q[j], q[i]>> \in R
      BY <1>4, <1>5, <2>2, <2>3 DEF Page
    <3> QED
      BY <1>0, <1>4, <3>1
  <2>4. CASE i < j
    BY <1>4, <2>1, <2>2, <2>4 DEF Page
  <2> QED
    BY <1>4, <1>7, <2>2, <2>3, <2>4
<1> QED
  BY <1>0, <1>4, <1>9, <1>10

LEMMA PageNotShorter ==
    ASSUME NEW S, NEW R, Orders(R, S), NEW n \in Nat,
           NEW p, Len(p) \in Nat, Page(R, S, n, p), NEW q, Len(q) \in Nat, Page(R, S, n, q)
    PROVE  Len(q) <= Len(p)
<1> SUFFICES ASSUME Len(p) < Len(q) PROVE FALSE
  OBVIOUS
<1> DEFINE k == Len(p) + 1
<1>1. k \in 1..Len(q) /\ Len(p) # n /\ \A i \in 1..Len(p) : i \in 1..Len(q) /\ i < k
  BY DEF Page
<1> HIDE DEF k
<1>2. q[k] \in S
  BY <1>1 DEF Page
<1>3. PICK i \in 1..Len(p) : q[k] = p[i]
  BY <1>1, <1>2 DEF Page
<1>4. p[i] = q[i]
  BY <1>1, PagesAgree
<1>5. <<q[i], q[k]>> \in R
  BY <1>1 DEF Page
<1> QED
  BY <1>2, <1>3, <1>4, <1>5 DEF Orders

LEMMA OnePage ==
    ASSUME NEW S, NEW R, Orders(R, S), NEW n \in Nat, NEW E,
           NEW p \in Seq(E), Page(R, S, n, p), NEW q \in Seq(E), Page(R, S, n, q)
    PROVE  p = q
<1>1. Len(p) \in Nat /\ Len(q) \in Nat
  BY LenProperties
<1>2. Len(p) = Len(q)
  BY <1>1, PageNotShorter
<1>3. \A i \in 1..Len(p) : p[i] = q[i]
  BY <1>1, <1>2, PagesAgree
<1> QED
  BY <1>2, <1>3, SeqEqual

LEMMA FindIsPage ==
    ASSUME NEW data \in Seq(Writes), NEW w \in Watchers, Args[w].skip = 0
    PROVE  Page(OrderOf(w, data), Found(data), Args[w].take, Find(w, data))
<1> DEFINE S == Found(data)
           R == OrderOf(w, data)
           p == Find(w, data)
           n == Args[w].take
           last == LastOf(w, data)
<1>1. /\ IsFiniteSet(S) /\ Cardinality(S) \in Nat /\ n \in Nat /\ last \in Nat /\ last <= n
      /\ last = Cardinality(S) \/ last = n
  BY FoundIsFinite, FS_CardinalityType, LastOfPage, WatchAssumption
<1>2. Orders(R, S)
  BY FoundOrdered
<1>3. DOMAIN p = 1..last /\ \A i \in 1..last : p[i] \in S /\ Rank(R, S, p[i]) = i - 1
  <2>1. DOMAIN p = 1..(last - 0) /\ last - 0 = last
    BY <1>1, FindRanks
  <2>2. \A i \in DOMAIN p : p[i] \in S /\ Rank(R, S, p[i]) = 0 + i - 1
    BY FindRanks
  <2> HIDE DEF S, R, p, n, last
  <2> QED
    BY <1>1, <2>1, <2>2
<1>4. Len(p) = last
  <2>1. p \in Seq(Entries)
    BY FindTyped
  <2> HIDE DEF p, last
  <2> QED
    BY <1>1, <1>3, <2>1, LenProperties
<1> HIDE DEF S, R, p, n, last
<1>5. /\ \A e \in S : Rank(R, S, e) \in 0..(Cardinality(S) - 1)
      /\ \A x, y \in S : <<x, y>> \in R => Rank(R, S, x) < Rank(R, S, y)
      /\ \A x, y \in S : Rank(R, S, x) = Rank(R, S, y) => x = y
  BY <1>1, <1>2, RanksRise
<1>6. \A x, y \in S : Rank(R, S, x) < Rank(R, S, y) => <<x, y>> \in R
  <2> TAKE x, y \in S
  <2> HAVE Rank(R, S, x) < Rank(R, S, y)
  <2>1. Rank(R, S, x) \in Nat /\ Rank(R, S, y) \in Nat
    BY <1>1, <1>5
  <2>2. x # y /\ <<y, x>> \notin R
    BY <1>5, <2>1
  <2> QED
    BY <1>2, <2>2 DEF Orders
<1>7. \A i, j \in 1..last : i < j => <<p[i], p[j]>> \in R
  <2> TAKE i, j \in 1..last
  <2> HAVE i < j
  <2>1. p[i] \in S /\ p[j] \in S /\ Rank(R, S, p[i]) < Rank(R, S, p[j])
    BY <1>3
  <2> QED
    BY <1>6, <2>1
<1>8. ASSUME NEW x \in S, \A i \in 1..last : x # p[i]
      PROVE  last = n /\ \A i \in 1..last : <<p[i], x>> \in R
  <2> DEFINE r == Rank(R, S, x)
  <2>1. r \in 0..(Cardinality(S) - 1)
    BY <1>5
  <2>2. ~(r < last)
    <3> SUFFICES ASSUME r < last PROVE FALSE
      OBVIOUS
    <3>1. r + 1 \in 1..last /\ (r + 1) - 1 = r
      BY <1>1, <2>1
    <3>2. p[r + 1] \in S /\ Rank(R, S, p[r + 1]) = r
      BY <1>3, <3>1
    <3> QED
      BY <1>5, <1>8, <3>1, <3>2
  <2> HIDE DEF r
  <2>3. last = n
    BY <1>1, <2>1, <2>2
  <2>4. \A i \in 1..last : i - 1 < r
    BY <1>1, <2>1, <2>2
  <2> QED
    BY <1>3, <1>6, <2>3, <2>4 DEF r
<1> QED
  BY <1>1, <1>3, <1>4, <1>7, <1>8 DEF Page, S, R, p, n, last

-----------------------------------------------------------------------------
(* Watchers, and clients that go by the events, follow the data.            *)

Begins(s, t) == Len(s) <= Len(t) /\ \A i \in 1..Len(s) : t[i] = s[i]

(* The documents written in t after s. *)
WrittenAfter(s, t) == {t[i].doc : i \in (Len(s) + 1)..Len(t)}

LEMMA FoundAlike ==
    ASSUME NEW s \in Seq(Writes), NEW t \in Seq(Writes), Begins(s, t),
           NEW d, d \notin WrittenAfter(s, t)
    PROVE  /\ Matches(t, d) <=> Matches(s, d)
           /\ Matches(s, d) => Entry(t, d) = Entry(s, d) /\ Created(t, d) = Created(s, d)
<1>1. /\ DOMAIN s = 1..Len(s) /\ DOMAIN t = 1..Len(t)
      /\ Len(s) \in Nat /\ Len(t) \in Nat
  BY LenProperties
<1>2. \A i \in DOMAIN t : t[i].doc = d => i \in DOMAIN s
  <2> SUFFICES ASSUME NEW i \in DOMAIN t, i \notin DOMAIN s PROVE t[i].doc # d
    OBVIOUS
  <2>1. i \in (Len(s) + 1)..Len(t)
    BY <1>1
  <2> QED
    BY <2>1 DEF WrittenAfter
<1>3. \A i \in DOMAIN s : i \in DOMAIN t /\ t[i] = s[i]
  BY <1>1 DEF Begins
<1>4. {i \in DOMAIN t : t[i].doc = d} = {i \in DOMAIN s : s[i].doc = d}
  BY <1>2, <1>3
<1>5. {i \in DOMAIN t : t[i].doc = d /\ t[i].v = Gone}
           = {i \in DOMAIN s : s[i].doc = d /\ s[i].v = Gone}
  BY <1>2, <1>3
<1>6. \A last : {i \in DOMAIN t : i > last /\ t[i].doc = d}
                   = {i \in DOMAIN s : i > last /\ s[i].doc = d}
  BY <1>2, <1>3
<1>7. LastWrite(t, d) = LastWrite(s, d) /\ Created(t, d) = Created(s, d)
  BY <1>4, <1>5, <1>6 DEF LastWrite, Created
<1>8. LastWrite(s, d) \in {0} \cup DOMAIN s
  <2> DEFINE S == {0} \cup {i \in DOMAIN s : s[i].doc = d}
  <2>1. S \subseteq 0..Len(s) /\ S # {} /\ S \subseteq {0} \cup DOMAIN s
    BY <1>1
  <2>2. LastWrite(s, d) = Max(S)
    BY DEF LastWrite
  <2> HIDE DEF S
  <2> QED
    BY <1>1, <2>1, <2>2, GreatestOne
<1>9. LastWrite(s, d) # 0 => t[LastWrite(s, d)] = s[LastWrite(s, d)]
  BY <1>3, <1>8
<1>10. Matches(t, d) <=> Matches(s, d)
  BY <1>7, <1>9 DEF Matches
<1>11. Matches(s, d) => LastWrite(s, d) # 0
  BY DEF Matches
<1> QED
  BY <1>7, <1>9, <1>10, <1>11 DEF Entry

LEMMA FoundKept ==
    ASSUME NEW s \in Seq(Writes), NEW t \in Seq(Writes), Begins(s, t),
           NEW x, x.id \notin WrittenAfter(s, t)
    PROVE  /\ x \in Found(t) <=> x \in Found(s)
           /\ x \in Found(s) => Created(t, x.id) = Created(s, x.id)
<1>1. \A data \in Seq(Writes) :
             x \in Found(data) => x.id \in Docs /\ Matches(data, x.id) /\ x = Entry(data, x.id)
  <2> SUFFICES ASSUME NEW data \in Seq(Writes), x \in Found(data)
               PROVE  x.id \in Docs /\ Matches(data, x.id) /\ x = Entry(data, x.id)
    OBVIOUS
  <2>1. PICK d \in Docs : Matches(data, d) /\ x = Entry(data, d)
    BY DEF Found
  <2>2. x.id = d
    BY <2>1, FoundAre
  <2> QED
    BY <2>1, <2>2
<1>2. \A data \in Seq(Writes) :
             x \in Found(data) <=> x.id \in Docs /\ Matches(data, x.id) /\ x = Entry(data, x.id)
  BY <1>1 DEF Found
<1> QED
  BY <1>2, FoundAlike

(* What a watcher holds is a page of the query's results, but for what has  *)
(* become of the documents that it has still to be told of.                 *)
Tracks(w, p, data, untold) ==
    \E F, R :
       /\ Page(R, F, Args[w].take, p)
       /\ \A x \in F : x.id \in untold \/ x \in Found(data)
       /\ \A x \in Found(data) : x.id \in untold \/ x \in F
       /\ \A x, y \in F :
                x.id \in untold \/ y.id \in untold \/ (<<x, y>> \in R <=> Before(w, data, x, y))

LEMMA TracksNow ==
    ASSUME NEW data \in Seq(Writes), NEW w \in Watchers, Args[w].skip = 0, NEW untold
    PROVE  Tracks(w, Find(w, data), data, untold)
<1>1. Page(OrderOf(w, data), Found(data), Args[w].take, Find(w, data))
  BY FindIsPage
<1>2. \A x, y \in Found(data) : <<x, y>> \in OrderOf(w, data) <=> Before(w, data, x, y)
  BY FoundOrdered
<1> QED
  BY <1>1, <1>2 DEF Tracks

LEMMA TracksOn ==
    ASSUME NEW s \in Seq(Writes), NEW t \in Seq(Writes), Begins(s, t), NEW w, NEW p,
           NEW untold, Tracks(w, p, s, untold),
                NEW more, untold \cup WrittenAfter(s, t) \subseteq more
    PROVE  Tracks(w, p, t, more)
<1>1. PICK F, R :
         /\ Page(R, F, Args[w].take, p)
         /\ \A x \in F : x.id \in untold \/ x \in Found(s)
         /\ \A x \in Found(s) : x.id \in untold \/ x \in F
         /\ \A x, y \in F :
                x.id \in untold \/ y.id \in untold \/ (<<x, y>> \in R <=> Before(w, s, x, y))
  BY DEF Tracks
<1>2. \A x : x.id \notin more =>
         /\ x.id \notin untold
         /\ x \in Found(t) <=> x \in Found(s)
         /\ x \in Found(s) => Created(t, x.id) = Created(s, x.id)
  BY FoundKept
<1>3. \A x \in F : x.id \in more \/ x \in Found(t)
  BY <1>1, <1>2
<1>4. \A x \in Found(t) : x.id \in more \/ x \in F
  BY <1>1, <1>2
<1>5. \A x, y \in F : x.id \in more \/ y.id \in more \/ (<<x, y>> \in R <=> Before(w, t, x, y))
  <2> SUFFICES ASSUME NEW x \in F, NEW y \in F, x.id \notin more, y.id \notin more
               PROVE  <<x, y>> \in R <=> Before(w, t, x, y)
    OBVIOUS
  <2>1. /\ Created(t, x.id) = Created(s, x.id) /\ Created(t, y.id) = Created(s, y.id)
        /\ <<x, y>> \in R <=> Before(w, s, x, y)
    BY <1>1, <1>2
  <2> QED
    BY <2>1 DEF Before
<1> QED
  BY <1>1, <1>3, <1>4, <1>5 DEF Tracks

(* Documents that are neither held nor match need not be told of. *)
LEMMA TracksRest ==
    ASSUME NEW data, NEW w, NEW p, NEW untold, Tracks(w, p, data, untold),
           NEW told, NEW left, untold \subseteq told \cup left,
           \A i \in 1..Len(p) : p[i].id \notin told,
           \A x \in Found(data) : x.id \notin told
    PROVE  Tracks(w, p, data, left)
<1>1. PICK F, R :
         /\ Page(R, F, Args[w].take, p)
         /\ \A x \in F : x.id \in untold \/ x \in Found(data)
         /\ \A x \in Found(data) : x.id \in untold \/ x \in F
         /\ \A x, y \in F :
                x.id \in untold \/ y.id \in untold \/ (<<x, y>> \in R <=> Before(w, data, x, y))
  BY DEF Tracks
<1> DEFINE G == {x \in F : x.id \notin told}
<1>2. Page(R, G, Args[w].take, p)
  BY <1>1 DEF Page
<1>3. \A x \in G : x.id \in left \/ x \in Found(data)
  BY <1>1
<1>4. \A x \in Found(data) : x.id \in left \/ x \in G
  BY <1>1
<1>5. \A x, y \in G : x.id \in left \/ y.id \in left \/ (<<x, y>> \in R <=> Before(w, data, x, y))
  BY <1>1
<1> HIDE DEF G
<1> QED
  BY <1>2, <1>3, <1>4, <1>5 DEF Tracks

(* With nothing to be told of, it is what the query finds. *)
LEMMA TracksAll ==
    ASSUME NEW data \in Seq(Writes), NEW w \in Watchers, Args[w].skip = 0,
           NEW p \in Seq(Entries), Tracks(w, p, data, {})
    PROVE  p = Find(w, data)
<1>1. PICK F, R :
         /\ Page(R, F, Args[w].take, p)
         /\ \A x \in F : x \in Found(data)
         /\ \A x \in Found(data) : x \in F
         /\ \A x, y \in F : <<x, y>> \in R <=> Before(w, data, x, y)
  BY DEF Tracks
<1>2. F = Found(data)
  BY <1>1
<1>3. /\ Orders(OrderOf(w, data), Found(data))
      /\ \A x, y \in Found(data) : <<x, y>> \in OrderOf(w, data) <=> Before(w, data, x, y)
  BY FoundOrdered
<1>4. \A x, y \in Found(data) : <<x, y>> \in R <=> <<x, y>> \in OrderOf(w, data)
  BY <1>1, <1>2, <1>3
<1>5. Page(OrderOf(w, data), Found(data), Args[w].take, p)
  BY <1>1, <1>2, <1>4 DEF Page
<1>6. Page(OrderOf(w, data), Found(data), Args[w].take, Find(w, data))
  BY FindIsPage
<1>7. Args[w].take \in Nat /\ Find(w, data) \in Seq(Entries)
  BY WatchAssumption, FindTyped
<1> QED
  BY <1>3, <1>5, <1>6, <1>7, OnePage

(* The same for the client, whose documents are the right ones, and as they *)
(* are unless the query is field-scoped or they have still to be told of.   *)
Follows(w, p, docs, data, untold) ==
    /\ Tracks(w, p, data, untold)
    /\ {e.id : e \in docs} = Ids(p)
    /\ Args[w].fields = {} => \A e \in docs : e.id \in untold \/ e \in Found(data)

LEMMA FindMembers ==
    ASSUME NEW data \in Seq(Writes), NEW w \in Watchers
    PROVE  \A e \in ToSet(Find(w, data)) : e \in Found(data)
BY FindsFound DEF ToSet

LEMMA IdsOfMembers == ASSUME NEW p PROVE Ids(p) = {e.id : e \in ToSet(p)}
BY DEF Ids, ToSet

LEMMA FollowsNow ==
    ASSUME NEW data \in Seq(Writes), NEW w \in Watchers, Args[w].skip = 0, NEW untold
    PROVE  Follows(w, Find(w, data), ToSet(Find(w, data)), data, untold)
BY TracksNow, FindMembers, IdsOfMembers DEF Follows

LEMMA FollowsOn ==
    ASSUME NEW s \in Seq(Writes), NEW t \in Seq(Writes), Begins(s, t), NEW w, NEW p, NEW docs,
           NEW untold, Follows(w, p, docs, s, untold),
           NEW more, untold \cup WrittenAfter(s, t) \subseteq more
    PROVE  Follows(w, p, docs, t, more)
<1>1. Tracks(w, p, t, more)
  BY TracksOn DEF Follows
<1>2. ASSUME NEW e \in docs, Args[w].fields = {}, e.id \notin more
      PROVE  e \in Found(t)
  <2>1. e \in Found(s) /\ e.id \notin WrittenAfter(s, t)
    BY <1>2 DEF Follows
  <2> QED
    BY <2>1, FoundKept
<1> QED
  BY <1>1, <1>2 DEF Follows

(* The documents are neither held nor do they match. *)
NoneOf(docs, p, data) == Ids(p) \cap docs = {} /\ \A d \in docs : ~Matches(data, d)

LEMMA FollowsRest ==
    ASSUME NEW data \in Seq(Writes), NEW w \in Watchers, NEW p \in Seq(Entries),
                    NEW docs, NEW untold,
           Follows(w, p, docs, data, untold),
           NEW told, NEW left, untold \subseteq told \cup left,
           NoneOf(told, p, data)
    PROVE  Follows(w, p, docs, data, left)
<1>1. \A i \in 1..Len(p) : p[i].id \notin told
  BY LenProperties DEF Ids, NoneOf
<1>2. \A x \in Found(data) : x.id \notin told
  <2> TAKE x \in Found(data)
  <2>1. PICK d \in Docs : Matches(data, d) /\ x = Entry(data, d)
    BY DEF Found
  <2>2. x.id = d
    BY <2>1, FoundAre
  <2> QED
    BY <2>1, <2>2 DEF NoneOf
<1>3. Tracks(w, p, data, left)
  <2>1. Tracks(w, p, data, untold)
    BY DEF Follows
  <2> QED
    BY <1>1, <1>2, <2>1, TracksRest
<1>4. \A e \in docs : e.id \in Ids(p) /\ e.id \notin told
  BY DEF Follows, NoneOf
<1> QED
  BY <1>3, <1>4 DEF Follows

(* A flush that tells the watcher brings both up to date. *)
LEMMA FollowsChange ==
    ASSUME NEW data \in Seq(Writes), NEW w \in Watchers, Args[w].skip = 0, NEW p, NEW docs,
           NEW untold, Follows(w, p, docs, data, untold),
           NEW told, NEW left, untold \subseteq told \cup left
    PROVE  Follows(w, Find(w, data),
                   IF Suppressed(w, p, Find(w, data), told) THEN docs
                   ELSE Replayed(docs, p, Find(w, data), told),
                   data, left)
<1> DEFINE next == Find(w, data)
           came == Added(p, next) \cup Changed(p, next, told)
           gone == {e.id : e \in Removed(p, next)}
           kept == {e \in docs : e.id \notin gone \cup {c.id : c \in came}}
<1>1. /\ Tracks(w, next, data, left) /\ \A e \in ToSet(next) : e \in Found(data)
  BY TracksNow, FindMembers
<1>2. /\ {e.id : e \in docs} = Ids(p)
      /\ Args[w].fields = {} => \A e \in docs : e.id \in untold \/ e \in Found(data)
      /\ Ids(p) = {e.id : e \in ToSet(p)} /\ Ids(next) = {e.id : e \in ToSet(next)}
  BY IdsOfMembers DEF Follows
<1> HIDE DEF next
<1>3. CASE Suppressed(w, p, next, told)
  <2>1. Args[w].fields # {} /\ Added(p, next) = {} /\ Removed(p, next) = {}
    BY <1>3 DEF Suppressed
  <2>2. Ids(p) = Ids(next)
    BY <1>2, <2>1 DEF Added, Removed
  <2> QED
    BY <1>1, <1>2, <1>3, <2>1, <2>2 DEF Follows, next
<1>4. CASE ~Suppressed(w, p, next, told)
  <2>1. Replayed(docs, p, next, told) = kept \cup came
    BY DEF Replayed
  <2>2. gone = Ids(p) \ Ids(next)
    BY <1>2 DEF Removed
  <2>3. came = {e \in ToSet(next) : e.id \notin Ids(p) \/ e.id \in told}
    <3>1. came \subseteq ToSet(next) /\ \A e \in came : e.id \notin Ids(p) \/ e.id \in told
      BY DEF Added, Changed
    <3>2. \A e \in ToSet(next) : e.id \notin Ids(p) \/ e.id \in told => e \in came
      BY DEF Added, Changed
    <3> QED
      BY <3>1, <3>2
  <2> HIDE DEF came, gone
  <2>4. {e.id : e \in kept \cup came} = Ids(next)
    <3>1. \A e \in kept \cup came : e.id \in Ids(next)
      BY <1>2, <2>2, <2>3
    <3>2. ASSUME NEW x \in Ids(next) PROVE \E e \in kept \cup came : e.id = x
      <4>1. CASE \E c \in came : c.id = x
        BY <4>1
      <4>2. CASE ~ \E c \in came : c.id = x
        <5>1. x \in Ids(p)
          BY <1>2, <2>3, <3>2, <4>2
        <5>2. PICK e \in docs : e.id = x
          BY <1>2, <5>1
        <5>3. e.id \notin gone /\ e.id \notin {c.id : c \in came}
          BY <2>2, <3>2, <4>2, <5>2
        <5> QED
          BY <5>2, <5>3
      <4> QED
        BY <4>1, <4>2
    <3> QED
      BY <3>1, <3>2
  <2>5. ASSUME Args[w].fields = {}, NEW e \in kept \cup came, e.id \notin left
        PROVE  e \in Found(data)
    <3>1. CASE e \in came
      BY <1>1, <2>3, <3>1
    <3>2. CASE e \in kept
      <4>1. e \in docs /\ e.id \notin gone /\ \A c \in came : e.id # c.id
        BY <3>2
      <4>2. e.id \in Ids(next)
        BY <1>2, <2>2, <4>1
      <4>3. e.id \notin told
        BY <1>2, <2>3, <4>1, <4>2
      <4> QED
        BY <1>2, <2>5, <4>1, <4>3
    <3> QED
      BY <2>5, <3>1, <3>2
  <2> HIDE DEF kept
  <2> QED
    BY <1>1, <1>4, <2>1, <2>4, <2>5 DEF Follows, next
<1> QED
  BY <1>3, <1>4 DEF next

LEMMA FollowsAll ==
    ASSUME NEW data \in Seq(Writes), NEW w \in Watchers, Args[w].skip = 0,
           NEW p \in Seq(Entries), NEW docs, Follows(w, p, docs, data, {})
    PROVE  /\ p = Find(w, data)
           /\ {e.id : e \in docs} = Ids(p)
           /\ Args[w].fields = {} => docs = ToSet(p)
<1>1. p = Find(w, data) /\ {e.id : e \in docs} = Ids(p)
  BY TracksAll DEF Follows
<1>2. ASSUME Args[w].fields = {} PROVE docs = ToSet(p)
  <2>1. (\A e \in docs : e \in Found(data)) /\ \A e \in ToSet(p) : e \in Found(data)
    BY <1>1, <1>2, FindMembers DEF Follows
  <2>2. \A x, y \in Found(data) : x.id = y.id => x = y
    <3> TAKE x, y \in Found(data)
    <3>1. PICK d \in Docs : Matches(data, d) /\ x = Entry(data, d)
      BY DEF Found
    <3>2. PICK e \in Docs : Matches(data, e) /\ y = Entry(data, e)
      BY DEF Found
    <3> QED
      BY <3>1, <3>2, FoundAre
  <2>3. {e.id : e \in docs} = {e.id : e \in ToSet(p)}
    BY <1>1, IdsOfMembers
  <2>4. \A e \in docs : \E x \in ToSet(p) : e.id = x.id
    BY <2>3
  <2>5. \A x \in ToSet(p) : \E e \in docs : e.id = x.id
    BY <2>3
  <2>6. docs \subseteq ToSet(p)
    BY <2>1, <2>2, <2>4
  <2>7. ToSet(p) \subseteq docs
    BY <2>1, <2>2, <2>5
  <2> QED
    BY <2>6, <2>7
<1> QED
  BY <1>1, <1>2

-----------------------------------------------------------------------------
(* What the open transactions have read and will notify of.                 *)

LEMMA BeginsItself == ASSUME NEW s \in Seq(Writes) PROVE Begins(s, s) /\ WrittenAfter(s, s) = {}
<1>1. Len(s) \in Nat
  BY LenProperties
<1>2. (Len(s) + 1)..Len(s) = {}
  BY <1>1
<1> QED
  BY <1>1, <1>2 DEF Begins, WrittenAfter

LEMMA BeginsLonger ==
    ASSUME NEW s \in Seq(Writes), NEW w \in Writes
    PROVE  Begins(s, Append(s, w)) /\ WrittenAfter(s, Append(s, w)) = {w.doc}
<1> DEFINE t == Append(s, w)
<1>1. /\ Len(s) \in Nat /\ Len(t) = Len(s) + 1
      /\ \A i \in 1..Len(s) : t[i] = s[i]
      /\ t[Len(s) + 1] = w
  BY AppendProperties, LenProperties
<1> HIDE DEF t
<1>2. (Len(s) + 1)..Len(t) = {Len(s) + 1}
  BY <1>1
<1>3. Begins(s, t)
  BY <1>1 DEF Begins
<1>4. WrittenAfter(s, t) = {w.doc}
  BY <1>1, <1>2 DEF WrittenAfter
<1> QED
  BY <1>3, <1>4 DEF t

LEMMA BeginsOn ==
    ASSUME NEW r \in Seq(Writes), NEW s \in Seq(Writes), NEW t \in Seq(Writes),
           Begins(r, s), Begins(s, t)
    PROVE  Begins(r, t) /\ WrittenAfter(r, s) \subseteq WrittenAfter(r, t)
<1>1. Len(r) \in Nat /\ Len(s) \in Nat /\ Len(t) \in Nat /\ Len(r) <= Len(s) /\ Len(s) <= Len(t)
  BY LenProperties DEF Begins
<1>2. \A i \in 1..Len(r) : i \in 1..Len(s) /\ t[i] = r[i]
  BY <1>1 DEF Begins
<1>3. \A i \in (Len(r) + 1)..Len(s) : i \in (Len(r) + 1)..Len(t) /\ t[i] = s[i]
  BY <1>1 DEF Begins
<1> QED
  BY <1>1, <1>2, <1>3 DEF Begins, WrittenAfter

(* What a transaction read when it opened is the beginning of what is read  *)
(* now, and what was written since is to be notified of when it commits.    *)
Layered ==
    /\ \A i, j \in 1..depth : i <= j => Begins(saves[i].data, saves[j].data)
    /\ \A i \in 1..depth : Begins(saves[i].data, view)
    /\ WrittenAfter(stored, view) \subseteq hooks

LEMMA StoredBegins == TxInv /\ Layered => Begins(stored, view)
<1> SUFFICES ASSUME TxInv, Layered PROVE Begins(stored, view)
  OBVIOUS
<1>1. CASE saves = << >>
  BY <1>1, BeginsItself DEF TxInv, TxTyped, Grown
<1>2. CASE saves # << >>
  <2>1. 1 \in 1..depth /\ saves[1].data = stored
    BY <1>2, SavesAt DEF TxInv, Nested, Grown
  <2> QED
    BY <2>1 DEF Layered
<1> QED
  BY <1>1, <1>2

LEMMA RollbackDoes ==
    ASSUME TxInv, NEW f \in Flows, Runs(f), NEW left \in Int,
           depth # 1 => left = depth - 1, RollsBack(f, left)
    PROVE  /\ depth \in Nat /\ depth >= 1 /\ depth' = depth - 1
           /\ view' = saves[depth].data /\ stored' = stored
           /\ \A i \in 1..(depth - 1) : saves'[i] = saves[i]
           /\ hooks' = IF depth = 1 THEN {} ELSE hooks
<1>1. /\ depth >= 1 /\ depth \in Nat
      /\ SaveOf(f) = IF depth = 1 THEN 0 ELSE depth
  BY RunsInnermost, SavepointOf DEF TxInv, TxTyped
<1>2. Len(saves) = depth /\ InTx
  BY <1>1, SavesAt DEF TxInv, Nested, InTx
<1>3. /\ view' = saves[depth].data /\ stored' = stored /\ depth' = depth - 1
      /\ saves' = IF depth = 1 THEN << >> ELSE SubSeq(saves, 1, depth - 1)
      /\ hooks' = IF depth = 1 THEN {} ELSE hooks
  BY <1>1, <1>2 DEF RollsBack
<1> QED
  BY <1>1, <1>2, <1>3, Cut DEF TxInv

LEMMA LayeredAfterRollback ==
    ASSUME TxInv, Layered, NEW f \in Flows, Runs(f), NEW left \in Int,
           depth # 1 => left = depth - 1, RollsBack(f, left)
    PROVE  Layered'
<1>1. /\ depth \in Nat /\ depth >= 1 /\ depth' = depth - 1
      /\ view' = saves[depth].data /\ stored' = stored
      /\ \A i \in 1..(depth - 1) : saves'[i] = saves[i]
      /\ hooks' = IF depth = 1 THEN {} ELSE hooks
  BY RollbackDoes
<1>2. \A i \in 1..(depth - 1) : i \in 1..depth /\ i <= depth
  BY <1>1
<1>3. depth \in 1..depth
  BY <1>1
<1>4. \A i, j \in 1..depth' : i <= j => Begins(saves'[i].data, saves'[j].data)
  BY <1>1, <1>2 DEF Layered
<1>5. \A i \in 1..depth' : Begins(saves'[i].data, view')
  BY <1>1, <1>2, <1>3 DEF Layered
<1>6. WrittenAfter(stored', view') \subseteq hooks'
  <2>1. /\ stored \in Seq(Writes) /\ view \in Seq(Writes) /\ saves[depth].data \in Seq(Writes)
        /\ 1 \in 1..depth /\ saves[1].data = stored
    BY <1>1, SavesAt DEF TxInv, TxTyped, Nested, Grown
  <2>2. CASE depth = 1
    BY <1>1, <2>1, <2>2, BeginsItself
  <2>3. CASE depth # 1
    <3>1. Begins(stored, saves[depth].data) /\ Begins(saves[depth].data, view)
      BY <1>1, <1>3, <2>1 DEF Layered
    <3>2. WrittenAfter(stored, saves[depth].data) \subseteq WrittenAfter(stored, view)
      BY <2>1, <3>1, BeginsOn
    <3> QED
      BY <1>1, <2>3, <3>2 DEF Layered
  <2> QED
    BY <2>2, <2>3
<1> QED
  BY <1>4, <1>5, <1>6 DEF Layered

LEMMA LayeredAfterKeep ==
    ASSUME TxInv, Layered, depth \in Nat, depth >= 1, depth' = depth - 1, view' = view,
           saves' = IF depth = 1 THEN << >> ELSE SubSeq(saves, 1, depth - 1),
           IF depth = 1 THEN stored' = view ELSE stored' = stored /\ hooks' = hooks
    PROVE  Layered'
<1>1. \A i \in 1..(depth - 1) : saves'[i] = saves[i] /\ i \in 1..depth
  BY Cut DEF TxInv, Nested
<1>2. WrittenAfter(stored', view') \subseteq hooks'
  <2>1. CASE depth = 1
    BY <2>1, BeginsItself DEF TxInv, TxTyped
  <2>2. CASE depth # 1
    BY <2>2 DEF Layered
  <2> QED
    BY <2>1, <2>2
<1> QED
  BY <1>1, <1>2 DEF Layered

LEMMA LayeredAfterOpen ==
    ASSUME TxInv, Layered, NEW f \in Flows, Opens(f), UNCHANGED <<stored, view, hooks>>
    PROVE  Layered'
<1>1. /\ depth \in Nat /\ depth = Len(saves) /\ depth' = depth + 1 /\ view \in Seq(Writes)
      /\ saves' = Append(saves, [name |-> depth, data |-> view])
  BY DEF Opens, TxInv, TxTyped, Nested
<1>2. /\ \A i \in 1..depth : saves'[i] = saves[i]
      /\ saves'[depth + 1] = [name |-> depth, data |-> view]
  <2>1. /\ saves \in Seq([name : Nat, data : Seq(Writes)])
        /\ [name |-> depth, data |-> view] \in [name : Nat, data : Seq(Writes)]
    BY <1>1 DEF TxInv, TxTyped
  <2> QED
    BY <1>1, <2>1, AppendProperties
<1>3. \A i \in 1..(depth + 1) : i \in 1..depth \/ i = depth + 1
  BY <1>1
<1>4. \A i \in 1..(depth + 1) : Begins(saves'[i].data, view)
  <2> TAKE i \in 1..(depth + 1)
  <2>1. CASE i \in 1..depth
    BY <1>2, <2>1 DEF Layered
  <2>2. CASE i = depth + 1
    BY <1>1, <1>2, <2>2, BeginsItself
  <2> QED
    BY <1>3, <2>1, <2>2
<1>5. \A i, j \in 1..(depth + 1) : i <= j => Begins(saves'[i].data, saves'[j].data)
  <2> TAKE i, j \in 1..(depth + 1)
  <2> HAVE i <= j
  <2>1. CASE j \in 1..depth
    <3>1. i \in 1..depth
      BY <1>1, <2>1
    <3> QED
      BY <1>2, <2>1, <3>1 DEF Layered
  <2>2. CASE j = depth + 1
    BY <1>2, <1>4, <2>2
  <2> QED
    BY <1>3, <2>1, <2>2
<1> QED
  BY <1>1, <1>4, <1>5 DEF Layered

LEMMA LayeredAfterWrite ==
    ASSUME TxInv, Layered, NEW f \in Flows, NEW d \in Docs, NEW v \in Values, Write(f, d, v)
    PROVE  Layered' /\ stored' = stored
<1>1. depth \in Nat /\ depth >= 1 /\ used \in Nat /\ view \in Seq(Writes) /\ stored \in Seq(Writes)
  BY RunsInnermost DEF Write, TxInv, TxTyped
<1>2. InTx
  BY <1>1, SavesAt DEF InTx, TxInv, Nested
<1>3. /\ view' = Append(view, Written(d, v)) /\ stored' = stored /\ hooks' = hooks \cup {d}
      /\ UNCHANGED <<saves, depth>>
  BY <1>1, <1>2 DEF Write, Stores
<1>4. Written(d, v) \in Writes /\ Written(d, v).doc = d
  BY <1>1 DEF Written, Writes
<1>5. view' \in Seq(Writes) /\ Begins(view, view') /\ WrittenAfter(view, view') = {d}
  BY <1>1, <1>3, <1>4, BeginsLonger, NumbersOfAppend
<1>6. \A i \in 1..depth : Begins(saves[i].data, view')
  <2> TAKE i \in 1..depth
  <2>1. saves[i].data \in Seq(Writes) /\ Begins(saves[i].data, view)
    BY SavesAt DEF TxInv, Nested, Layered
  <2> QED
    BY <1>1, <1>5, <2>1, BeginsOn
<1>7. WrittenAfter(stored, view') \subseteq hooks'
  <2>1. /\ Len(view) \in Nat /\ Len(stored) \in Nat /\ Len(view') = Len(view) + 1
        /\ \A i \in 1..Len(view) : view'[i] = view[i]
        /\ view'[Len(view) + 1].doc = d
    BY <1>1, <1>3, <1>4, LenProperties, AppendProperties
  <2>2. \A i \in (Len(stored) + 1)..Len(view') : i \in (Len(stored) + 1)..Len(view) \/ i = Len(view) + 1
    BY <2>1
  <2>3. \A i \in (Len(stored) + 1)..Len(view) : i \in 1..Len(view)
    BY <2>1
  <2>4. \A i \in (Len(stored) + 1)..Len(view') : view'[i].doc \in WrittenAfter(stored, view) \cup {d}
    BY <2>1, <2>2, <2>3 DEF WrittenAfter
  <2> QED
    BY <1>3, <2>4 DEF WrittenAfter, Layered
<1> QED
  BY <1>3, <1>6, <1>7 DEF Layered

LEMMA LayeredOutside ==
    ASSUME TxInv, depth = 0, depth' = 0, view' = stored', view' \in Seq(Writes)
    PROVE  Layered'
<1>1. 1..depth' = {}
  BY DEF TxInv
<1>2. WrittenAfter(stored', view') = {}
  BY BeginsItself
<1> QED
  BY <1>1, <1>2 DEF Layered

-----------------------------------------------------------------------------
(* Every watcher follows what is committed, up to what it has still to be   *)
(* told of.                                                                 *)

Beyond(data, c) == {data[i].doc : i \in (c + 1)..Len(data)}

(* What the watchers have still to be told of. *)
ToTell == pending \cup (IF feedOn THEN Beyond(stored, cursor) ELSE {})

AllFollow ==
    /\ cursor \in 0..Len(stored)
    /\ Opening # {} => view = stored /\ pending = {}
    /\ \A w \in Opening : query[w].full = Find(w, stored) /\ client[w] = ToSet(query[w].full)
    /\ \A w \in Watching : Args[w].skip = 0 =>
          Follows(w, query[w].full, client[w], stored, ToTell)

CatchInv ==
    /\ WatchInv /\ Layered
    /\ DOMAIN client = Watchers
    /\ feedOn /\ Watching # {} => polling
    /\ dirty \/ slipped \/ AllFollow

LEMMA BeyondOn ==
    ASSUME NEW s \in Seq(Writes), NEW t \in Seq(Writes), Begins(s, t), NEW c \in 0..Len(s)
    PROVE  Beyond(t, c) = Beyond(s, c) \cup WrittenAfter(s, t)
<1>1. Len(s) \in Nat /\ Len(t) \in Nat /\ Len(s) <= Len(t) /\ \A i \in 1..Len(s) : t[i] = s[i]
  BY LenProperties DEF Begins
<1>2. \A i \in (c + 1)..Len(t) : i \in (c + 1)..Len(s) \/ i \in (Len(s) + 1)..Len(t)
  BY <1>1
<1>3. /\ \A i \in (c + 1)..Len(s) : i \in (c + 1)..Len(t) /\ t[i] = s[i]
      /\ \A i \in (Len(s) + 1)..Len(t) : i \in (c + 1)..Len(t)
  BY <1>1
<1> QED
  BY <1>2, <1>3 DEF Beyond, WrittenAfter

LEMMA DrainsAll ==
    ASSUME NEW data \in Seq(Writes), cursor \in 0..Len(data), Watching # {}, Drains(data)
    PROVE  cursor' = Len(data) /\ pending' = pending \cup Beyond(data, cursor)
<1>1. Len(data) \in Nat /\ cursor \in Nat /\ cursor <= Len(data)
  BY LenProperties
<1>2. cursor' = Max({cursor, Len(data)})
  BY DEF Drains
<1>3. Max({cursor, Len(data)}) = Len(data)
  <2>1. /\ Len(data) \in {cursor, Len(data)}
        /\ \A x \in {cursor, Len(data)} : (\A y \in {cursor, Len(data)} : x >= y) <=> x = Len(data)
    BY <1>1
  <2> QED
    BY <2>1 DEF Max
<1>4. pending' = pending \cup Beyond(data, cursor)
  BY DEF Drains, Emits, Beyond
<1> QED
  BY <1>2, <1>3, <1>4

(* A commit and its notification, of the documents it wrote. *)
LEMMA NotifiedOf ==
    ASSUME stored \in Seq(Writes), stored' \in Seq(Writes), Begins(stored, stored'),
           cursor \in 0..Len(stored), feedOn' = feedOn,
           NEW docs, WrittenAfter(stored, stored') \subseteq docs, Notifies(docs, stored')
    PROVE  /\ cursor' \in 0..Len(stored')
           /\ Watching = {} \/ ToTell \cup WrittenAfter(stored, stored') \subseteq ToTell'
<1>1. cursor \in 0..Len(stored')
  BY LenProperties DEF Begins
<1>2. Len(stored') \in Nat
  BY LenProperties
<1>3. Beyond(stored', cursor) = Beyond(stored, cursor) \cup WrittenAfter(stored, stored')
  BY BeyondOn
<1>4. CASE feedOn /\ Watching # {}
  <2>1. cursor' = Len(stored') /\ pending' = pending \cup Beyond(stored', cursor)
    BY <1>1, <1>4, DrainsAll DEF Notifies
  <2> QED
    BY <1>2, <1>3, <2>1 DEF ToTell
<1>5. CASE feedOn /\ Watching = {}
  BY <1>1, <1>5 DEF Notifies, Drains
<1>6. CASE ~feedOn
  BY <1>1, <1>6 DEF Notifies, Emits, ToTell
<1> QED
  BY <1>4, <1>5, <1>6

LEMMA FollowersKept ==
    ASSUME AllFollow, stored \in Seq(Writes), stored' \in Seq(Writes), Begins(stored, stored'),
           query' = query, client' = client, cursor' \in 0..Len(stored'),
           Watching = {} \/ ToTell \cup WrittenAfter(stored, stored') \subseteq ToTell',
           Opening = {} \/ UNCHANGED <<view, stored, pending>>
    PROVE  AllFollow'
<1>1. Watching' = Watching /\ Opening' = Opening
  BY DEF Watching, Opening
<1>2. ASSUME NEW w \in Watching, Args[w].skip = 0
      PROVE  Follows(w, query[w].full, client[w], stored', ToTell')
  <2>1. Follows(w, query[w].full, client[w], stored, ToTell)
    BY <1>2 DEF AllFollow
  <2>2. ToTell \cup WrittenAfter(stored, stored') \subseteq ToTell'
    OBVIOUS
  <2> QED
    BY <2>1, <2>2, FollowsOn
<1>3. ASSUME NEW w \in Opening
      PROVE  query[w].full = Find(w, stored') /\ client[w] = ToSet(query[w].full)
  BY <1>3 DEF AllFollow
<1>4. Opening # {} => view' = stored' /\ pending' = {}
  BY DEF AllFollow
<1> QED
  BY <1>1, <1>2, <1>3, <1>4 DEF AllFollow

LEMMA DataTyped ==
    /\ WatchInv => stored \in Seq(Writes) /\ view \in Seq(Writes) /\ TxInv
    /\ WatchInv' => stored' \in Seq(Writes) /\ view' \in Seq(Writes)
BY DEF WatchInv, TxInv, TxTyped

LEMMA ClosedDepth == TxInv => ((saves = << >>) <=> (depth = 0)) /\ asyncDepth = depth
BY SavesAt DEF TxInv, Nested

(* What a write outside any transaction does to what is committed. *)
LEMMA WrittenOutside ==
    ASSUME WatchInv, WatchInv', NEW d \in Docs, NEW v \in Values, saves = << >>,
           stored' = Append(stored, Written(d, v)), view' = stored', UNCHANGED <<depth>>
    PROVE  Layered' /\ Begins(stored, stored') /\ WrittenAfter(stored, stored') = {d}
<1>1. /\ stored \in Seq(Writes) /\ view' \in Seq(Writes) /\ TxInv /\ depth = 0
      /\ Written(d, v) \in Writes /\ Written(d, v).doc = d
  <2>1. used \in Nat
    BY DEF WatchInv, TxInv, TxTyped
  <2> QED
    BY <2>1, DataTyped, ClosedDepth DEF Written, Writes
<1>2. Layered'
  BY <1>1, LayeredOutside
<1> QED
  BY <1>1, <1>2, BeginsLonger

LEMMA PlainWritesFollow ==
    ASSUME CatchInv, WatchInv', PlainWrites
    PROVE  CatchInv'
<1>1. /\ TxInv /\ stored \in Seq(Writes) /\ stored' \in Seq(Writes)
  BY DataTyped DEF CatchInv
<1>2. PICK d \in Docs, v \in Values :
         /\ PlainWrite(d, v) /\ Opening = {} /\ Notifies({d}, view') /\ OnlyNotified
  BY DEF PlainWrites
<1>3. saves = << >> /\ view = stored
  BY <1>1, <1>2, ClosedDepth DEF PlainWrite, TxInv, Grown
<1>4. stored' = Append(stored, Written(d, v)) /\ view' = stored' /\ depth' = depth
  BY <1>2, <1>3 DEF PlainWrite, Stores, InTx
<1>5. Layered' /\ Begins(stored, stored') /\ WrittenAfter(stored, stored') = {d}
  BY <1>3, <1>4, WrittenOutside DEF CatchInv
<1>6. ASSUME AllFollow PROVE AllFollow'
  <2>1. /\ cursor' \in 0..Len(stored')
        /\ Watching = {} \/ ToTell \cup WrittenAfter(stored, stored') \subseteq ToTell'
    BY <1>1, <1>2, <1>4, <1>5, <1>6, NotifiedOf DEF AllFollow, OnlyNotified
  <2> QED
    BY <1>1, <1>2, <1>5, <1>6, <2>1, FollowersKept DEF OnlyNotified
<1> QED
  BY <1>2, <1>5, <1>6 DEF CatchInv, OnlyNotified, Watching

LEMMA OthersWriteFollow ==
    ASSUME CatchInv, WatchInv', OthersWrite
    PROVE  CatchInv'
<1>1. /\ TxInv /\ stored \in Seq(Writes) /\ stored' \in Seq(Writes)
  BY DataTyped DEF CatchInv
<1>2. PICK d \in Docs, v \in Values :
         /\ feedOn /\ OtherProcess(d, v)
         /\ slipped' = (slipped \/ Opening # {})
         /\ UNCHANGED <<feedOn, query, client, cursor, polling, pending, dirty>>
  BY DEF OthersWrite
<1>3. /\ saves = << >> /\ stored' = Append(stored, Written(d, v)) /\ view' = stored'
      /\ depth' = depth
  BY <1>2 DEF OtherProcess, InTx
<1>4. Layered' /\ Begins(stored, stored') /\ WrittenAfter(stored, stored') = {d}
  BY <1>3, WrittenOutside DEF CatchInv
<1>5. ASSUME AllFollow, Opening = {} PROVE AllFollow'
  <2>1. cursor' \in 0..Len(stored')
    BY <1>1, <1>2, <1>4, <1>5, LenProperties DEF AllFollow, Begins
  <2>2. Beyond(stored', cursor) = Beyond(stored, cursor) \cup WrittenAfter(stored, stored')
    BY <1>1, <1>4, <1>5, BeyondOn DEF AllFollow
  <2>3. ToTell \cup WrittenAfter(stored, stored') \subseteq ToTell'
    BY <1>2, <2>2 DEF ToTell
  <2> QED
    BY <1>1, <1>2, <1>4, <1>5, <2>1, <2>3, FollowersKept
<1> QED
  BY <1>2, <1>4, <1>5 DEF CatchInv, Watching

LEMMA CommittedFollow ==
    ASSUME CatchInv, WatchInv', Committed
    PROVE  CatchInv'
<1>1. /\ TxInv /\ stored \in Seq(Writes) /\ stored' \in Seq(Writes)
  BY DataTyped DEF CatchInv
<1>2. PICK f \in Flows :
         /\ Commits(f) /\ Quiet
         /\ IF hooks = {} THEN UNCHANGED <<cursor, pending>> ELSE Notifies(hooks, stored')
         /\ OnlyNotified
  BY DEF Committed
<1>3. stored' = view /\ view' = view /\ depth = 1 /\ depth' = 0 /\ saves' = << >>
  BY <1>2 DEF Commits
<1>4. Layered'
  BY <1>1, <1>3, LayeredAfterKeep DEF CatchInv
<1>5. Begins(stored, stored') /\ WrittenAfter(stored, stored') \subseteq hooks
  BY <1>1, <1>3, StoredBegins DEF CatchInv, Layered
<1>6. ASSUME AllFollow PROVE AllFollow'
  <2>1. /\ cursor' \in 0..Len(stored')
        /\ Watching = {} \/ ToTell \cup WrittenAfter(stored, stored') \subseteq ToTell'
    <3>1. CASE hooks = {}
      <4>1. cursor' \in 0..Len(stored')
        BY <1>1, <1>2, <1>5, <1>6, <3>1, LenProperties DEF AllFollow, Begins
      <4>2. Beyond(stored', cursor) = Beyond(stored, cursor) \cup WrittenAfter(stored, stored')
        BY <1>1, <1>5, <1>6, BeyondOn DEF AllFollow
      <4> QED
        BY <1>2, <1>5, <3>1, <4>1, <4>2 DEF ToTell, OnlyNotified
    <3>2. CASE hooks # {}
      BY <1>1, <1>2, <1>5, <1>6, <3>2, NotifiedOf DEF AllFollow, OnlyNotified
    <3> QED
      BY <3>1, <3>2
  <2> QED
    BY <1>1, <1>2, <1>5, <1>6, <2>1, FollowersKept DEF OnlyNotified, Quiet
<1> QED
  BY <1>2, <1>4, <1>6 DEF CatchInv, OnlyNotified, Watching

(* A step that leaves the watchers and what is committed alone. *)
LEMMA SilentFollow ==
    ASSUME CatchInv, WatchInv', Layered', stored' = stored, Silent, Opening = {} \/ view' = view
    PROVE  CatchInv'
<1>1. stored \in Seq(Writes) /\ Begins(stored, stored) /\ WrittenAfter(stored, stored) = {}
  BY DataTyped, BeginsItself DEF CatchInv
<1>2. UNCHANGED <<feedOn, query, client, cursor, polling, pending, dirty, slipped>>
  BY DEF Silent, liveVars
<1>3. ASSUME AllFollow PROVE AllFollow'
  <2>1. cursor' \in 0..Len(stored') /\ ToTell' = ToTell
    BY <1>2, <1>3 DEF AllFollow, ToTell
  <2> QED
    BY <1>1, <1>2, <1>3, <2>1, FollowersKept
<1> QED
  BY <1>2, <1>3 DEF CatchInv, Watching

LEMMA TurnsFollow ==
    ASSUME ~Parallel, CatchInv, WatchInv', Turns
    PROVE  CatchInv'
<1>1. TxInv /\ Layered
  BY DataTyped DEF CatchInv
<1>2. PICK f \in Flows :
         /\ \/ Call(f) \/ Start(f) \/ StartFails(f) \/ CallWithin(f)
            \/ CommitFails(f) \/ Releases(f) \/ Throws(f)
         /\ Quiet /\ Silent
  BY DEF Turns
<1>3. CASE Call(f) \/ StartFails(f)
  <2>1. UNCHANGED <<stored, view, saves, depth, hooks>>
    BY <1>3 DEF Call, StartFails
  <2> QED
    BY <1>1, <1>2, <2>1, SilentFollow DEF Layered
<1>4. CASE Start(f) \/ CallWithin(f)
  BY <1>1, <1>2, <1>4, LayeredAfterOpen, SilentFollow DEF Start, CallWithin
<1>5. CASE CommitFails(f) \/ Throws(f)
  <2>1. \E left \in Int : Runs(f) /\ (depth # 1 => left = depth - 1) /\ RollsBack(f, left)
    <3>1. depth - 1 \in Int /\ -1 \in Int
      BY <1>1 DEF TxInv, TxTyped
    <3> QED
      BY <1>5, <3>1 DEF CommitFails, Throws
  <2>2. Layered' /\ stored' = stored
    BY <1>1, <2>1, LayeredAfterRollback, RollbackDoes
  <2> QED
    BY <1>2, <2>2, SilentFollow DEF Quiet
<1>6. CASE Releases(f)
  <2>1. depth \in Nat /\ depth > 1 /\ SaveOf(f) = depth
    BY <1>1, <1>6, RunsInnermost, SavepointOf, SMTT(40) DEF Releases, TxInv, TxTyped
  <2>2. /\ saves' = SubSeq(saves, 1, depth - 1) /\ depth' = depth - 1 /\ view' = view
        /\ hooks' = hooks /\ stored' = IF saves' = << >> THEN view ELSE stored
    BY <1>6, <2>1 DEF Releases
  <2>3. saves' # << >>
    <3>1. Len(saves') = depth - 1 /\ Len(saves') # 0
      BY <1>1, <2>1, <2>2, Cut DEF TxInv, Nested
    <3> QED
      BY <3>1, EmptySeq
  <2>4. stored' = stored
    BY <2>2, <2>3
  <2>5. Layered'
    BY <1>1, <2>1, <2>2, <2>4, LayeredAfterKeep
  <2> QED
    BY <1>2, <2>4, <2>5, SilentFollow DEF Quiet
<1> QED
  BY <1>2, <1>3, <1>4, <1>5, <1>6

LEMMA WritesInsideFollow ==
    ASSUME CatchInv, WatchInv', WritesInside
    PROVE  CatchInv'
<1>1. PICK f \in Flows, d \in Docs, v \in Values : Write(f, d, v) /\ Quiet /\ Silent
  BY DEF WritesInside
<1>2. Layered' /\ stored' = stored
  BY <1>1, DataTyped, LayeredAfterWrite DEF CatchInv
<1> QED
  BY <1>1, <1>2, SilentFollow DEF Quiet

LEMMA PollFollow ==
    ASSUME CatchInv, WatchInv', Poll
    PROVE  CatchInv'
<1>1. /\ TxInv /\ stored \in Seq(Writes) /\ Begins(stored, stored)
      /\ WrittenAfter(stored, stored) = {} /\ Len(stored) \in Nat
  BY DataTyped, BeginsItself, LenProperties DEF CatchInv
<1>2. /\ Opening = {} /\ Drains(view) /\ dirty' = (dirty \/ Uncommitted)
      /\ UNCHANGED <<stored, view, saves, depth, hooks, feedOn, query, client, polling, slipped>>
  BY DEF Poll, Quiet, txVars
<1>3. ASSUME AllFollow, ~Uncommitted PROVE AllFollow'
  <2>1. view = stored
    BY <1>1, <1>3, ReadsCommitted
  <2>2. cursor \in 0..Len(stored)
    BY <1>3 DEF AllFollow
  <2>3. CASE Watching = {}
    <3>1. cursor' = cursor /\ pending' = pending
      BY <1>2, <2>3 DEF Drains
    <3> QED
      BY <1>1, <1>2, <1>3, <2>2, <2>3, <3>1, FollowersKept
  <2>4. CASE Watching # {}
    <3>1. cursor' = Len(stored) /\ pending' = pending \cup Beyond(stored, cursor)
      BY <1>1, <1>2, <2>1, <2>2, <2>4, DrainsAll
    <3>2. ToTell \subseteq ToTell' /\ cursor' \in 0..Len(stored)
      BY <1>1, <3>1 DEF ToTell
    <3> QED
      BY <1>1, <1>2, <1>3, <3>2, FollowersKept
  <2> QED
    BY <2>3, <2>4
<1>4. Layered'
  BY <1>2 DEF CatchInv, Layered
<1> QED
  BY <1>2, <1>3, <1>4 DEF CatchInv, Watching

LEMMA FlushFollow ==
    ASSUME CatchInv, WatchInv', Flush
    PROVE  CatchInv'
<1> DEFINE told == {w \in Watching : Relevant(w, pending)}
<1>1. /\ pending # {} /\ Opening = {} /\ pending' = {}
      /\ UNCHANGED <<txVars, feedOn, cursor, polling, dirty, slipped>>
      /\ \A w \in Watchers :
            /\ w \in told => query'[w] = [query[w] EXCEPT !.full = Find(w, view)]
            /\ w \notin told => query'[w] = query[w]
            /\ w \in told => client'[w] =
                  IF Suppressed(w, query[w].full, Find(w, view), pending) THEN client[w]
                  ELSE Replayed(client[w], query[w].full, Find(w, view), pending)
            /\ w \notin told => client'[w] = client[w]
      /\ DOMAIN client' = Watchers
  BY DEF Flush
<1>2. /\ stored \in Seq(Writes) /\ query \in [Watchers -> Queries]
      /\ UNCHANGED <<stored, view, saves, depth, hooks>>
  BY <1>1, DataTyped DEF CatchInv, WatchInv, txVars
<1> HIDE DEF told
<1>3. \A w \in Watchers :
         /\ query'[w].state = query[w].state
         /\ w \in told => query'[w].full = Find(w, view)
         /\ w \notin told => query'[w].full = query[w].full
  <2> TAKE w \in Watchers
  <2>1. query[w] \in Queries
    BY <1>2
  <2>2. /\ [query[w] EXCEPT !.full = Find(w, view)].state = query[w].state
        /\ [query[w] EXCEPT !.full = Find(w, view)].full = Find(w, view)
    BY <2>1 DEF Queries
  <2> QED
    BY <1>1, <2>2
<1>4. Watching' = Watching /\ Opening' = {}
  BY <1>1, <1>3 DEF Watching, Opening
<1>5. ASSUME AllFollow, view = stored PROVE AllFollow'
  <2>1. ToTell \subseteq pending \cup ToTell' /\ cursor' \in 0..Len(stored')
    BY <1>1, <1>2, <1>5 DEF ToTell, AllFollow
  <2>2. ASSUME NEW w \in Watching, Args[w].skip = 0
        PROVE  Follows(w, query'[w].full, client'[w], stored, ToTell')
    <3>1. Follows(w, query[w].full, client[w], stored, ToTell) /\ w \in Watchers
      BY <1>5, <2>2 DEF AllFollow, Watching
    <3>2. CASE w \in told
      <4>1. /\ query'[w].full = Find(w, stored)
            /\ client'[w] = IF Suppressed(w, query[w].full, Find(w, stored), pending) THEN client[w]
                  ELSE Replayed(client[w], query[w].full, Find(w, stored), pending)
        BY <1>1, <1>3, <1>5, <3>1, <3>2
      <4> QED
        BY <1>2, <2>1, <2>2, <3>1, <4>1, FollowsChange
    <3>3. CASE w \notin told
      <4>1. ~Relevant(w, pending)
        BY <2>2, <3>3 DEF told
      <4>2. NoneOf(pending, query[w].full, stored)
        BY <1>5, <4>1 DEF Relevant, NoneOf
      <4>3. query'[w].full = query[w].full /\ client'[w] = client[w] /\ query[w].full \in Seq(Entries)
        BY <1>1, <1>2, <1>3, <3>1, <3>3 DEF Queries
      <4>4. Follows(w, query[w].full, client[w], stored, ToTell')
        BY <1>2, <2>1, <3>1, <4>2, <4>3, FollowsRest
      <4> QED
        BY <4>3, <4>4
    <3> QED
      BY <3>2, <3>3
  <2> QED
    BY <1>2, <1>4, <2>1, <2>2 DEF AllFollow
<1>6. dirty \/ view = stored
  BY <1>1 DEF CatchInv, WatchInv
<1> QED
  BY <1>1, <1>2, <1>4, <1>5, <1>6 DEF CatchInv, Layered

LEMMA WatchReadsFollow ==
    ASSUME CatchInv, WatchInv', NEW w \in Watchers, WatchReads(w)
    PROVE  CatchInv'
<1>1. /\ query[w].state = "off" /\ Opening = {} /\ pending = {}
      /\ query' = [query EXCEPT ![w] = [state |-> "opening", full |-> Find(w, view)]]
      /\ client' = [client EXCEPT ![w] = ToSet(Find(w, view))]
      /\ dirty' = (dirty \/ Uncommitted)
      /\ UNCHANGED <<txVars, feedOn, cursor, polling, pending, slipped>>
  BY DEF WatchReads, Quiet
<1>2. /\ TxInv /\ query \in [Watchers -> Queries] /\ DOMAIN client = Watchers
      /\ UNCHANGED <<stored, view, saves, depth, hooks>>
  BY <1>1, DataTyped DEF CatchInv, WatchInv, txVars
<1>3. Watching' = Watching /\ Opening' = {w}
  BY <1>1, <1>2 DEF Watching, Opening
<1>4. /\ query'[w].full = Find(w, view) /\ client'[w] = ToSet(Find(w, view))
      /\ \A u \in Watching : query'[u] = query[u] /\ client'[u] = client[u]
      /\ DOMAIN client' = Watchers
  BY <1>1, <1>2 DEF Watching
<1>5. ASSUME AllFollow, ~Uncommitted PROVE AllFollow'
  <2>1. view = stored /\ ToTell' = ToTell
    BY <1>1, <1>2, <1>5, ReadsCommitted DEF ToTell
  <2> QED
    BY <1>1, <1>2, <1>3, <1>4, <1>5, <2>1 DEF AllFollow
<1> QED
  BY <1>1, <1>2, <1>3, <1>4, <1>5 DEF CatchInv, Layered

LEMMA WatchRegistersFollow ==
    ASSUME CatchInv, WatchInv', NEW w \in Watchers, WatchRegisters(w)
    PROVE  CatchInv'
<1>1. /\ query[w].state = "opening"
      /\ query' = [query EXCEPT ![w].state = "on"]
      /\ polling' = feedOn
      /\ cursor' = IF feedOn /\ ~polling THEN Len(view) ELSE cursor
      /\ UNCHANGED <<txVars, feedOn, client, pending, dirty, slipped>>
  BY DEF WatchRegisters
<1>2. /\ stored \in Seq(Writes) /\ Len(stored) \in Nat /\ query \in [Watchers -> Queries]
      /\ UNCHANGED <<stored, view, saves, depth, hooks>>
  BY <1>1, DataTyped, LenProperties DEF CatchInv, WatchInv, txVars
<1>3. /\ Watching' = Watching \cup {w} /\ Opening' = Opening \ {w} /\ w \in Opening
      /\ \A u \in Watchers : query'[u].full = query[u].full
  BY <1>1, <1>2 DEF Watching, Opening, Queries
<1>4. ASSUME AllFollow PROVE AllFollow'
  <2>1. view = stored /\ pending = {} /\ cursor \in 0..Len(stored)
    BY <1>3, <1>4 DEF AllFollow
  <2>2. cursor' \in 0..Len(stored)
    BY <1>1, <1>2, <2>1
  <2>3. Watching = {} \/ ToTell' = ToTell
    <3>1. CASE feedOn /\ ~polling
      BY <3>1 DEF CatchInv
    <3>2. CASE ~(feedOn /\ ~polling)
      BY <1>1, <1>2, <3>2 DEF ToTell
    <3> QED
      BY <3>1, <3>2
  <2>4. ASSUME NEW u \in Watching', Args[u].skip = 0
        PROVE  Follows(u, query[u].full, client[u], stored, ToTell')
    <3>1. CASE u = w
      <4>1. query[u].full = Find(u, stored) /\ client[u] = ToSet(query[u].full)
        BY <1>3, <1>4, <3>1 DEF AllFollow
      <4> QED
        BY <1>2, <2>4, <3>1, <4>1, FollowsNow
    <3>2. CASE u # w
      <4>1. u \in Watching
        BY <1>3, <2>4, <3>2
      <4> QED
        BY <1>4, <2>3, <2>4, <4>1 DEF AllFollow
    <3> QED
      BY <3>1, <3>2
  <2>5. \A u \in Watching' : query'[u].full = query[u].full
    BY <1>3 DEF Watching
  <2>6. \A u \in Opening' : query'[u].full = Find(u, stored) /\ client[u] = ToSet(query'[u].full)
    BY <1>3, <1>4 DEF AllFollow, Opening
  <2> QED
    BY <1>1, <1>2, <2>1, <2>2, <2>4, <2>5, <2>6 DEF AllFollow
<1> QED
  BY <1>1, <1>2, <1>4 DEF CatchInv, Layered

LEMMA UnwatchFollow ==
    ASSUME CatchInv, WatchInv', NEW w \in Watchers, Unwatch(w)
    PROVE  CatchInv'
<1>1. /\ Opening = {}
      /\ query' = [query EXCEPT ![w].state = "off"]
      /\ polling' = (polling /\ Watching # {w})
      /\ UNCHANGED <<txVars, feedOn, client, cursor, pending, dirty, slipped>>
  BY DEF Unwatch
<1>2. /\ query \in [Watchers -> Queries]
      /\ UNCHANGED <<stored, view, saves, depth, hooks>>
  BY <1>1 DEF CatchInv, WatchInv, txVars
<1>3. /\ Watching' = Watching \ {w} /\ Opening' = {}
      /\ \A u \in Watchers : query'[u].full = query[u].full
  BY <1>1, <1>2 DEF Watching, Opening, Queries
<1>4. feedOn' /\ Watching' # {} => polling'
  BY <1>1, <1>3 DEF CatchInv
<1>5. ASSUME AllFollow PROVE AllFollow'
  <2>1. ToTell' = ToTell
    BY <1>1, <1>2 DEF ToTell
  <2>2. \A u \in Watching' : u \in Watching /\ query'[u].full = query[u].full
    BY <1>3 DEF Watching
  <2> QED
    BY <1>1, <1>2, <1>3, <1>5, <2>1, <2>2 DEF AllFollow
<1> QED
  BY <1>1, <1>2, <1>4, <1>5 DEF CatchInv, Layered

LEMMA CatchInit == Init => CatchInv
<1> SUFFICES ASSUME Init PROVE CatchInv
  OBVIOUS
<1>1. WatchInv
  BY WatchInit
<1>2. /\ stored = << >> /\ view = << >> /\ depth = 0 /\ cursor = 0 /\ hooks = {}
      /\ query = [w \in Watchers |-> [state |-> "off", full |-> << >>]]
      /\ client = [w \in Watchers |-> {}]
  BY DEF Init, TxInit, LiveInit
<1>3. Watching = {} /\ Opening = {} /\ DOMAIN client = Watchers
  BY <1>2 DEF Watching, Opening
<1>4. Layered
  <2>1. WrittenAfter(stored, view) = {}
    BY <1>1, <1>2, DataTyped, BeginsItself
  <2> QED
    BY <1>2, <2>1 DEF Layered
<1>5. AllFollow
  <2>1. Len(stored) \in Nat
    BY <1>1, DataTyped, LenProperties
  <2> QED
    BY <1>2, <1>3, <2>1 DEF AllFollow
<1> QED
  BY <1>1, <1>3, <1>4, <1>5 DEF CatchInv

LEMMA CatchStep ==
    ASSUME ~Parallel, CatchInv, [Next]_vars
    PROVE  CatchInv'
<1>1. WatchInv'
  BY WatchStep DEF CatchInv
<1>2. CASE UNCHANGED vars
  <2>1. UNCHANGED <<stored, view, saves, depth, hooks>> /\ Silent
    BY <1>2 DEF vars, txVars, Silent
  <2>2. Layered'
    BY <2>1 DEF CatchInv, Layered
  <2> QED
    BY <1>1, <2>1, <2>2, SilentFollow
<1>3. CASE PlainWrites \/ WritesInside \/ Committed \/ Turns \/ OthersWrite \/ Poll \/ Flush
  BY <1>1, <1>3, PlainWritesFollow, WritesInsideFollow, CommittedFollow, TurnsFollow,
     OthersWriteFollow, PollFollow, FlushFollow
<1>4. CASE \E w \in Watchers : WatchReads(w) \/ WatchRegisters(w) \/ Unwatch(w)
  BY <1>1, <1>4, WatchReadsFollow, WatchRegistersFollow, UnwatchFollow
<1> QED
  BY <1>2, <1>3, <1>4 DEF Next

LEMMA CatchInvShows == CatchInv => CaughtUpIsCurrent
<1> SUFFICES ASSUME CatchInv, Quiet, feedOn => cursor >= Len(stored), ~dirty, ~slipped,
                    NEW w \in Watching, Args[w].skip = 0
             PROVE  /\ query[w].full = Find(w, stored)
                    /\ {e.id : e \in client[w]} = Ids(query[w].full)
                    /\ Args[w].fields = {} => client[w] = ToSet(query[w].full)
  BY DEF CaughtUpIsCurrent
<1>1. /\ stored \in Seq(Writes) /\ Len(stored) \in Nat /\ w \in Watchers
      /\ query[w].full \in Seq(Entries)
  BY DataTyped, LenProperties DEF CatchInv, WatchInv, Watching, Queries
<1>2. cursor \in 0..Len(stored) /\ Follows(w, query[w].full, client[w], stored, ToTell)
  BY DEF CatchInv, AllFollow
<1>3. ToTell = {}
  <2>1. feedOn => (cursor + 1)..Len(stored) = {}
    BY <1>1, <1>2
  <2> QED
    BY <2>1 DEF ToTell, Beyond, Quiet
<1> QED
  BY <1>1, <1>2, <1>3, FollowsAll

(* A watcher that has been told of everything holds what its query finds,   *)
(* and so does a client that goes by its events (computeLiveEvent(),        *)
(* drainReactor() and flush() of the Reactor).                              *)
THEOREM WatchersHoldWhatTheyFind == ~Parallel => (MCSpec => []WatchersCatchUp)
<1> SUFFICES ASSUME ~Parallel PROVE MCSpec => []WatchersCatchUp
  OBVIOUS
<1> DEFINE Inv == part.kind = "sqlite" => CatchInv
<1>1. MCInit => Inv
  <2> SUFFICES ASSUME MCInit, part.kind = "sqlite" PROVE CatchInv
    OBVIOUS
  <2>1. Init
    BY DEF MCInit, Parts
  <2> QED
    BY <2>1, CatchInit
<1>2. Inv /\ [MCNext]_mcVars => Inv'
  <2> SUFFICES ASSUME Inv, [MCNext]_mcVars, part'.kind = "sqlite" PROVE CatchInv'
    OBVIOUS
  <2>1. part' = part
    BY DEF MCNext, mcVars
  <2>2. [Next]_vars /\ CatchInv
    BY <2>1 DEF MCNext, mcVars
  <2> QED
    BY <2>2, CatchStep
<1>3. Inv => WatchersCatchUp
  BY CatchInvShows DEF WatchersCatchUp
<1> QED
  BY <1>1, <1>2, <1>3, PTL DEF MCSpec

-----------------------------------------------------------------------------
(* Channels, in the behaviours of MCLive that are of them.                  *)

KK == INSTANCE KvChannelsProofs
        WITH cursor <- seen, Subscribers <- {s1, s2}, Channels <- {here, there},
             ProcessOf <- s1 :> p1 @@ s2 :> p1, ChannelOf <- s1 :> here @@ s2 :> here,
             MaxMessages <- 2, MaxTime <- 1, KeepFor <- 0, MaxDepth <- 2

ChannelPart == part.kind = "channels" => KK!ChannelsInv

(* The channels of the model and those of their proofs take the same steps. *)
LEMMA ChannelsAlike == [K!Next]_channelVars => [KK!Next]_(KK!vars)
<1> SUFFICES ASSUME [K!Next]_channelVars PROVE [KK!Next]_(KK!vars)
  OBVIOUS
<1> USE DEF K!logVars, KK!logVars, K!Min, KK!Min, K!Max, KK!Max, K!ToSet, KK!ToSet, K!Least,
        KK!Least, K!Readable, KK!Readable, K!Unread, KK!Unread, K!Drain, KK!Drain, K!Runs, KK!Runs
<1>1. K!Tick => KK!Tick
  BY DEF K!Tick, KK!Tick, K!TickClock, KK!TickClock
<1>2. ASSUME NEW p \in Processes
      PROVE  /\ \A ch \in {here, there} : K!Publish(p, ch) => KK!Publish(p, ch)
             /\ K!Poll(p) => KK!Poll(p)
             /\ K!DrainStep(p) => KK!DrainStep(p)
             /\ K!DrainEnds(p) => KK!DrainEnds(p)
             /\ K!Stop(p) => KK!Stop(p)
             /\ \A s \in {s1, s2} : K!Subscribe(p, s) => KK!Subscribe(p, s)
             /\ \A s \in {s1, s2} : K!Unsubscribe(p, s) => KK!Unsubscribe(p, s)
  <2>1. ASSUME NEW ch \in {here, there}, K!Publish(p, ch) PROVE KK!Publish(p, ch)
    BY <2>1 DEF K!Publish, KK!Publish, K!Pruned, KK!Pruned, K!Message, KK!Message
  <2>2. K!Poll(p) => KK!Poll(p)
    BY DEF K!Poll, KK!Poll
  <2>3. K!DrainStep(p) => KK!DrainStep(p)
    BY DEF K!DrainStep, KK!DrainStep, K!Hears, KK!Hears, K!Advance, KK!Advance
  <2>4. K!DrainEnds(p) => KK!DrainEnds(p)
    BY DEF K!DrainEnds, KK!DrainEnds
  <2>5. K!Stop(p) => KK!Stop(p)
    BY DEF K!Stop, KK!Stop, K!StopTimer, KK!StopTimer
  <2>6. ASSUME NEW s \in {s1, s2}, K!Subscribe(p, s) PROVE KK!Subscribe(p, s)
    BY <2>6 DEF K!Subscribe, KK!Subscribe, K!Joins, KK!Joins, K!Highest, KK!Highest
  <2>7. ASSUME NEW s \in {s1, s2}, K!Unsubscribe(p, s) PROVE KK!Unsubscribe(p, s)
    BY <2>7 DEF K!Unsubscribe, KK!Unsubscribe, K!Leaves, KK!Leaves, K!RemoveAt, KK!RemoveAt
  <2> QED
    BY <2>1, <2>2, <2>3, <2>4, <2>5, <2>6, <2>7
<1>3. UNCHANGED channelVars => UNCHANGED KK!vars
  BY DEF channelVars, KK!vars
<1> QED
  BY <1>1, <1>2, <1>3 DEF K!Next, KK!Next

LEMMA ChannelPartInit == MCInit => ChannelPart
<1> SUFFICES ASSUME MCInit PROVE ChannelPart
  OBVIOUS
<1>1. KK!Init
  BY DEF MCInit, K!Init, KK!Init, K!LogInit, KK!LogInit
<1> QED
  BY <1>1, KK!ChannelsInit DEF ChannelPart

LEMMA ChannelPartStep == ChannelPart /\ [MCNext]_mcVars => ChannelPart'
<1> SUFFICES ASSUME ChannelPart, [MCNext]_mcVars, part.kind = "channels" PROVE KK!ChannelsInv'
  BY DEF ChannelPart, MCNext, mcVars
<1>1. [K!Next]_channelVars
  BY DEF MCNext, mcVars
<1>2. [KK!Next]_(KK!vars)
  BY <1>1, ChannelsAlike
<1> QED
  BY <1>2, KK!ChannelsStep DEF ChannelPart

(* A subscriber hears each message of its channel at most once, in order,   *)
(* and none that is kept is passed over, in the behaviours of MCLive        *)
(* (drainPubsub() of kv()).                                                 *)
THEOREM MessagesHeardOnce == MCSpec => []HeardOnceInOrder
<1>1. ChannelPart => HeardOnceInOrder
  BY DEF ChannelPart, HeardOnceInOrder, KK!ChannelsInv, K!OnceInOrder, KK!OnceInOrder,
     K!NonePassedOver, KK!NonePassedOver, K!ToSet, KK!ToSet
<1> QED
  BY <1>1, ChannelPartInit, ChannelPartStep, PTL DEF MCSpec
=============================================================================
