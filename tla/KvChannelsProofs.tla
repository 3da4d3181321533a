-------------------------- MODULE KvChannelsProofs --------------------------
(***************************************************************************)
(* Channels on SQLite: a subscriber gets the messages of its channel once, *)
(* in order, and none is passed over, for any processes, subscribers and   *)
(* channels, and any nesting of drains within the callbacks of drains.     *)
(*                                                                         *)
(* A drain holds the rows that it read, and these may be old when it comes *)
(* to the next one: a callback may have drained further, and another       *)
(* process may have pruned.  What stays true of it (Serves) is that the    *)
(* rows have no gap a subscriber could fall into: every message that is    *)
(* kept, past the subscriber's cursor and not past the last of the rows is *)
(* one of them, and what the loop has offered is not past the cursor.      *)
(***************************************************************************)
EXTENDS KvChannels, SequenceTheorems, NaturalsInduction, WellFoundedInduction, TLAPS

Messages == [channel : Channels, ts : Nat, state : {"kept", "pruned"}]

Frames == [calling : BOOLEAN, who : Seq(Subscribers), rows : SUBSET Nat, left : SUBSET Nat]

ChannelsTyped ==
    /\ log \in Seq(Messages) /\ clock \in Nat
    /\ subs \in [Processes -> Seq(Subscribers)]
    /\ cursor \in [Subscribers -> Nat]
    /\ since \in [Subscribers -> SUBSET Nat]
    /\ delivered \in [Subscribers -> Seq(Nat)]
    /\ stack \in [Processes -> Seq(Frames)]

(* A subscriber has seen what is kept of what was there before it.          *)
Caught(rows, c, from) == \A n \in from \cap DOMAIN rows : rows[n].state = "kept" => n <= c

(* The cursor of a subscriber, against the log and what it got.             *)
CursorOf(s) ==
    /\ since[s] \subseteq 0..Len(log)
    /\ since[s] = {} => delivered[s] = << >>
    /\ cursor[s] <= Len(log)
    /\ Caught(log, cursor[s], since[s])
    /\ \A i \in DOMAIN delivered[s] :
          delivered[s][i] \in DOMAIN log /\ delivered[s][i] <= cursor[s]

(* Drain f leaves no gap for a subscriber with cursor c in the log l.       *)
Serves(l, c, from, f) ==
    /\ from # {}
    /\ \A n \in f.rows \cap from : n <= c
    /\ \A n \in DOMAIN l :
          l[n].state = "kept" /\ n > c /\ (\E m \in f.rows : n <= m) => n \in f.rows

(* A drain under way, in a log l with the cursors cs.                       *)
Drains(l, cs, froms, f) ==
    /\ f.left \subseteq f.rows /\ f.rows \subseteq DOMAIN l
    /\ \A i \in DOMAIN f.who : Serves(l, cs[f.who[i]], froms[f.who[i]], f)
    /\ f.who # << >> => /\ f.left # {}
                        /\ \A n \in f.rows \ f.left : n <= cs[Head(f.who)]

AllServe(st, l, cs, froms) ==
    \A p \in Processes : \A i \in DOMAIN st[p] : Drains(l, cs, froms, st[p][i])

ChannelsInv ==
    /\ ChannelsTyped
    /\ \A s \in Subscribers : CursorOf(s)
    /\ \A p \in Processes : \A i \in DOMAIN subs[p] : since[subs[p][i]] # {}
    /\ AllServe(stack, log, cursor, since)
    /\ OnceInOrder /\ NonePassedOver

-----------------------------------------------------------------------------
(* The least and the greatest of the sets that the operators take.          *)
LEMMA LeastOne ==
    ASSUME NEW S, S \subseteq Nat, S # {}
    PROVE  Min(S) \in S /\ \A x \in S : Min(S) <= x
<1>1. PICK m \in S : \A x \in S : ~(<<x, m>> \in OpToRel(<, Nat))
  BY NatLessThanWellFounded, WFMin
<1>2. \A x \in S : m <= x
  <2> TAKE x \in S
  <2>1. ~(x < m)
    BY <1>1 DEF OpToRel
  <2> QED
    BY <2>1
<1> QED
  BY <1>2 DEF Min

LEMMA GreatestOfTwo ==
    ASSUME NEW c \in Nat, NEW n \in Nat
    PROVE  /\ Max({c, n}) = IF n > c THEN n ELSE c
           /\ Max({c, n}) \in Nat /\ Max({c, n}) >= c /\ Max({c, n}) >= n
<1>1. \E x \in {c, n} : \A y \in {c, n} : x >= y
  OBVIOUS
<1>2. Max({c, n}) \in {c, n} /\ \A y \in {c, n} : Max({c, n}) >= y
  BY <1>1 DEF Max
<1> HIDE DEF Max
<1> QED
  BY <1>2

LEMMA GreatestOne ==
    ASSUME NEW S, NEW b \in Nat, S \subseteq 0..b, S # {}
    PROVE  Max(S) \in S /\ \A x \in S : x <= Max(S)
<1> DEFINE T == {b - x : x \in S}
<1>1. T \subseteq Nat /\ T # {}
  <2>1. \A x \in S : b - x \in Nat
    OBVIOUS
  <2> QED
    BY <2>1
<1>2. PICK t \in T : \A u \in T : t <= u
  <2> HIDE DEF T
  <2> QED
    BY <1>1, LeastOne
<1>3. PICK m \in S : t = b - m
  OBVIOUS
<1>4. \A x \in S : m >= x
  <2> TAKE x \in S
  <2>1. t <= b - x
    BY <1>2
  <2>2. x \in Nat /\ m \in Nat
    OBVIOUS
  <2> HIDE DEF T
  <2> QED
    BY <1>3, <2>1, <2>2
<1> QED
  BY <1>4 DEF Max

-----------------------------------------------------------------------------
(* A drain goes on serving its subscribers while the log grows and is       *)
(* pruned, and cursors move on.                                             *)
Grows(l, l2) ==
    /\ Len(l) <= Len(l2)
    /\ \A n \in DOMAIN l : /\ l2[n].channel = l[n].channel
                           /\ l2[n].state = "kept" => l[n].state = "kept"

MoveOn(cs, froms, cs2, froms2) ==
    \A s \in Subscribers : froms[s] # {} => froms2[s] = froms[s] /\ cs[s] <= cs2[s]

LEMMA ServesOn ==
    ASSUME NEW l \in Seq(Messages), NEW l2 \in Seq(Messages), NEW c \in Nat, NEW c2 \in Nat,
           NEW from, NEW f, f.rows \subseteq DOMAIN l,
           Grows(l, l2), c <= c2, Serves(l, c, from, f)
    PROVE  Serves(l2, c2, from, f)
<1>1. f.rows \subseteq Nat /\ DOMAIN l = 1..Len(l) /\ DOMAIN l2 = 1..Len(l2)
      /\ Len(l) \in Nat /\ Len(l2) \in Nat
  OBVIOUS
<1>2. \A n \in f.rows \cap from : n <= c2
  BY <1>1 DEF Serves
<1>3. ASSUME NEW n \in DOMAIN l2, l2[n].state = "kept", n > c2, NEW m \in f.rows, n <= m
      PROVE  n \in f.rows
  <2>1. n \in DOMAIN l
    BY <1>1, <1>3
  <2>2. n > c /\ l[n].state = "kept"
    BY <1>1, <1>3, <2>1 DEF Grows
  <2> QED
    BY <1>3, <2>1, <2>2 DEF Serves
<1> QED
  BY <1>2, <1>3 DEF Serves

LEMMA DrainsOn ==
    ASSUME NEW l \in Seq(Messages), NEW l2 \in Seq(Messages),
           NEW cs \in [Subscribers -> Nat], NEW cs2 \in [Subscribers -> Nat],
           NEW froms, NEW froms2, NEW f \in Frames,
           Grows(l, l2), MoveOn(cs, froms, cs2, froms2), Drains(l, cs, froms, f)
    PROVE  Drains(l2, cs2, froms2, f)
<1>1. f.rows \subseteq DOMAIN l /\ f.left \subseteq f.rows /\ f.who \in Seq(Subscribers)
  BY DEF Drains, Frames
<1>2. f.rows \subseteq DOMAIN l2
  <2>1. DOMAIN l = 1..Len(l) /\ DOMAIN l2 = 1..Len(l2) /\ Len(l) <= Len(l2)
        /\ Len(l) \in Nat /\ Len(l2) \in Nat
    BY DEF Grows
  <2> QED
    BY <1>1, <2>1
<1>3. ASSUME NEW i \in DOMAIN f.who
      PROVE  /\ cs[f.who[i]] <= cs2[f.who[i]] /\ froms2[f.who[i]] = froms[f.who[i]]
             /\ Serves(l2, cs2[f.who[i]], froms2[f.who[i]], f)
  <2>1. f.who[i] \in Subscribers
    BY <1>1, ElementOfSeq
  <2>2. Serves(l, cs[f.who[i]], froms[f.who[i]], f)
    BY DEF Drains
  <2>3. froms[f.who[i]] # {}
    BY <2>2 DEF Serves
  <2>4. froms2[f.who[i]] = froms[f.who[i]] /\ cs[f.who[i]] <= cs2[f.who[i]]
    BY <2>1, <2>3 DEF MoveOn
  <2>5. cs[f.who[i]] \in Nat /\ cs2[f.who[i]] \in Nat
    BY <2>1
  <2> QED
    BY <1>1, <2>2, <2>4, <2>5, ServesOn
<1>4. ASSUME f.who # << >>
      PROVE  f.left # {} /\ \A n \in f.rows \ f.left : n <= cs2[Head(f.who)]
  <2>1. 1 \in DOMAIN f.who /\ Head(f.who) = f.who[1] /\ Head(f.who) \in Subscribers
    BY <1>1, <1>4, HeadTailProperties
  <2>2. cs[Head(f.who)] <= cs2[Head(f.who)]
    BY <1>3, <2>1
  <2>3. cs[Head(f.who)] \in Nat /\ cs2[Head(f.who)] \in Nat /\ f.rows \subseteq Nat
    BY <1>1, <2>1
  <2>4. f.left # {} /\ \A n \in f.rows \ f.left : n <= cs[Head(f.who)]
    BY <1>4 DEF Drains
  <2> QED
    BY <2>2, <2>3, <2>4
<1> QED
  BY <1>1, <1>2, <1>3, <1>4 DEF Drains

(* The drain that starts: it has read all that is kept past a number that   *)
(* no cursor is below.                                                      *)
LEMMA DrainStarts ==
    ASSUME NEW l \in Seq(Messages), NEW cs \in [Subscribers -> Nat],
           NEW froms \in [Subscribers -> SUBSET Nat], NEW who \in Seq(Subscribers),
           NEW least \in Nat, NEW rows,
           rows = {n \in DOMAIN l : n > least /\ l[n].state = "kept"},
           \A i \in DOMAIN who : /\ least <= cs[who[i]] /\ froms[who[i]] # {}
                                 /\ Caught(l, cs[who[i]], froms[who[i]])
    PROVE  /\ Drain(who, rows) \in Seq(Frames)
           /\ \A i \in DOMAIN Drain(who, rows) : Drains(l, cs, froms, Drain(who, rows)[i])
<1> DEFINE f == [calling |-> FALSE, who |-> who, rows |-> rows, left |-> rows]
<1>1. CASE who = << >> \/ rows = {}
  BY <1>1 DEF Drain
<1>2. CASE who # << >> /\ rows # {}
  <2>1. f \in Frames
    BY DEF Frames
  <2>2. Drain(who, rows) = <<f>>
    BY <1>2 DEF Drain
  <2>3. ASSUME NEW i \in DOMAIN who
        PROVE  Serves(l, cs[who[i]], froms[who[i]], f)
    <3>1. who[i] \in Subscribers
      BY ElementOfSeq
    <3>2. cs[who[i]] \in Nat /\ least <= cs[who[i]] /\ DOMAIN l \subseteq Nat
      BY <3>1
    <3>3. \A n \in DOMAIN l : l[n].state = "kept" /\ n > cs[who[i]] => n \in rows
      BY <3>2
    <3>4. \A n \in rows \cap froms[who[i]] : n <= cs[who[i]]
      BY DEF Caught
    <3>5. froms[who[i]] # {} /\ f.rows = rows
      OBVIOUS
    <3> HIDE DEF f
    <3> QED
      BY <3>3, <3>4, <3>5 DEF Serves
  <2>4. Drains(l, cs, froms, f)
    BY <1>2, <2>3 DEF Drains
  <2> HIDE DEF f
  <2>5. <<f>> \in Seq(Frames) /\ \A i \in DOMAIN <<f>> : <<f>>[i] = f
    BY <2>1
  <2> QED
    BY <2>2, <2>4, <2>5
<1> QED
  BY <1>1, <1>2

(* The loops go on, when the cursor of the subscriber served is not before  *)
(* the row that was its turn.                                               *)
LEMMA DrainAdvances ==
    ASSUME NEW l \in Seq(Messages), NEW cs \in [Subscribers -> Nat],
           NEW froms, NEW f \in Frames, f.who # << >>, Drains(l, cs, froms, f),
           NEW n \in f.left, n <= cs[Head(f.who)], NEW calls \in BOOLEAN
    PROVE  /\ Advance(f, n, calls) \in Frames
           /\ Drains(l, cs, froms, Advance(f, n, calls))
<1>1. /\ f.left \subseteq f.rows /\ f.rows \subseteq DOMAIN l /\ f.who \in Seq(Subscribers)
      /\ f.rows \subseteq Nat
      /\ \A i \in DOMAIN f.who : Serves(l, cs[f.who[i]], froms[f.who[i]], f)
      /\ \A m \in f.rows \ f.left : m <= cs[Head(f.who)]
  BY DEF Drains, Frames
<1>2. CASE f.left = {n}
  <2> DEFINE g == [calling |-> calls, rows |-> f.rows, who |-> Tail(f.who), left |-> f.rows]
  <2>1. Advance(f, n, calls) = g
    BY <1>2 DEF Advance
  <2>2. /\ Tail(f.who) \in Seq(Subscribers)
        /\ \A i \in DOMAIN Tail(f.who) : i + 1 \in DOMAIN f.who /\ Tail(f.who)[i] = f.who[i + 1]
    BY <1>1, HeadTailProperties
  <2>3. g \in Frames
    BY <1>1, <2>2 DEF Frames
  <2>4. \A i \in DOMAIN g.who : Serves(l, cs[g.who[i]], froms[g.who[i]], g)
    BY <1>1, <2>2 DEF Serves
  <2>5. g.rows = f.rows /\ g.left = f.rows /\ n \in g.left
    BY <1>1
  <2> HIDE DEF g
  <2>6. Drains(l, cs, froms, g)
    BY <1>1, <2>4, <2>5 DEF Drains
  <2> QED
    BY <2>1, <2>3, <2>6
<1>3. CASE f.left # {n}
  <2> DEFINE g == [calling |-> calls, rows |-> f.rows, who |-> f.who, left |-> f.left \ {n}]
  <2>1. Advance(f, n, calls) = g
    BY <1>3 DEF Advance
  <2>2. g \in Frames
    BY <1>1 DEF Frames
  <2>3. \A i \in DOMAIN g.who : Serves(l, cs[g.who[i]], froms[g.who[i]], g)
    BY <1>1 DEF Serves
  <2>4. g.rows = f.rows /\ g.left = f.left \ {n} /\ g.who = f.who
    OBVIOUS
  <2>5. g.left # {}
    BY <1>3, <2>4
  <2> HIDE DEF g
  <2>6. \A m \in g.rows \ g.left : m <= cs[Head(g.who)]
    BY <1>1, <2>4
  <2>7. Drains(l, cs, froms, g)
    BY <1>1, <2>3, <2>4, <2>5, <2>6 DEF Drains
  <2> QED
    BY <2>1, <2>2, <2>7
<1> QED
  BY <1>2, <1>3

-----------------------------------------------------------------------------
(* The steps.  Most leave the cursors and what was delivered as they are.   *)
LEMMA LeastIsLeast ==
    ASSUME ChannelsInv, NEW p \in Processes, subs[p] # << >>
    PROVE  /\ Least(p) \in Nat
           /\ \A i \in DOMAIN subs[p] : /\ subs[p][i] \in Subscribers
                                        /\ Least(p) <= cursor[subs[p][i]]
                                        /\ since[subs[p][i]] # {}
                                        /\ Caught(log, cursor[subs[p][i]], since[subs[p][i]])
<1> DEFINE C == {cursor[s] : s \in ToSet(subs[p])}
<1>1. subs[p] \in Seq(Subscribers) /\ cursor \in [Subscribers -> Nat]
  BY DEF ChannelsInv, ChannelsTyped
<1>2. ToSet(subs[p]) = {subs[p][i] : i \in DOMAIN subs[p]}
  BY DEF ToSet
<1>3. \A i \in DOMAIN subs[p] : subs[p][i] \in Subscribers
  BY <1>1, ElementOfSeq
<1>4. C \subseteq Nat /\ \A i \in DOMAIN subs[p] : cursor[subs[p][i]] \in C
  BY <1>1, <1>2, <1>3
<1>5. 1 \in DOMAIN subs[p]
  BY <1>1
<1>6. Least(p) = Min(C)
  BY DEF Least
<1> HIDE DEF C
<1>7. Min(C) \in Nat /\ \A x \in C : Min(C) <= x
  BY <1>4, <1>5, LeastOne
<1>8. \A i \in DOMAIN subs[p] : since[subs[p][i]] # {} /\ CursorOf(subs[p][i])
  BY <1>3 DEF ChannelsInv
<1> QED
  BY <1>3, <1>4, <1>6, <1>7, <1>8 DEF CursorOf

(* The log grows; the cursors and what was delivered stay. *)
LEMMA LogGrowsOn ==
    ASSUME ChannelsInv, log' \in Seq(Messages), Grows(log, log'), clock' \in Nat,
           UNCHANGED <<subs, cursor, since, delivered>>,
           stack' \in [Processes -> Seq(Frames)],
           AllServe(stack', log', cursor', since')
    PROVE  ChannelsInv'
<1>1. ChannelsTyped'
  BY DEF ChannelsInv, ChannelsTyped
<1>2. /\ log \in Seq(Messages) /\ cursor \in [Subscribers -> Nat]
      /\ since \in [Subscribers -> SUBSET Nat] /\ delivered \in [Subscribers -> Seq(Nat)]
  BY DEF ChannelsInv, ChannelsTyped
<1>3. /\ DOMAIN log = 1..Len(log) /\ DOMAIN log' = 1..Len(log') /\ Len(log) <= Len(log')
      /\ Len(log) \in Nat /\ Len(log') \in Nat /\ DOMAIN log \subseteq DOMAIN log'
  BY <1>2 DEF Grows
<1>4. ASSUME NEW s \in Subscribers PROVE CursorOf(s)'
  <2>1. CursorOf(s)
    BY DEF ChannelsInv
  <2>2. cursor[s] \in Nat /\ since[s] \subseteq 0..Len(log)
    BY <1>2, <2>1 DEF CursorOf
  <2>3. since[s] \subseteq 0..Len(log') /\ cursor[s] <= Len(log')
    BY <1>3, <2>1, <2>2 DEF CursorOf
  <2>4. Caught(log', cursor[s], since[s])
    <3>1. ASSUME NEW n \in since[s] \cap DOMAIN log', log'[n].state = "kept"
          PROVE  n <= cursor[s]
      <4>1. n \in DOMAIN log
        BY <1>3, <2>2, <3>1
      <4> QED
        BY <2>1, <3>1, <4>1 DEF CursorOf, Caught, Grows
    <3> QED
      BY <3>1 DEF Caught
  <2> QED
    BY <1>3, <2>1, <2>3, <2>4 DEF CursorOf
<1>5. OnceInOrder'
  <2>1. OnceInOrder
    BY DEF ChannelsInv
  <2>2. \A s \in Subscribers : \A i \in DOMAIN delivered[s] :
           log'[delivered[s][i]].channel = log[delivered[s][i]].channel
    BY DEF ChannelsInv, CursorOf, Grows
  <2> QED
    BY <2>1, <2>2 DEF OnceInOrder
<1>6. NonePassedOver'
  <2>1. ASSUME NEW s \in Subscribers, since[s] # {}, NEW n \in DOMAIN log' \ since[s],
               n <= cursor[s], log'[n].channel = ChannelOf[s], log'[n].state # "pruned"
        PROVE  n \in ToSet(delivered[s])
    <3>1. n \in DOMAIN log
      <4>1. cursor[s] <= Len(log) /\ cursor[s] \in Nat
        BY <1>2 DEF ChannelsInv, CursorOf
      <4> QED
        BY <1>3, <2>1, <4>1
    <3>2. log'[n].state = "kept" /\ log[n].state = "kept" /\ log[n].channel = ChannelOf[s]
      <4>1. log'[n] \in Messages
        BY ElementOfSeq
      <4> QED
        BY <2>1, <3>1, <4>1 DEF Messages, Grows
    <3> QED
      BY <2>1, <3>1, <3>2 DEF ChannelsInv, NonePassedOver
  <2> QED
    BY <2>1 DEF NonePassedOver
<1>7. \A p \in Processes : \A i \in DOMAIN subs'[p] : since'[subs'[p][i]] # {}
  BY DEF ChannelsInv
<1> QED
  BY <1>1, <1>4, <1>5, <1>6, <1>7 DEF ChannelsInv

LEMMA LogStays == ASSUME NEW l \in Seq(Messages) PROVE Grows(l, l)
BY DEF Grows

LEMMA CaughtOn ==
    ASSUME NEW l \in Seq(Messages), NEW l2 \in Seq(Messages), Grows(l, l2),
           NEW c \in Nat, NEW from, from \subseteq 0..Len(l), Caught(l, c, from)
    PROVE  Caught(l2, c, from)
<1>1. DOMAIN l = 1..Len(l) /\ DOMAIN l2 = 1..Len(l2) /\ Len(l) \in Nat /\ Len(l2) \in Nat
  OBVIOUS
<1>2. ASSUME NEW n \in from \cap DOMAIN l2, l2[n].state = "kept" PROVE n <= c
  <2>1. n \in DOMAIN l
    BY <1>1
  <2> QED
    BY <1>2, <2>1 DEF Caught, Grows
<1> QED
  BY <1>2 DEF Caught

(* What is on a stack after a step: what was there, or a drain that serves. *)
OldOrServing(mine, old, l, cs, froms) ==
    \A i \in DOMAIN mine : \/ Drains(l, cs, froms, mine[i])
                           \/ \E j \in DOMAIN old : mine[i] = old[j]

LEMMA StacksOn ==
    ASSUME NEW l \in Seq(Messages), NEW l2 \in Seq(Messages),
           NEW cs \in [Subscribers -> Nat], NEW cs2 \in [Subscribers -> Nat],
           NEW froms, NEW froms2, NEW st \in [Processes -> Seq(Frames)],
           Grows(l, l2), MoveOn(cs, froms, cs2, froms2), AllServe(st, l, cs, froms)
    PROVE  AllServe(st, l2, cs2, froms2)
<1> SUFFICES ASSUME NEW q \in Processes, NEW i \in DOMAIN st[q]
             PROVE  Drains(l2, cs2, froms2, st[q][i])
  BY DEF AllServe
<1>1. st[q] \in Seq(Frames)
  OBVIOUS
<1>2. st[q][i] \in Frames
  BY <1>1, ElementOfSeq
<1>3. Drains(l, cs, froms, st[q][i])
  BY DEF AllServe
<1> QED
  BY <1>2, <1>3, DrainsOn

LEMMA StacksPut ==
    ASSUME NEW l, NEW cs, NEW froms, NEW st \in [Processes -> Seq(Frames)],
           AllServe(st, l, cs, froms), NEW p \in Processes, NEW mine \in Seq(Frames),
           OldOrServing(mine, st[p], l, cs, froms)
    PROVE  /\ [st EXCEPT ![p] = mine] \in [Processes -> Seq(Frames)]
           /\ AllServe([st EXCEPT ![p] = mine], l, cs, froms)
<1> DEFINE st2 == [st EXCEPT ![p] = mine]
<1>1. st2 \in [Processes -> Seq(Frames)] /\ st2[p] = mine
      /\ \A q \in Processes : q # p => st2[q] = st[q]
  OBVIOUS
<1>2. \A i \in DOMAIN mine : Drains(l, cs, froms, mine[i])
  BY DEF OldOrServing, AllServe
<1> HIDE DEF st2
<1>3. AllServe(st2, l, cs, froms)
  BY <1>1, <1>2 DEF AllServe
<1> QED
  BY <1>1, <1>3 DEF st2

OfEither(both, d, rest) ==
    \A i \in DOMAIN both : \/ \E j \in DOMAIN d : both[i] = d[j]
                           \/ \E j \in DOMAIN rest : both[i] = rest[j]

LEMMA ElementsOfBoth ==
    ASSUME NEW S, NEW d \in Seq(S), NEW rest \in Seq(S)
    PROVE  d \o rest \in Seq(S) /\ OfEither(d \o rest, d, rest)
<1>1. /\ d \o rest \in Seq(S) /\ Len(d \o rest) = Len(d) + Len(rest)
      /\ \A i \in 1..(Len(d) + Len(rest)) :
            (d \o rest)[i] = IF i <= Len(d) THEN d[i] ELSE rest[i - Len(d)]
  BY ConcatProperties
<1>2. /\ DOMAIN d = 1..Len(d) /\ DOMAIN rest = 1..Len(rest)
      /\ DOMAIN (d \o rest) = 1..(Len(d) + Len(rest)) /\ Len(d) \in Nat /\ Len(rest) \in Nat
  BY <1>1, LenProperties
<1> DEFINE both == d \o rest
<1>3. both \in Seq(S) /\ DOMAIN both = 1..(Len(d) + Len(rest))
  BY <1>1, <1>2
<1>4. \A i \in 1..(Len(d) + Len(rest)) :
         both[i] = IF i <= Len(d) THEN d[i] ELSE rest[i - Len(d)]
  BY <1>1
<1> HIDE DEF both
<1>5. ASSUME NEW i \in DOMAIN both
      PROVE  \/ \E j \in DOMAIN d : both[i] = d[j]
             \/ \E j \in DOMAIN rest : both[i] = rest[j]
  <2>1. CASE i <= Len(d)
    BY <1>2, <1>3, <1>4, <2>1
  <2>2. CASE ~(i <= Len(d))
    <3>1. i - Len(d) \in DOMAIN rest /\ both[i] = rest[i - Len(d)]
      BY <1>2, <1>3, <1>4, <2>2
    <3> QED
      BY <3>1
  <2> QED
    BY <2>1, <2>2
<1>6. OfEither(both, d, rest)
  BY <1>5 DEF OfEither
<1> QED
  BY <1>3, <1>6 DEF both

LEMMA InvStacks ==
    ASSUME ChannelsInv
    PROVE  /\ log \in Seq(Messages) /\ cursor \in [Subscribers -> Nat] /\ clock \in Nat
           /\ since \in [Subscribers -> SUBSET Nat] /\ stack \in [Processes -> Seq(Frames)]
           /\ AllServe(stack, log, cursor, since)
BY DEF ChannelsInv, ChannelsTyped

LEMMA PublishHolds ==
    ASSUME ChannelsInv, NEW p \in Processes, NEW ch \in Channels, Publish(p, ch)
    PROVE  ChannelsInv'
<1> DEFINE added == Append(log, Message(ch, "kept"))
           new == {n \in DOMAIN log' : n > Least(p) /\ log'[n].state = "kept"}
           d == Drain(subs[p], IF subs[p] = << >> THEN {} ELSE new)
<1>1. /\ log \in Seq(Messages) /\ clock \in Nat /\ cursor \in [Subscribers -> Nat]
      /\ since \in [Subscribers -> SUBSET Nat] /\ stack \in [Processes -> Seq(Frames)]
      /\ AllServe(stack, log, cursor, since)
  BY InvStacks
<1>2. /\ log' = Pruned(added) /\ stack' = [stack EXCEPT ![p] = d \o @]
      /\ UNCHANGED <<subs, cursor, clock, since, delivered>>
  BY DEF Publish
<1>3. /\ added \in Seq(Messages) /\ DOMAIN added = 1..(Len(log) + 1)
      /\ \A n \in DOMAIN log : added[n] = log[n]
  BY <1>1, AppendProperties DEF Message, Messages
<1>4. log' \in Seq(Messages) /\ Grows(log, log')
  <2>1. log' = [n \in 1..(Len(log) + 1) |->
                  IF added[n].state = "kept" /\ added[n].ts < clock - KeepFor
                  THEN [added[n] EXCEPT !.state = "pruned"] ELSE added[n]]
    BY <1>2, <1>3 DEF Pruned
  <2>2. \A n \in 1..(Len(log) + 1) : added[n] \in Messages
    BY <1>3, ElementOfSeq
  <2> HIDE DEF added
  <2>3. ASSUME NEW n \in 1..(Len(log) + 1)
        PROVE  /\ log'[n] \in Messages /\ log'[n].channel = added[n].channel
               /\ log'[n].state = "kept" => added[n].state = "kept"
    <3>1. log'[n] = [added[n] EXCEPT !.state = "pruned"] \/ log'[n] = added[n]
      BY <2>1
    <3> QED
      BY <2>2, <3>1 DEF Messages
  <2>4. Len(log) + 1 \in Nat
    BY <1>1
  <2>5. log' \in Seq(Messages) /\ Len(log') = Len(log) + 1
    <3>1. log' \in [1..(Len(log) + 1) -> Messages]
      BY <2>1, <2>3
    <3> QED
      BY <2>4, <3>1
  <2> QED
    BY <1>1, <1>3, <2>3, <2>5 DEF Grows
<1>5. MoveOn(cursor, since, cursor', since')
  BY <1>1, <1>2 DEF MoveOn
<1>6. d \in Seq(Frames) /\ \A i \in DOMAIN d : Drains(log', cursor', since', d[i])
  <2>1. CASE subs[p] = << >>
    BY <2>1 DEF Drain
  <2>2. CASE subs[p] # << >>
    <3>1. d = Drain(subs[p], new)
      BY <2>2
    <3>2. /\ Least(p) \in Nat
          /\ \A i \in DOMAIN subs[p] : /\ subs[p][i] \in Subscribers
                                       /\ Least(p) <= cursor[subs[p][i]]
                                       /\ since[subs[p][i]] # {}
                                       /\ Caught(log, cursor[subs[p][i]], since[subs[p][i]])
      BY <2>2, LeastIsLeast
    <3>3. \A i \in DOMAIN subs[p] : Caught(log', cursor[subs[p][i]], since[subs[p][i]])
      <4> TAKE i \in DOMAIN subs[p]
      <4>1. subs[p][i] \in Subscribers /\ Caught(log, cursor[subs[p][i]], since[subs[p][i]])
        BY <3>2
      <4>2. cursor[subs[p][i]] \in Nat /\ since[subs[p][i]] \subseteq 0..Len(log)
        BY <1>1, <4>1 DEF ChannelsInv, CursorOf
      <4> QED
        BY <1>1, <1>4, <4>1, <4>2, CaughtOn
    <3>4. subs[p] \in Seq(Subscribers)
      BY DEF ChannelsInv, ChannelsTyped
    <3>5. \A i \in DOMAIN subs[p] : /\ Least(p) <= cursor[subs[p][i]] /\ since[subs[p][i]] # {}
                                    /\ Caught(log', cursor[subs[p][i]], since[subs[p][i]])
      BY <3>2, <3>3
    <3>6. /\ Drain(subs[p], new) \in Seq(Frames)
          /\ \A i \in DOMAIN Drain(subs[p], new) : Drains(log', cursor, since, Drain(subs[p], new)[i])
      BY <1>1, <1>4, <3>2, <3>4, <3>5, DrainStarts
    <3>7. cursor' = cursor /\ since' = since
      BY <1>2
    <3> HIDE DEF d, new
    <3> QED
      BY <3>1, <3>6, <3>7
  <2> QED
    BY <2>1, <2>2
<1> HIDE DEF d, new, added
<1> DEFINE mine == d \o stack[p]
<1>7. mine \in Seq(Frames) /\ OldOrServing(mine, stack[p], log', cursor', since')
  <2>1. stack[p] \in Seq(Frames)
    BY <1>1
  <2>2. mine \in Seq(Frames) /\ OfEither(mine, d, stack[p])
    BY <1>6, <2>1, ElementsOfBoth
  <2> HIDE DEF mine
  <2> QED
    BY <1>6, <2>2 DEF OfEither, OldOrServing
<1>8. stack' = [stack EXCEPT ![p] = mine]
  BY <1>1, <1>2
<1> HIDE DEF mine
<1>9. AllServe(stack, log', cursor', since')
  <2>1. cursor' \in [Subscribers -> Nat]
    BY <1>1, <1>2
  <2> QED
    BY <1>1, <1>4, <1>5, <2>1, StacksOn
<1>10. stack' \in [Processes -> Seq(Frames)] /\ AllServe(stack', log', cursor', since')
  BY <1>1, <1>7, <1>8, <1>9, StacksPut
<1> QED
  BY <1>1, <1>2, <1>4, <1>10, LogGrowsOn

LEMMA PollHolds ==
    ASSUME ChannelsInv, NEW p \in Processes, Poll(p)
    PROVE  ChannelsInv'
<1> DEFINE d == Drain(subs[p], Unread(Least(p)))
<1>1. /\ log \in Seq(Messages) /\ clock \in Nat /\ cursor \in [Subscribers -> Nat]
      /\ since \in [Subscribers -> SUBSET Nat] /\ stack \in [Processes -> Seq(Frames)]
      /\ AllServe(stack, log, cursor, since)
  BY InvStacks
<1>2. /\ subs[p] # << >> /\ stack' = [stack EXCEPT ![p] = d]
      /\ UNCHANGED <<log, subs, cursor, clock, since, delivered>>
  BY DEF Poll, logVars
<1>3. d \in Seq(Frames) /\ \A i \in DOMAIN d : Drains(log, cursor, since, d[i])
  <2>1. /\ Least(p) \in Nat
        /\ \A i \in DOMAIN subs[p] : /\ Least(p) <= cursor[subs[p][i]] /\ since[subs[p][i]] # {}
                                     /\ Caught(log, cursor[subs[p][i]], since[subs[p][i]])
    BY <1>2, LeastIsLeast
  <2>2. subs[p] \in Seq(Subscribers)
    BY DEF ChannelsInv, ChannelsTyped
  <2>3. Unread(Least(p)) = {n \in DOMAIN log : n > Least(p) /\ log[n].state = "kept"}
    BY DEF Unread, Readable
  <2> QED
    BY <1>1, <2>1, <2>2, <2>3, DrainStarts
<1> HIDE DEF d
<1>4. Grows(log, log)
  BY <1>1, LogStays
<1>5. stack' \in [Processes -> Seq(Frames)] /\ AllServe(stack', log, cursor, since)
  BY <1>1, <1>2, <1>3, StacksPut DEF OldOrServing
<1> QED
  BY <1>1, <1>2, <1>4, <1>5, LogGrowsOn

LEMMA DrainEndsHolds ==
    ASSUME ChannelsInv, NEW p \in Processes, DrainEnds(p)
    PROVE  ChannelsInv'
<1>1. /\ log \in Seq(Messages) /\ clock \in Nat /\ cursor \in [Subscribers -> Nat]
      /\ since \in [Subscribers -> SUBSET Nat] /\ stack \in [Processes -> Seq(Frames)]
      /\ AllServe(stack, log, cursor, since)
  BY InvStacks
<1>2. /\ stack[p] # << >> /\ stack' = [stack EXCEPT ![p] = Tail(stack[p])]
      /\ UNCHANGED <<log, subs, cursor, clock, since, delivered>>
  BY <1>1 DEF DrainEnds, logVars
<1>3. /\ Tail(stack[p]) \in Seq(Frames)
      /\ \A i \in DOMAIN Tail(stack[p]) : i + 1 \in DOMAIN stack[p]
                                          /\ Tail(stack[p])[i] = stack[p][i + 1]
  BY <1>1, <1>2, HeadTailProperties
<1>4. Grows(log, log)
  BY <1>1, LogStays
<1>5. stack' \in [Processes -> Seq(Frames)] /\ AllServe(stack', log, cursor, since)
  BY <1>1, <1>2, <1>3, StacksPut DEF OldOrServing
<1> QED
  BY <1>1, <1>2, <1>4, <1>5, LogGrowsOn

(* A step that serves: the row is the least of those left, so that all that *)
(* is kept before it has been offered.                                      *)
HasTurn(l, c, from, n) ==
    /\ n \in DOMAIN l /\ from # {} /\ (n \in from => n <= c)
    /\ \A m \in DOMAIN l : l[m].state = "kept" /\ m > c /\ m <= n => m = n

LEMMA ServedInTurn ==
    ASSUME NEW l \in Seq(Messages), NEW cs \in [Subscribers -> Nat], NEW froms, NEW f \in Frames,
           f.who # << >>, Drains(l, cs, froms, f)
    PROVE  /\ Head(f.who) \in Subscribers /\ Min(f.left) \in f.left
           /\ HasTurn(l, cs[Head(f.who)], froms[Head(f.who)], Min(f.left))
<1>1. /\ f.left \subseteq f.rows /\ f.rows \subseteq DOMAIN l /\ f.left # {}
      /\ f.who \in Seq(Subscribers) /\ DOMAIN l \subseteq Nat
      /\ \A i \in DOMAIN f.who : Serves(l, cs[f.who[i]], froms[f.who[i]], f)
      /\ \A m \in f.rows \ f.left : m <= cs[Head(f.who)]
  BY DEF Drains, Frames
<1>2. 1 \in DOMAIN f.who /\ Head(f.who) = f.who[1] /\ Head(f.who) \in Subscribers
  BY <1>1, HeadTailProperties
<1>3. Min(f.left) \in f.left /\ \A m \in f.left : Min(f.left) <= m
  BY <1>1, LeastOne
<1> DEFINE s == Head(f.who)
           n == Min(f.left)
<1>4. n \in f.left /\ (\A m \in f.left : n <= m) /\ s \in Subscribers
      /\ (\A m \in f.rows \ f.left : m <= cs[s]) /\ Serves(l, cs[s], froms[s], f)
  BY <1>1, <1>2, <1>3
<1> HIDE DEF s, n
<1>5. n \in DOMAIN l /\ froms[s] # {} /\ (n \in froms[s] => n <= cs[s])
  BY <1>1, <1>4 DEF Serves
<1>6. ASSUME NEW m \in DOMAIN l, l[m].state = "kept", m > cs[s], m <= n PROVE m = n
  <2>1. m \in f.rows
    BY <1>1, <1>4, <1>6 DEF Serves
  <2>2. m \in Nat /\ n \in Nat /\ cs[s] \in Nat
    BY <1>1, <1>4, <1>5
  <2>3. m \in f.left
    BY <1>4, <1>6, <2>1, <2>2
  <2> QED
    BY <1>4, <1>6, <2>2, <2>3
<1>7. HasTurn(l, cs[s], froms[s], n)
  BY <1>5, <1>6 DEF HasTurn
<1> QED
  BY <1>4, <1>7 DEF s, n

LEMMA DrainStepHolds ==
    ASSUME ChannelsInv, NEW p \in Processes, DrainStep(p)
    PROVE  ChannelsInv'
<1> DEFINE f == Head(stack[p])
<1>1. /\ log \in Seq(Messages) /\ clock \in Nat /\ cursor \in [Subscribers -> Nat]
      /\ since \in [Subscribers -> SUBSET Nat] /\ stack \in [Processes -> Seq(Frames)]
      /\ AllServe(stack, log, cursor, since)
  BY InvStacks
<1>2. /\ stack[p] # << >> /\ f.who # << >>
      /\ f \in Frames /\ Drains(log, cursor, since, f) /\ Tail(stack[p]) \in Seq(Frames)
      /\ \A i \in DOMAIN Tail(stack[p]) : \E j \in DOMAIN stack[p] : Tail(stack[p])[i] = stack[p][j]
  <2>1. stack[p] \in Seq(Frames)
    BY <1>1
  <2>2. stack[p] # << >> /\ f.who # << >>
    BY DEF DrainStep
  <2>3. /\ f \in Frames /\ f = stack[p][1] /\ 1 \in DOMAIN stack[p]
        /\ Tail(stack[p]) \in Seq(Frames)
        /\ \A i \in DOMAIN Tail(stack[p]) : i + 1 \in DOMAIN stack[p]
                                            /\ Tail(stack[p])[i] = stack[p][i + 1]
    BY <2>1, <2>2, HeadTailProperties
  <2> QED
    BY <1>1, <2>2, <2>3 DEF AllServe
<1>3. PICK s \in Subscribers, n \in f.left :
         s = Head(f.who) /\ n = Min(f.left) /\ HasTurn(log, cursor[s], since[s], n)
  <2> HIDE DEF f
  <2>1. /\ Head(f.who) \in Subscribers /\ Min(f.left) \in f.left
        /\ HasTurn(log, cursor[Head(f.who)], since[Head(f.who)], Min(f.left))
    BY <1>1, <1>2, ServedInTurn
  <2> QED
    BY <2>1
<1> DEFINE after == Advance(f, n, Hears(s, n))
<1>4. /\ cursor' = [cursor EXCEPT ![s] = Max({cursor[s], n})]
      /\ delivered' = IF Hears(s, n) THEN [delivered EXCEPT ![s] = Append(delivered[s], n)]
                      ELSE delivered
      /\ stack' = [stack EXCEPT ![p] = <<after>> \o Tail(stack[p])]
      /\ UNCHANGED <<log, subs, clock, since>>
  <2>1. /\ cursor' = [cursor EXCEPT ![s] = Max({@, n})]
        /\ delivered' = IF Hears(s, n) THEN [delivered EXCEPT ![s] = Append(@, n)]
                        ELSE delivered
        /\ stack' = [stack EXCEPT ![p] = <<after>> \o Tail(@)]
        /\ UNCHANGED <<log, subs, clock, since>>
    BY <1>3 DEF DrainStep
  <2>2. delivered \in [Subscribers -> Seq(Nat)]
    BY DEF ChannelsInv, ChannelsTyped
  <2> QED
    BY <1>1, <2>1, <2>2
<1>5. /\ n \in DOMAIN log /\ since[s] # {} /\ (n \in since[s] => n <= cursor[s])
      /\ \A m \in DOMAIN log : log[m].state = "kept" /\ m > cursor[s] /\ m <= n => m = n
  BY <1>3 DEF HasTurn
<1>6. n \in Nat /\ cursor[s] \in Nat /\ n <= Len(log) /\ Len(log) \in Nat
  BY <1>1, <1>5
<1>7. /\ cursor'[s] = IF n > cursor[s] THEN n ELSE cursor[s]
      /\ cursor'[s] \in Nat /\ n <= cursor'[s] /\ cursor[s] <= cursor'[s]
      /\ cursor' \in [Subscribers -> Nat]
      /\ \A t \in Subscribers : t # s => cursor'[t] = cursor[t]
  <2>1. /\ Max({cursor[s], n}) = IF n > cursor[s] THEN n ELSE cursor[s]
        /\ Max({cursor[s], n}) \in Nat /\ Max({cursor[s], n}) >= cursor[s] /\ Max({cursor[s], n}) >= n
    BY <1>6, GreatestOfTwo
  <2> QED
    BY <1>1, <1>4, <1>5, <1>6, <2>1
<1>8. Hears(s, n) \in BOOLEAN /\ (Hears(s, n) <=> n > cursor[s] /\ log[n].channel = ChannelOf[s])
  BY DEF Hears
<1>9. stack' \in [Processes -> Seq(Frames)] /\ AllServe(stack', log, cursor', since)
  <2>1. MoveOn(cursor, since, cursor', since) /\ Grows(log, log)
    <3>1. \A t \in Subscribers : cursor[t] <= cursor'[t]
      <4> TAKE t \in Subscribers
      <4>1. cursor[t] \in Nat
        BY <1>1
      <4> QED
        BY <1>7, <4>1
    <3> QED
      BY <1>1, <3>1, LogStays DEF MoveOn
  <2>2. AllServe(stack, log, cursor', since)
    BY <1>1, <1>7, <2>1, StacksOn
  <2>3. Drains(log, cursor', since, f)
    BY <1>1, <1>2, <1>7, <2>1, DrainsOn
  <2>4. after \in Frames /\ Drains(log, cursor', since, after)
    <3>1. n <= cursor'[Head(f.who)]
      BY <1>3, <1>7
    <3> HIDE DEF f
    <3> QED
      BY <1>1, <1>2, <1>3, <1>7, <1>8, <2>3, <3>1, DrainAdvances
  <2> HIDE DEF after, f
  <2> DEFINE mine == <<after>> \o Tail(stack[p])
  <2>5. mine \in Seq(Frames) /\ OldOrServing(mine, stack[p], log, cursor', since)
    <3>1. <<after>> \in Seq(Frames) /\ \A i \in DOMAIN <<after>> : <<after>>[i] = after
      BY <2>4
    <3>2. mine \in Seq(Frames) /\ OfEither(mine, <<after>>, Tail(stack[p]))
      BY <1>2, <3>1, ElementsOfBoth
    <3> HIDE DEF mine
    <3>3. \A i \in DOMAIN mine : mine[i] = after \/ \E j \in DOMAIN stack[p] : mine[i] = stack[p][j]
      BY <1>2, <3>1, <3>2 DEF OfEither
    <3> QED
      BY <2>4, <3>2, <3>3 DEF OldOrServing
  <2>6. stack' = [stack EXCEPT ![p] = mine]
    BY <1>4
  <2> HIDE DEF mine
  <2> QED
    BY <1>1, <2>2, <2>5, <2>6, StacksPut
<1>10. /\ delivered \in [Subscribers -> Seq(Nat)] /\ delivered' \in [Subscribers -> Seq(Nat)]
       /\ \A t \in Subscribers : t # s => delivered'[t] = delivered[t]
       /\ Hears(s, n) => delivered'[s] = Append(delivered[s], n)
       /\ ~Hears(s, n) => delivered'[s] = delivered[s]
  <2>1. delivered \in [Subscribers -> Seq(Nat)]
    BY DEF ChannelsInv, ChannelsTyped
  <2>2. delivered[s] \in Seq(Nat) /\ Append(delivered[s], n) \in Seq(Nat)
    BY <1>5, <1>6, <2>1, AppendProperties
  <2> QED
    BY <1>4, <1>5, <2>1, <2>2
<1>11. CursorOf(s) /\ delivered[s] \in Seq(Nat)
  BY <1>5, <1>10 DEF ChannelsInv
<1> HIDE DEF f, after
<1>12. \A t \in Subscribers : CursorOf(t)'
  <2>1. CursorOf(s)'
    <3>1. since'[s] \subseteq 0..Len(log') /\ since'[s] # {} /\ cursor'[s] <= Len(log')
      BY <1>4, <1>5, <1>6, <1>7, <1>11 DEF CursorOf
    <3>2. Caught(log', cursor'[s], since'[s])
      <4>1. \A m \in DOMAIN log : m \in Nat
        BY <1>1
      <4> QED
        BY <1>4, <1>6, <1>7, <1>11, <4>1 DEF CursorOf, Caught
    <3>3. \A i \in DOMAIN delivered[s] :
             delivered[s][i] \in DOMAIN log /\ delivered[s][i] <= cursor'[s]
      <4> TAKE i \in DOMAIN delivered[s]
      <4>1. delivered[s][i] \in DOMAIN log /\ delivered[s][i] <= cursor[s] /\ delivered[s][i] \in Nat
        BY <1>11, ElementOfSeq DEF CursorOf
      <4> QED
        BY <1>6, <1>7, <4>1
    <3>4. \A i \in DOMAIN delivered'[s] :
             delivered'[s][i] \in DOMAIN log /\ delivered'[s][i] <= cursor'[s]
      <4>1. CASE Hears(s, n)
        <5>1. /\ delivered'[s] = Append(delivered[s], n) /\ Len(delivered[s]) \in Nat
              /\ DOMAIN delivered'[s] = 1..(Len(delivered[s]) + 1)
              /\ delivered'[s][Len(delivered[s]) + 1] = n
              /\ \A i \in 1..Len(delivered[s]) : delivered'[s][i] = delivered[s][i]
          BY <1>6, <1>10, <1>11, <4>1, AppendProperties
        <5> QED
          BY <1>5, <1>7, <1>11, <3>3, <5>1
      <4>2. CASE ~Hears(s, n)
        BY <1>6, <1>10, <3>3, <4>2
      <4> QED
        BY <4>1, <4>2
    <3>5. log' = log
      BY <1>4
    <3> QED
      BY <3>1, <3>2, <3>4, <3>5 DEF CursorOf
  <2>2. ASSUME NEW t \in Subscribers, t # s PROVE CursorOf(t)'
    <3>1. CursorOf(t)
      BY DEF ChannelsInv
    <3>2. log' = log /\ since' = since /\ cursor'[t] = cursor[t] /\ delivered'[t] = delivered[t]
      BY <1>4, <1>7, <1>10, <2>2
    <3> QED
      BY <3>1, <3>2 DEF CursorOf
  <2> QED
    BY <2>1, <2>2
<1>13. OnceInOrder'
  <2>1. OnceInOrder
    BY DEF ChannelsInv
  <2>2. ASSUME Hears(s, n)
        PROVE  /\ \A i \in DOMAIN delivered'[s] : /\ delivered'[s][i] \notin since[s]
                                                  /\ log[delivered'[s][i]].channel = ChannelOf[s]
               /\ \A i, j \in DOMAIN delivered'[s] : i < j => delivered'[s][i] < delivered'[s][j]
    <3>1. /\ delivered'[s] = Append(delivered[s], n) /\ Len(delivered[s]) \in Nat
          /\ DOMAIN delivered'[s] = 1..(Len(delivered[s]) + 1)
          /\ delivered'[s][Len(delivered[s]) + 1] = n
          /\ \A i \in 1..Len(delivered[s]) : delivered'[s][i] = delivered[s][i]
      BY <1>6, <1>10, <1>11, <2>2, AppendProperties
    <3>2. n > cursor[s] /\ log[n].channel = ChannelOf[s] /\ n \notin since[s]
      BY <1>5, <1>6, <1>8, <2>2
    <3>3. \A i \in 1..Len(delivered[s]) : delivered[s][i] < n
      <4> TAKE i \in 1..Len(delivered[s])
      <4>1. delivered[s][i] <= cursor[s] /\ delivered[s][i] \in Nat
        BY <1>11, ElementOfSeq DEF CursorOf
      <4> QED
        BY <1>6, <3>2, <4>1
    <3>4. DOMAIN delivered[s] = 1..Len(delivered[s])
      BY <1>11
    <3>5. \A i \in DOMAIN delivered'[s] : /\ delivered'[s][i] \notin since[s]
                                          /\ log[delivered'[s][i]].channel = ChannelOf[s]
      BY <1>5, <2>1, <3>1, <3>2, <3>4 DEF OnceInOrder
    <3>6. \A i, j \in DOMAIN delivered'[s] : i < j => delivered'[s][i] < delivered'[s][j]
      <4> TAKE i, j \in DOMAIN delivered'[s]
      <4> HAVE i < j
      <4>1. i \in 1..Len(delivered[s])
        BY <3>1
      <4>2. CASE j = Len(delivered[s]) + 1
        BY <3>1, <3>3, <4>1, <4>2
      <4>3. CASE j \in 1..Len(delivered[s])
        BY <1>5, <2>1, <3>1, <3>4, <4>1, <4>3 DEF OnceInOrder
      <4> QED
        BY <3>1, <4>2, <4>3
    <3> QED
      BY <3>5, <3>6
  <2> QED
    BY <1>4, <1>10, <2>1, <2>2 DEF OnceInOrder
<1>14. NonePassedOver'
  <2>1. NonePassedOver
    BY DEF ChannelsInv
  <2>2. \A t \in Subscribers : ToSet(delivered[t]) \subseteq ToSet(delivered'[t])
    <3>1. ToSet(delivered[s]) \subseteq ToSet(Append(delivered[s], n))
      <4>1. /\ DOMAIN delivered[s] \subseteq DOMAIN Append(delivered[s], n)
            /\ \A i \in DOMAIN delivered[s] : Append(delivered[s], n)[i] = delivered[s][i]
        BY <1>6, <1>11, AppendProperties
      <4> QED
        BY <4>1 DEF ToSet
    <3> QED
      BY <1>8, <1>10, <3>1
  <2>3. ASSUME NEW m \in DOMAIN log \ since[s], m <= cursor'[s], log[m].channel = ChannelOf[s],
               log[m].state # "pruned"
        PROVE  m \in ToSet(delivered'[s])
    <3>1. log[m].state = "kept" /\ m \in Nat
      <4>1. log[m] \in Messages
        BY <1>1, ElementOfSeq
      <4> QED
        BY <1>1, <2>3, <4>1 DEF Messages
    <3>2. CASE m <= cursor[s]
      BY <1>5, <2>1, <2>2, <2>3, <3>2 DEF NonePassedOver
    <3>3. CASE m > cursor[s]
      <4>1. n > cursor[s] /\ m <= n
        BY <1>6, <1>7, <2>3, <3>1, <3>3
      <4>2. m = n
        BY <1>5, <2>3, <3>1, <3>3, <4>1
      <4>3. delivered'[s] = Append(delivered[s], n)
        BY <1>8, <1>10, <2>3, <4>1, <4>2
      <4>4. /\ Len(delivered[s]) + 1 \in DOMAIN delivered'[s]
            /\ delivered'[s][Len(delivered[s]) + 1] = n
        BY <1>6, <1>11, <4>3, AppendProperties
      <4> QED
        BY <4>2, <4>4 DEF ToSet
    <3> QED
      BY <1>6, <3>1, <3>2, <3>3
  <2>4. ASSUME NEW t \in Subscribers, t # s, since[t] # {}, NEW m \in DOMAIN log \ since[t],
               m <= cursor'[t], log[m].channel = ChannelOf[t], log[m].state # "pruned"
        PROVE  m \in ToSet(delivered'[t])
    BY <1>7, <2>1, <2>2, <2>4 DEF NonePassedOver
  <2> QED
    BY <1>4, <2>3, <2>4 DEF NonePassedOver
<1>15. ChannelsTyped'
  BY <1>1, <1>4, <1>7, <1>9, <1>10 DEF ChannelsInv, ChannelsTyped
<1>16. \A q \in Processes : \A i \in DOMAIN subs'[q] : since'[subs'[q][i]] # {}
  BY <1>4 DEF ChannelsInv
<1> QED
  BY <1>4, <1>9, <1>12, <1>13, <1>14, <1>15, <1>16 DEF ChannelsInv

LEMMA SubscribeHolds ==
    ASSUME ChannelsInv, NEW p \in Processes, NEW s \in Subscribers, Subscribe(p, s)
    PROVE  ChannelsInv'
<1>1. /\ log \in Seq(Messages) /\ clock \in Nat /\ cursor \in [Subscribers -> Nat]
      /\ since \in [Subscribers -> SUBSET Nat] /\ stack \in [Processes -> Seq(Frames)]
      /\ AllServe(stack, log, cursor, since)
  BY InvStacks
<1>2. /\ subs \in [Processes -> Seq(Subscribers)] /\ delivered \in [Subscribers -> Seq(Nat)]
      /\ \A t \in Subscribers : CursorOf(t)
      /\ \A q \in Processes : \A i \in DOMAIN subs[q] : since[subs[q][i]] # {}
      /\ OnceInOrder /\ NonePassedOver
  BY DEF ChannelsInv, ChannelsTyped
<1>3. /\ since[s] = {} /\ since' = [since EXCEPT ![s] = 0..Len(log)]
      /\ cursor' = [cursor EXCEPT ![s] = Highest]
      /\ subs' = [subs EXCEPT ![p] = Append(subs[p], s)]
      /\ UNCHANGED <<log, clock, delivered, stack>>
  <2>1. /\ since[s] = {} /\ since' = [since EXCEPT ![s] = 0..Len(log)]
        /\ cursor' = [cursor EXCEPT ![s] = Highest]
        /\ subs' = [subs EXCEPT ![p] = Append(@, s)]
        /\ UNCHANGED <<log, clock, delivered, stack>>
    BY DEF Subscribe, Joins
  <2> QED
    BY <1>2, <2>1
<1>4. Highest \in 0..Len(log) /\ \A n \in DOMAIN log : log[n].state = "kept" => n <= Highest
  <2> DEFINE H == {0} \cup {n \in DOMAIN log : Readable(n)}
  <2>1. Len(log) \in Nat /\ H \subseteq 0..Len(log) /\ H # {}
    BY <1>1
  <2>2. \A n \in DOMAIN log : log[n].state = "kept" => n \in H
    BY DEF Readable
  <2>3. Highest = Max(H)
    BY DEF Highest
  <2> HIDE DEF H
  <2>4. Max(H) \in H /\ \A n \in H : n <= Max(H)
    BY <2>1, GreatestOne
  <2> QED
    BY <2>1, <2>2, <2>3, <2>4
<1>5. /\ Len(log) \in Nat /\ DOMAIN log = 1..Len(log)
      /\ since'[s] = 0..Len(log) /\ since'[s] # {} /\ cursor'[s] = Highest
      /\ cursor' \in [Subscribers -> Nat] /\ since' \in [Subscribers -> SUBSET Nat]
      /\ \A t \in Subscribers : t # s => cursor'[t] = cursor[t] /\ since'[t] = since[t]
  <2>1. Len(log) \in Nat /\ DOMAIN log = 1..Len(log)
    BY <1>1
  <2>2. 0..Len(log) \in SUBSET Nat /\ 0 \in 0..Len(log) /\ Highest \in Nat
    BY <1>4, <2>1
  <2> QED
    BY <1>1, <1>3, <2>1, <2>2
<1>6. AllServe(stack, log, cursor', since')
  <2>1. MoveOn(cursor, since, cursor', since') /\ Grows(log, log)
    <3>1. ASSUME NEW t \in Subscribers, since[t] # {}
          PROVE  since'[t] = since[t] /\ cursor[t] <= cursor'[t]
      <4>1. cursor[t] \in Nat /\ t # s
        BY <1>1, <1>3, <3>1
      <4> QED
        BY <1>5, <4>1
    <3> QED
      BY <1>1, <3>1, LogStays DEF MoveOn
  <2> QED
    BY <1>1, <1>5, <2>1, StacksOn
<1>7. subs' \in [Processes -> Seq(Subscribers)]
      /\ \A q \in Processes : \A i \in DOMAIN subs'[q] : since'[subs'[q][i]] # {}
  <2>1. /\ subs[p] \in Seq(Subscribers) /\ Append(subs[p], s) \in Seq(Subscribers)
        /\ DOMAIN Append(subs[p], s) = 1..(Len(subs[p]) + 1) /\ DOMAIN subs[p] = 1..Len(subs[p])
        /\ Append(subs[p], s)[Len(subs[p]) + 1] = s /\ Len(subs[p]) \in Nat
        /\ \A i \in 1..Len(subs[p]) : Append(subs[p], s)[i] = subs[p][i]
    BY <1>2, AppendProperties
  <2>2. subs' \in [Processes -> Seq(Subscribers)] /\ subs'[p] = Append(subs[p], s)
        /\ \A q \in Processes : q # p => subs'[q] = subs[q]
    BY <1>2, <1>3, <2>1
  <2>3. \A t \in Subscribers : since[t] # {} => since'[t] # {}
    BY <1>5
  <2>4. ASSUME NEW q \in Processes, NEW i \in DOMAIN subs[q]
        PROVE  subs[q][i] \in Subscribers /\ since'[subs[q][i]] # {}
    <3>1. subs[q][i] \in Subscribers
      BY <1>2, ElementOfSeq
    <3> QED
      BY <1>2, <2>3, <3>1
  <2>5. \A i \in DOMAIN subs'[p] : since'[subs'[p][i]] # {}
    <3> TAKE i \in DOMAIN subs'[p]
    <3>0. i = Len(subs[p]) + 1 \/ i \in 1..Len(subs[p])
      BY <2>1, <2>2
    <3>1. CASE i = Len(subs[p]) + 1
      BY <1>5, <2>1, <2>2, <3>1
    <3>2. CASE i \in 1..Len(subs[p])
      BY <2>1, <2>2, <2>4, <3>2
    <3> QED
      BY <3>0, <3>1, <3>2
  <2> QED
    BY <2>2, <2>4, <2>5
<1>8. delivered[s] = << >>
  BY <1>2, <1>3 DEF CursorOf
<1>9. \A t \in Subscribers : CursorOf(t)'
  <2>1. CursorOf(s)'
    <3>1. Caught(log, Highest, since'[s])
      BY <1>4 DEF Caught
    <3>2. log' = log /\ delivered' = delivered /\ Highest <= Len(log)
      BY <1>3, <1>4, <1>5
    <3> QED
      BY <1>5, <1>8, <3>1, <3>2 DEF CursorOf
  <2>2. ASSUME NEW t \in Subscribers, t # s PROVE CursorOf(t)'
    <3>1. log' = log /\ since'[t] = since[t] /\ cursor'[t] = cursor[t] /\ delivered' = delivered
      BY <1>3, <1>5, <2>2
    <3> QED
      BY <1>2, <3>1 DEF CursorOf
  <2> QED
    BY <2>1, <2>2
<1>10. OnceInOrder'
  <2>1. \A t \in Subscribers : \A i \in DOMAIN delivered[t] : t # s
    BY <1>8
  <2> QED
    BY <1>2, <1>3, <1>5, <2>1 DEF OnceInOrder
<1>11. NonePassedOver'
  <2>1. \A n \in DOMAIN log : n \in since'[s]
    BY <1>5
  <2> QED
    BY <1>2, <1>3, <1>5, <2>1 DEF NonePassedOver
<1>12. ChannelsTyped'
  BY <1>1, <1>2, <1>3, <1>5, <1>7 DEF ChannelsTyped
<1> QED
  BY <1>3, <1>6, <1>7, <1>9, <1>10, <1>11, <1>12 DEF ChannelsInv

LEMMA UnsubscribeHolds ==
    ASSUME ChannelsInv, NEW p \in Processes, NEW s \in Subscribers, Unsubscribe(p, s)
    PROVE  ChannelsInv'
<1>1. /\ subs \in [Processes -> Seq(Subscribers)]
      /\ \A q \in Processes : \A i \in DOMAIN subs[q] : since[subs[q][i]] # {}
  BY DEF ChannelsInv, ChannelsTyped
<1>2. PICK i \in DOMAIN subs[p] : subs' = [subs EXCEPT ![p] = RemoveAt(subs[p], i)]
  <2>1. PICK i \in DOMAIN subs[p] : subs' = [subs EXCEPT ![p] = RemoveAt(@, i)]
    BY DEF Unsubscribe, Leaves
  <2> QED
    BY <1>1, <2>1
<1>3. UNCHANGED <<log, cursor, clock, since, delivered, stack>>
  BY DEF Unsubscribe
<1> DEFINE left == RemoveAt(subs[p], i)
<1>4. /\ left \in Seq(Subscribers)
      /\ \A j \in DOMAIN left : \E k \in DOMAIN subs[p] : left[j] = subs[p][k]
  <2>1. subs[p] \in Seq(Subscribers) /\ DOMAIN subs[p] = 1..Len(subs[p]) /\ Len(subs[p]) \in Nat
        /\ i \in 1..Len(subs[p])
    BY <1>1
  <2> DEFINE front == SubSeq(subs[p], 1, i - 1)
             back == SubSeq(subs[p], i + 1, Len(subs[p]))
  <2>2. /\ front \in Seq(Subscribers) /\ DOMAIN front = 1..(i - 1)
        /\ \A j \in 1..(i - 1) : front[j] = subs[p][j]
    BY <2>1
  <2>3. /\ back \in Seq(Subscribers) /\ DOMAIN back = 1..(Len(subs[p]) - i)
        /\ \A j \in 1..(Len(subs[p]) - i) : back[j] = subs[p][i + j]
    BY <2>1
  <2>4. left = front \o back
    BY DEF RemoveAt
  <2> HIDE DEF front, back, left
  <2>5. left \in Seq(Subscribers) /\ OfEither(left, front, back)
    BY <2>2, <2>3, <2>4, ElementsOfBoth
  <2>6. \A j \in DOMAIN front : j \in DOMAIN subs[p] /\ front[j] = subs[p][j]
    BY <2>1, <2>2
  <2>7. \A j \in DOMAIN back : i + j \in DOMAIN subs[p] /\ back[j] = subs[p][i + j]
    BY <2>1, <2>3
  <2> QED
    BY <2>5, <2>6, <2>7 DEF OfEither
<1>5. subs' \in [Processes -> Seq(Subscribers)] /\ subs'[p] = left
      /\ \A q \in Processes : q # p => subs'[q] = subs[q]
  BY <1>1, <1>2, <1>4
<1> HIDE DEF left
<1>6. ASSUME NEW q \in Processes, NEW j \in DOMAIN subs'[q] PROVE since'[subs'[q][j]] # {}
  <2>1. \E k \in DOMAIN subs[q] : subs'[q][j] = subs[q][k]
    <3>1. CASE q = p
      BY <1>4, <1>5, <1>6, <3>1
    <3>2. CASE q # p
      BY <1>5, <1>6, <3>2
    <3> QED
      BY <3>1, <3>2
  <2> QED
    BY <1>1, <1>3, <2>1
<1>7. ChannelsTyped'
  BY <1>3, <1>5 DEF ChannelsInv, ChannelsTyped
<1>8. \A t \in Subscribers : CursorOf(t)'
  BY <1>3 DEF ChannelsInv, CursorOf
<1>9. OnceInOrder' /\ NonePassedOver'
  BY <1>3 DEF ChannelsInv, OnceInOrder, NonePassedOver
<1> QED
  BY <1>3, <1>6, <1>7, <1>8, <1>9 DEF ChannelsInv

LEMMA QuietHolds ==
    ASSUME ChannelsInv, clock' \in Nat, UNCHANGED <<log, subs, cursor, since, delivered, stack>>
    PROVE  ChannelsInv'
<1>1. ChannelsTyped'
  BY DEF ChannelsInv, ChannelsTyped
<1>2. \A t \in Subscribers : CursorOf(t)'
  BY DEF ChannelsInv, CursorOf
<1>3. OnceInOrder' /\ NonePassedOver'
  BY DEF ChannelsInv, OnceInOrder, NonePassedOver
<1> QED
  BY <1>1, <1>2, <1>3 DEF ChannelsInv

LEMMA ChannelsInit == Init => ChannelsInv
<1> SUFFICES ASSUME Init PROVE ChannelsInv
  OBVIOUS
<1>1. /\ log = << >> /\ subs = [p \in Processes |-> << >>] /\ clock = 0
      /\ cursor = [s \in Subscribers |-> 0] /\ since = [s \in Subscribers |-> {}]
      /\ delivered = [s \in Subscribers |-> << >>] /\ stack = [p \in Processes |-> << >>]
  BY DEF Init, LogInit
<1>2. ChannelsTyped
  BY <1>1 DEF ChannelsTyped
<1>3. \A s \in Subscribers : CursorOf(s)
  BY <1>1 DEF CursorOf, Caught
<1>4. AllServe(stack, log, cursor, since)
  BY <1>1 DEF AllServe
<1>5. OnceInOrder /\ NonePassedOver
  BY <1>1 DEF OnceInOrder, NonePassedOver
<1> QED
  BY <1>1, <1>2, <1>3, <1>4, <1>5 DEF ChannelsInv

LEMMA ChannelsStep == ChannelsInv /\ [Next]_vars => ChannelsInv'
<1> SUFFICES ASSUME ChannelsInv, [Next]_vars PROVE ChannelsInv'
  OBVIOUS
<1>0. clock \in Nat
  BY InvStacks
<1>1. CASE Tick
  BY <1>0, <1>1, QuietHolds DEF Tick, TickClock
<1>2. ASSUME NEW p \in Processes, NEW ch \in Channels, Publish(p, ch) PROVE ChannelsInv'
  BY <1>2, PublishHolds
<1>3. ASSUME NEW p \in Processes, Poll(p) PROVE ChannelsInv'
  BY <1>3, PollHolds
<1>4. ASSUME NEW p \in Processes, DrainStep(p) PROVE ChannelsInv'
  BY <1>4, DrainStepHolds
<1>5. ASSUME NEW p \in Processes, DrainEnds(p) PROVE ChannelsInv'
  BY <1>5, DrainEndsHolds
<1>6. ASSUME NEW p \in Processes, Stop(p) PROVE ChannelsInv'
  BY <1>0, <1>6, QuietHolds DEF Stop
<1>7. ASSUME NEW p \in Processes, NEW s \in Subscribers, Subscribe(p, s) PROVE ChannelsInv'
  BY <1>7, SubscribeHolds
<1>8. ASSUME NEW p \in Processes, NEW s \in Subscribers, Unsubscribe(p, s) PROVE ChannelsInv'
  BY <1>8, UnsubscribeHolds
<1>9. CASE UNCHANGED vars
  BY <1>0, <1>9, QuietHolds DEF vars, logVars
<1> QED
  BY <1>1, <1>2, <1>3, <1>4, <1>5, <1>6, <1>7, <1>8, <1>9 DEF Next

(* However drains nest in the callbacks that they call, and whatever other  *)
(* processes add and prune meanwhile, a subscriber gets each message of its *)
(* channel at most once, in order, and its cursor passes over none that is  *)
(* kept (drainPubsub(), publish(), subscribe() of kv()).                    *)
THEOREM HeardOnce == Spec => [](OnceInOrder /\ NonePassedOver)
<1>1. ChannelsInv => OnceInOrder /\ NonePassedOver
  BY DEF ChannelsInv
<1> QED
  BY <1>1, ChannelsInit, ChannelsStep, PTL DEF Spec
=============================================================================
