---------------------------- MODULE KvSortedSet ----------------------------
(***************************************************************************)
(* A sorted set of the cache: zadd() to zrangeByScore() of kv()            *)
(* (packages/kv/src/index.ts) on the rows of _monlite_kv_zset of one key,  *)
(* and the same reads in the Python port, which shares the table.          *)
(* Members are numbers, in the order of their names.                       *)
(***************************************************************************)
EXTENDS Integers, Sequences, FiniteSets, SequencesExt

CONSTANTS Members, MaxScore, NoScore

VARIABLE score    \* the score of each member, or NoScore

vars == <<score>>

Scores == 0..MaxScore

Init == score = [m \in Members |-> NoScore]

----------------------------------------------------------------------------
(* The reads. *)

Rows == {m \in Members : score[m] # NoScore}

ZCard == Cardinality(Rows)

(* The rows zrank() counts: those whose score, and then name, come first. *)
Before(m, n, rev) ==
    IF rev THEN score[m] > score[n] \/ (score[m] = score[n] /\ m > n)
           ELSE score[m] < score[n] \/ (score[m] = score[n] /\ m < n)

ZRank(m, rev) == Cardinality({n \in Rows : Before(n, m, rev)})

(* ORDER BY score, member, in the direction asked for. *)
Ordered(rows, rev) ==
    SetToSortSeq(rows, LAMBDA m, n :
        LET lt == score[m] < score[n] \/ (score[m] = score[n] /\ m < n)
        IN IF rev THEN ~lt /\ m # n ELSE lt)

LimitOffset(s, limit, offset) == SubSeq(s, offset + 1, Min({Len(s), offset + limit}))

(* zrange(): ranks from `start` to `stop`, counted from the end if negative. *)
ZRange(start, stop, rev) ==
    LET card == ZCard
        lo == Max({0, IF start < 0 THEN card + start ELSE start})
        hi == Min({card - 1, IF stop < 0 THEN card + stop ELSE stop})
    IN IF card = 0 \/ lo > hi THEN << >>
       ELSE LimitOffset(Ordered(Rows, rev), hi - lo + 1, lo)

ZRangeByScore(min, max) ==
    Ordered({m \in Rows : score[m] >= min /\ score[m] <= max}, FALSE)

(* zrank() and zrange() of the Python port: an index, and a slice. *)
PyZRank(m, rev) == LET s == Ordered(Rows, rev) IN (CHOOSE i \in DOMAIN s : s[i] = m) - 1

PyZRange(start, stop, rev) ==
    LET s  == Ordered(Rows, rev)
        n  == Len(s)
        lo == Max({0, IF start < 0 THEN start + n ELSE start})
        hi == Min({n - 1, IF stop < 0 THEN stop + n ELSE stop})
    IN IF n = 0 \/ lo > hi THEN << >> ELSE SubSeq(s, lo + 1, hi + 1)

----------------------------------------------------------------------------
ZAdd(m, s) == score' = [score EXCEPT ![m] = s]

(* zincrby(): one IMMEDIATE transaction, or one upsert on Postgres. *)
ZIncrBy(m, delta) ==
    /\ (IF score[m] = NoScore THEN 0 ELSE score[m]) + delta \in Scores
    /\ score' = [score EXCEPT ![m] = (IF @ = NoScore THEN 0 ELSE @) + delta]

ZRem(m) == score[m] # NoScore /\ score' = [score EXCEPT ![m] = NoScore]

Next == \E m \in Members :
    \/ \E s \in Scores : ZAdd(m, s)
    \/ \E d \in {-1, 1} : ZIncrBy(m, d)
    \/ ZRem(m)

----------------------------------------------------------------------------
(* Ranks and ranges are two queries that agree, in both directions: the     *)
(* member of rank r is the one that zrange(r, r) answers, from the end too, *)
(* and zrange(0, -1) has every member once.                                 *)
RanksMatchRanges ==
    /\ \A m \in Rows, rev \in BOOLEAN :
          LET r == ZRank(m, rev) IN
          /\ ZRange(r, r, rev) = <<m>>
          /\ ZRange(r - ZCard, r - ZCard, rev) = <<m>>
          /\ PyZRank(m, rev) = r
    /\ ZRange(0, -1, TRUE) = Reverse(ZRange(0, -1, FALSE))
    /\ ZRangeByScore(0, MaxScore) = ZRange(0, -1, FALSE)
    /\ Cardinality(ToSet(ZRange(0, -1, FALSE))) = ZCard

(* Both languages answer the same for every start and stop. *)
RangesAgree ==
    \A start, stop \in -(Cardinality(Members) + 1)..(Cardinality(Members) + 1) :
        \A rev \in BOOLEAN : ZRange(start, stop, rev) = PyZRange(start, stop, rev)
=============================================================================
