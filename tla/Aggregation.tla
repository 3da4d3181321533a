----------------------------- MODULE Aggregation -----------------------------
(***************************************************************************)
(* What reading a collection as a whole returns: aggregate() and groupBy() *)
(* (src/aggregation/aggregate.ts), distinct(), the order and the pages of  *)
(* findMany(), its maxRows, and lookup, on SQLite and in the ...Pg methods *)
(* of src/collection.ts.  Values are as in Filters; the filter is taken to *)
(* match all rows.                                                         *)
(***************************************************************************)
EXTENDS Integers, Sequences, FiniteSets, FiniteSetsExt, SequencesExt, TLC

CONSTANTS Ids,        \* in the order of the _id
          Groups,     \* values of the field "f"
          Amounts     \* values of the field "n"

VARIABLE table        \* what documents there are

Absent  == [absent |-> TRUE]
Null    == [null |-> TRUE]
Num(n)  == [num |-> n]

Is(type, v) == type \in DOMAIN v

Sql(v) == IF v = Absent THEN Null ELSE v

Rows == DOMAIN table

----------------------------------------------------------------------------
(* aggregate(): NULLs do not count, and of none but NULLs there is no sum.  *)
Numbers(S) == {r \in S : Is("num", table[r].n)}

Amount(r) == table[r].n.num

Acc_OverAll(kind, S) ==   \* mutant: the average is over all rows
    LET T == Numbers(S)
    IN CASE T = {}        -> Null
         [] kind = "_sum" -> Num(MapThenSumSet(Amount, T))
         [] kind = "_avg" -> [avg |-> <<MapThenSumSet(Amount, T), Cardinality(S)>>]
         [] kind = "_min" -> Num(Min({Amount(r) : r \in T}))
         [] kind = "_max" -> Num(Max({Amount(r) : r \in T}))

Acc(kind, S) ==
    LET T == Numbers(S)
    IN CASE T = {}        -> Null
         [] kind = "_sum" -> Num(MapThenSumSet(Amount, T))
         [] kind = "_avg" -> [avg |-> <<MapThenSumSet(Amount, T), Cardinality(T)>>]
         [] kind = "_min" -> Num(Min({Amount(r) : r \in T}))
         [] kind = "_max" -> Num(Max({Amount(r) : r \in T}))

Accumulators == {"_sum", "_avg", "_min", "_max"}

Aggregate(S) == [kind \in Accumulators |-> Acc(kind, S)] @@ [_count |-> Cardinality(S)]

(* having: a group whose accumulator is NULL passes no comparison.          *)
Having(S, having) ==
    CASE having = "all"     -> TRUE
      [] having = "several" -> Cardinality(S) > 1
      [] having = "not1"    -> Acc("_sum", S) \notin {Null, Num(1)}

GroupsBy(Key(_), having) ==
    LET Group(k) == {r \in Rows : Key(table[r].f) = k}
    IN {[by |-> Sql(k), of |-> Group(k), rows |-> Aggregate(Group(k))] :
            k \in {k \in {Key(table[r].f) : r \in Rows} : Having(Group(k), having)}}

(* SQLite: by json_extract(), which is NULL for a null and a missing field. *)
GroupBy(having) == GroupsBy(Sql, having)

(* Postgres: by the jsonb value, for which these are two.                   *)
GroupByPg(having) == GroupsBy(LAMBDA v : v, having)

----------------------------------------------------------------------------
(* distinct(): json_each() unwinds an array, gives a scalar - a null too -  *)
(* itself, and nothing of a missing field.                                  *)
Distinct ==
    UNION {LET v == table[r].f
           IN CASE v = Absent    -> {}
                [] Is("arr", v)  -> Range(v.arr)
                [] OTHER         -> {v} : r \in Rows}

(* The elements of arrays UNION the scalars that are not NULL.              *)
DistinctPg ==
    LET base == {table[r].f : r \in Rows}
    IN UNION {Range(v.arr) : v \in {v \in base : Is("arr", v)}}
       \cup {v \in base : v # Absent /\ ~Is("arr", v)}

----------------------------------------------------------------------------
(* ORDER BY n: NULLs come first in SQLite, ascending; on Postgres that is   *)
(* said (NULLS FIRST, NULLS LAST), and a jsonb null comes before a number.  *)
Rank(v) == IF Sql(v) = Null THEN -1 ELSE v.num

RankPg(v, dir) == IF v = Absent THEN -2 ELSE IF v = Null THEN -1 ELSE v.num

(* findMany() ordered by n and then by _id.                                 *)
Ordered(S, Key(_), dir) ==
    SetToSortSeq(S, LAMBDA r, q : \/ dir = "ASC" /\ Key(r) < Key(q)
                                  \/ dir = "DESC" /\ Key(r) > Key(q)
                                  \/ Key(r) = Key(q) /\ r < q)

Sorted(dir) == Ordered(Rows, LAMBDA r : Rank(table[r].n), dir)

SortedPg(dir) == Ordered(Rows, LAMBDA r : RankPg(table[r].n, dir), dir)

(* LIMIT take OFFSET skip. *)
Page(s, take, skip) == SubSeq(s, skip + 1, Min({skip + take, Len(s)}))

(* Without a take, one row more than maxRows is asked for, and throws.      *)
FindMany(s, maxRows) ==
    LET rows == Page(s, maxRows + 1, 0)
    IN IF Len(rows) > maxRows THEN << >> ELSE <<rows>>

----------------------------------------------------------------------------
(* applyLookup(): the rows of the collection whose f is the row's n, with   *)
(* "preserve" null where there is none.                                     *)
Lookup(preserve) ==
    LET local == {table[r].n : r \in Rows} \ {Absent, Null}
        foreign == {r \in Rows : table[r].f \in local}
        Matches(r) == {q \in foreign : table[q].f = table[r].n}
    IN UNION {IF Matches(r) # {} THEN {<<r, q>> : q \in Matches(r)}
              ELSE IF preserve THEN {<<r, 0>>} ELSE {} : r \in Rows}

----------------------------------------------------------------------------
(* The writes of others. *)
AggregateInit == table = << >>

Insert(r, f, n) ==
    r \notin Rows /\ table' = [d \in Rows \cup {r} |-> IF d = r THEN [f |-> f, n |-> n] ELSE table[d]]

Delete(r) == r \in Rows /\ table' = [d \in Rows \ {r} |-> table[d]]

AggregateNext ==
    \E r \in Ids : Delete(r) \/ \E f \in Groups, n \in Amounts : Insert(r, f, n)

AggregateSpec == AggregateInit /\ [][AggregateNext]_table

----------------------------------------------------------------------------
(* The groups are the whole: their counts, sums, averages and extremes are  *)
(* those of the collection; a page after another gives every row once and   *)
(* in the order; maxRows cuts nothing off silently; a lookup that preserves *)
(* loses no row.                                                            *)
ReadsAddUp ==
    LET Kind(groups, kind) == {g \in groups : g.rows[kind] # Null}
        whole == Aggregate(Rows)
    IN /\ \A groups \in {GroupBy("all"), GroupByPg("all")} :
             /\ MapThenSumSet(LAMBDA g : g.rows._count, groups) = whole._count
             /\ whole._sum = Null <=> Kind(groups, "_sum") = {}
             /\ whole._sum # Null =>
                   /\ MapThenSumSet(LAMBDA g : g.rows._sum.num, Kind(groups, "_sum")) = whole._sum.num
                   /\ MapThenSumSet(LAMBDA g : g.rows._avg.avg[2], Kind(groups, "_avg"))
                         = whole._avg.avg[2]
                   /\ Max({g.rows._max.num : g \in Kind(groups, "_max")}) = whole._max.num
       /\ \A dir \in {"ASC", "DESC"}, take \in 1..2 :
             Sorted(dir) = FlattenSeq([i \in 1..Cardinality(Rows) |->
                                          Page(Sorted(dir), take, (i - 1) * take)])
       /\ \A max \in 1..Cardinality(Ids) :
             FindMany(Sorted("ASC"), max) =
                 IF Cardinality(Rows) > max THEN << >> ELSE <<Sorted("ASC")>>
       /\ {pair[1] : pair \in Lookup(TRUE)} = Rows

(* SQLite and Postgres read the same: a group more or less, and the place   *)
(* in the order, only for an explicit null, which Postgres tells from a     *)
(* missing field.                                                           *)
EnginesReadAlike ==
    /\ Distinct = DistinctPg
    /\ (\A r \in Rows : table[r].f # Null) =>
          \A having \in {"all", "several", "not1"} : GroupBy(having) = GroupByPg(having)
    /\ (\A r \in Rows : table[r].n # Null) =>
          \A dir \in {"ASC", "DESC"} : Sorted(dir) = SortedPg(dir)
=============================================================================
