------------------------------- MODULE MCData -------------------------------
(* What a program reads and writes: the stores that its processes share      *)
(* (DataStores), a collection's filters and updates (Filters), what is read  *)
(* of many documents (Aggregation), the search indexes (SearchHits), and the *)
(* sorted sets of a cache (KvSortedSet).  The parts share nothing; a         *)
(* behaviour is of the one chosen at its start.                              *)
(* Codes of characters: "A" is 65, "a" 97, "b" 98.                           *)
EXTENDS DataStores, SearchHits, TLC

CONSTANTS NoScore, p1, a

VARIABLES doc, did, table,
          score

----------------------------------------------------------------------------
(* Documents, updates and filters.                                           *)

Absent  == [absent |-> TRUE]
Null    == [null |-> TRUE]
Num(n)  == [num |-> n]
Str(s)  == [str |-> s]
Bool(b) == [bool |-> b]
Arr(s)  == [arr |-> s]

Texts == {Str(<< >>), Str(<<97>>), Str(<<65, 98>>), Str(<<97, 98>>)}
Numbers == {Num(0), Num(1), Num(2)}
Scalars == Texts \cup Numbers \cup {Null, Bool(TRUE), Bool(FALSE)}
Arrays == {Arr(s) : s \in {<< >>, <<Num(1)>>, <<Num(1), Num(1)>>, <<Num(2), Num(1)>>,
                           <<Null, Num(1)>>, <<Str(<<97>>)>>, <<Str(<<65, 98>>), Null>>}}

Created == [f : Scalars \cup Arrays \cup {Absent}, g : {Absent, Num(1)}]

Payloads ==
    {[op \in {o} |-> [field \in {"f"} |-> v]] : o \in {"$set"}, v \in Scalars \cup Arrays}
    \cup {[op \in {"$inc"} |-> [field \in {"f", "g"} |-> 1]]}
    \cup {[op \in {o} |-> [field \in {"f"} |-> each]] :
             o \in {"$push", "$addToSet"}, each \in {<<Num(1)>>, <<Num(2), Num(2)>>, <<Null>>}}
    \cup {[op \in {"$pull"} |-> [field \in {"f"} |-> v]] : v \in {Num(1), Num(2), Null}}
    \cup {[op \in {"$unset"} |-> [field \in {"f"} |-> ""]]}
    \cup {[op \in {"$set", "$addToSet", "$pull"} |->
             [field \in {"f"} |-> CASE op = "$set" -> Arr(<< >>)
                                    [] op = "$addToSet" -> <<Num(2), Num(1), Num(2)>>
                                    [] op = "$pull" -> v]] : v \in {Num(1)}}
    \cup {[op \in {"$set", "$addToSet"} |->
             [field \in {"f"} |-> IF op = "$set" THEN Arr(<< >>) ELSE <<Num(2), Num(2)>>]]}

Cond(op, v) == [op |-> op, v |-> v, ci |-> FALSE]

Lists == {<< >>, <<Null>>, <<Num(1)>>, <<Null, Num(1)>>, <<Num(2), Num(1)>>,
          <<Str(<<97>>), Null>>}

ScalarConds ==
    {Cond(op, v) : op \in {"equals", "not"}, v \in Scalars}
    \cup {Cond(op, v) : op \in {"gt", "gte", "lt", "lte"}, v \in {Null, Num(1), Str(<<97>>)}}
    \cup {Cond(op, list) : op \in {"in", "notIn"}, list \in Lists}

Conds ==
    ScalarConds
    \cup {[op |-> op, v |-> v, ci |-> ci] :
             op \in {"contains", "startsWith", "endsWith"}, v \in Texts, ci \in BOOLEAN}
    \cup {Cond(op, v) : op \in {"contains", "has"}, v \in Numbers \cup {Str(<<97>>), Bool(TRUE)}}
    \cup {Cond("exists", want) : want \in BOOLEAN}
    \cup {Cond("elemMatch", {c}) : c \in ScalarConds}
    \cup {Cond("elemMatch", {Cond("gte", Num(1)), Cond("not", Num(2))})}

Leaf(c) == {[field |-> "f", is |-> {c}]}

OfG == {[field |-> "g", is |-> {Cond("gt", Num(0))}]}

Some == {Leaf(Cond("not", Num(1))), Leaf(Cond("gt", Num(0))), Leaf(Cond("in", <<Null, Num(1)>>)),
         Leaf(Cond("notIn", <<Num(1)>>)), OfG}

Wheres ==
    {Leaf(c) : c \in Conds}
    \cup {{[NOT |-> <<Leaf(c)>>]} : c \in Conds}
    \cup {{[AND |-> <<u, v>>]} : u, v \in Some} \cup {{[OR |-> <<u, v>>]} : u, v \in Some}
    \cup {{[NOT |-> <<u, v>>]} : u, v \in Some}
    \cup {{[NOT |-> <<{[OR |-> <<u, v>>]}>>]} : u, v \in Some}
    \cup {{[NOT |-> <<{[NOT |-> <<u>>]}>>]} \cup v : u, v \in Some}
    \cup {{}, {[AND |-> << >>]}, {[OR |-> << >>]}, {[NOT |-> << >>]},
          {[NOT |-> <<{[OR |-> << >>]}>>]}}

----------------------------------------------------------------------------

Filter == INSTANCE Filters WITH MaxNum <- 3, MaxLen <- 3

Reads == INSTANCE Aggregation WITH Ids <- 1..3,
            Groups <- {Absent, Null, Num(1), Str(<<97>>), Arr(<<Num(1), Num(2)>>), Arr(<< >>)},
            Amounts <- {Absent, Null, Num(1), Num(2)}

Zset == INSTANCE KvSortedSet WITH Members <- 1..3, MaxScore <- 2

OneProcess == [s \in Subscribers |-> p1]
OneChannel == [s \in Subscribers |-> a]

queryVars == <<doc, did, table>>
dataVars == <<storeVars, queryVars, searchVars, score>>

DataInit ==
    /\ part \in {"sqlite", "postgres", "filters", "reads", "index", "live", "cache", "zset",
                 "channel"}
    /\ StoresInit
    /\ Reads!AggregateInit /\ Zset!Init
    /\ IF part = "filters" THEN Filter!FilterInit ELSE doc = << >> /\ did = << >>
    /\ SearchInit /\ (part # "index" => plugin = "fts")

DataNext ==
    \/ StoresNext /\ UNCHANGED <<queryVars, searchVars, score>>
    \/ part = "filters" /\ Filter!FilterNext /\ UNCHANGED <<storeVars, table, searchVars, score>>
    \/ part = "reads" /\ Reads!AggregateNext /\ UNCHANGED <<storeVars, doc, did, searchVars, score>>
    \/ part = "index" /\ SearchNext /\ UNCHANGED <<storeVars, queryVars, score>>
    \/ part = "zset" /\ Zset!Next /\ UNCHANGED <<storeVars, queryVars, searchVars>>

DataSpec == DataInit /\ [][DataNext]_dataVars

----------------------------------------------------------------------------
(* What is checked is defined, and commented, in the modules named; the      *)
(* properties of the stores are DataStores', and IndexIsCurrent is Search's. *)

(* where: and the update operators, see Filters.                             *)
FiltersMeanWhatTheySay ==
    part = "filters" => Filter!FiltersMeanWhatTheySay /\ Filter!UpdatesAreFound

(* Engines, and languages, that are to answer the same: see Filters,         *)
(* Aggregation and KvSortedSet.                                              *)
EnginesReadAlike ==
    /\ part = "filters" => Filter!DialectsFindTheSame
    /\ part = "reads" => Reads!EnginesReadAlike
    /\ part = "zset" => Zset!RanksMatchRanges /\ Zset!RangesAgree

(* Groups, pages and aggregates, see Aggregation.                            *)
ReadsAddUp == part = "reads" => Reads!ReadsAddUp

(* Search results, see SearchHits.                                           *)
SearchesFindWhatMatches == part = "index" => HitsMatch
=============================================================================
