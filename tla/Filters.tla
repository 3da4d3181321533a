------------------------------- MODULE Filters -------------------------------
(***************************************************************************)
(* What a document is after an update and whether a filter finds it:       *)
(* src/query/update.ts on the one side, and on the other the SQL that      *)
(* src/query/where.ts makes of a filter for SQLite (json_extract) and for  *)
(* Postgres (jsonb), in SQL's three-valued logic, with the meaning a       *)
(* document database gives the filter as the reference.                    *)
(*                                                                         *)
(* A value is a record of one field, named for its type.  A string is a    *)
(* sequence of character codes.  A `where` object is the set of its parts. *)
(* Paths are single fields; `regex`, and elemMatch on objects, are left    *)
(* out, and text is compared by its codes (Postgres: the "C" collation).   *)
(***************************************************************************)
EXTENDS Integers, Sequences, FiniteSets, FiniteSetsExt, SequencesExt

CONSTANTS Created,    \* the documents created
          Payloads,   \* the updates made
          Wheres,     \* the filters asked
          MaxNum, MaxLen   \* bounds: numbers, and arrays, that $inc and $push make

VARIABLES doc,        \* the document
          did         \* the last update of it

filterVars == <<doc, did>>

Fields == {"f", "g"}

Absent  == [absent |-> TRUE]
Null    == [null |-> TRUE]
Num(n)  == [num |-> n]
Str(s)  == [str |-> s]
Bool(b) == [bool |-> b]
Arr(s)  == [arr |-> s]

Is(type, v) == type \in DOMAIN v

----------------------------------------------------------------------------
(* applyUpdate(): each operator is a function from the fields it names.     *)

At(m, field, d, new) == IF field \in DOMAIN m THEN new ELSE d[field]

Sequential(d, m, Op(_, _)) == [field \in Fields |-> IF field \in DOMAIN m
                                                    THEN Op(d[field], m[field]) ELSE d[field]]

Elements(v) == IF Is("arr", v) THEN v.arr ELSE << >>

Set(d, m) == Sequential(d, m, LAMBDA v, x : x)

Inc(d, m) == Sequential(d, m, LAMBDA v, by : Num((IF Is("num", v) THEN v.num ELSE 0) + by))

Push(d, m) == Sequential(d, m, LAMBDA v, each : Arr(Elements(v) \o each))

AddToSet(d, m) ==
    Sequential(d, m, LAMBDA v, each :
        Arr(FoldLeft(LAMBDA arr, x : IF Contains(arr, x) THEN arr ELSE Append(arr, x),
                     Elements(v), each)))

Pull(d, m) ==
    Sequential(d, m, LAMBDA v, x :
        IF Is("arr", v) THEN Arr(SelectSeq(v.arr, LAMBDA y : y # x)) ELSE v)

Unset(d, m) == Sequential(d, m, LAMBDA v, x : Absent)

(* null and a missing field count as nothing yet; anything else throws.     *)
Takes(d, m, type) ==
    \A field \in DOMAIN m : d[field] \in {Absent, Null} \/ Is(type, d[field])

Given(data, op) == IF op \in DOMAIN data THEN data[op] ELSE << >>

(* The operators in their order; << >> where one throws.                    *)
ApplyUpdate(d, data) ==
    LET set  == Set(d, Given(data, "$set"))
        inc  == Inc(set, Given(data, "$inc"))
        push == Push(inc, Given(data, "$push"))
        add  == AddToSet(push, Given(data, "$addToSet"))
        pull == Pull(add, Given(data, "$pull"))
    IN IF /\ Takes(set, Given(data, "$inc"), "num")
          /\ Takes(inc, Given(data, "$push"), "arr")
          /\ Takes(push, Given(data, "$addToSet"), "arr")
       THEN <<Unset(pull, Given(data, "$unset"))>>
       ELSE << >>

----------------------------------------------------------------------------
(* Truth in SQL.                                                            *)
False == 0
Unknown == 1
True == 2

T3(b) == IF b THEN True ELSE False

IsNull(v) == v = Null

Not3(t) == True - t

(* Strings. *)
Lower(s) == [i \in DOMAIN s |-> IF s[i] \in 65..90 THEN s[i] + 32 ELSE s[i]]

Fold(ci, v) == IF ci /\ Is("str", v) THEN Str(Lower(v.str)) ELSE v

InStr(s, t) == \E i \in 0..(Len(s) - Len(t)) : SubSeq(s, i + 1, i + Len(t)) = t

Less(s, t) ==
    \/ IsStrictPrefix(s, t)
    \/ \E i \in DOMAIN s \cap DOMAIN t : /\ s[i] < t[i]
                                         /\ \A j \in 1..(i - 1) : s[j] = t[j]

Compares(op, lt, eq) ==
    CASE op = "gt"  -> ~lt /\ ~eq
      [] op = "gte" -> ~lt
      [] op = "lt"  -> lt
      [] op = "lte" -> lt \/ eq

----------------------------------------------------------------------------
(* SQLite.  json_extract() and a bound value: a boolean is a number, an     *)
(* array its JSON text, a missing field NULL.                               *)
Sql(v) == CASE Is("absent", v) -> Null
            [] Is("bool", v)   -> Num(IF v.bool THEN 1 ELSE 0)
            [] OTHER           -> v

Eq3(a, b) == IF IsNull(a) \/ IsNull(b) THEN Unknown ELSE T3(a = b)

EqExpr(e, v) == IF IsNull(v) THEN T3(IsNull(e)) ELSE Eq3(e, Sql(v))

NotExpr_Plain(e, v) ==   \* mutant: a missing field is not "not equal"
    IF IsNull(v) THEN T3(~IsNull(e)) ELSE Not3(Eq3(e, Sql(v)))

NotExpr(e, v) ==
    IF IsNull(v) THEN T3(~IsNull(e))
    ELSE Max({T3(IsNull(e)), Not3(Eq3(e, Sql(v)))})

(* Numbers come before text. *)
Cmp(e, op, v) ==
    IF IsNull(e) \/ IsNull(v) THEN Unknown
    ELSE T3(Compares(op, IF Is("num", e) /\ Is("num", Sql(v)) THEN e.num < Sql(v).num
                         ELSE IF Is("str", e) /\ Is("str", v) THEN Less(e.str, v.str)
                         ELSE Is("num", e),
                     e = Sql(v)))

In3(e, vs) == IF vs = {} THEN False ELSE Max({Eq3(e, Sql(v)) : v \in vs})

InExpr(e, list, negate) ==
    LET nonNull == Range(list) \ {Null}
        hasNull == Null \in Range(list)
    IN IF negate
       THEN CASE list = << >>   -> True
              [] nonNull = {}   -> T3(~IsNull(e))
              [] OTHER          -> Max({T3(IsNull(e)), Not3(In3(e, nonNull))})
       ELSE CASE nonNull = {}   -> T3(hasNull /\ IsNull(e))
              [] hasNull        -> Max({In3(e, nonNull), T3(IsNull(e))})
              [] OTHER          -> In3(e, nonNull)

(* json_each(): the elements of an array, a scalar itself, nothing of a     *)
(* missing field.                                                           *)
JsonEach(v) == CASE Is("absent", v) -> {}
                 [] Is("arr", v)    -> {Sql(x) : x \in Range(v.arr)}
                 [] OTHER           -> {Sql(v)}

MemberExpr(v, x, ci) == T3(\E e \in JsonEach(v) : Eq3(Fold(ci, e), Fold(ci, Sql(x))) = True)

TextExpr(v, Test(_)) == IF Is("str", v) THEN T3(Test(v.str)) ELSE Unknown

ContainsExpr(v, x, ci) ==
    IF Is("arr", v) THEN MemberExpr(v, x, ci)
    ELSE TextExpr(Fold(ci, v), LAMBDA s : InStr(s, Fold(ci, x).str))

StartsWith(v, x, ci) ==
    TextExpr(Fold(ci, v), LAMBDA s : IsPrefix(Fold(ci, x).str, s))

(* substr(x, -n) is all of a shorter x; -0 would be nothing of it.          *)
EndsWith(v, x, ci) ==
    IF x.str = << >> THEN T3(~IsNull(Sql(v)))
    ELSE TextExpr(Fold(ci, v), LAMBDA s : IsSuffix(Fold(ci, x).str, s))

HasExpr(v, x) == MemberExpr(v, x, FALSE)

ExistsExpr(v, want) == T3(Is("absent", v) # want)

Scalar(e, c) ==
    CASE c.op = "equals" -> EqExpr(e, c.v)
      [] c.op = "not"    -> NotExpr(e, c.v)
      [] c.op = "in"     -> InExpr(e, c.v, FALSE)
      [] c.op = "notIn"  -> InExpr(e, c.v, TRUE)
      [] OTHER           -> Cmp(e, c.op, c.v)

ElemMatchExpr(v, conds) ==
    T3(~IsNull(Sql(v)) /\ \E e \in JsonEach(v) : Min({Scalar(e, c) : c \in conds}) = True)

(* translateField(): one operator of a field.                               *)
TranslateField(v, c) ==
    CASE c.op = "contains"   -> ContainsExpr(v, c.v, c.ci)
      [] c.op = "startsWith" -> StartsWith(v, c.v, c.ci)
      [] c.op = "endsWith"   -> EndsWith(v, c.v, c.ci)
      [] c.op = "has"        -> HasExpr(v, c.v)
      [] c.op = "elemMatch"  -> ElemMatchExpr(v, c.v)
      [] c.op = "exists"     -> ExistsExpr(v, c.v)
      [] OTHER               -> Scalar(Sql(v), c)

----------------------------------------------------------------------------
(* Postgres: data->'f' is NULL for a missing field only, data->>'f' is the  *)
(* text, NULL for a null as well.                                           *)
ToJsonb(v) == IF IsNull(v) THEN Absent ELSE v

PgEq(jsn, x) == IF Absent \in {jsn, x} THEN Unknown ELSE T3(jsn = x)

PgIsNull(jsn) == T3(jsn = Absent)

PgNone(jsn) == Max({PgIsNull(jsn), PgEq(jsn, Null)})

PgEquals(jsn, v) == IF IsNull(v) THEN PgNone(jsn) ELSE PgEq(jsn, ToJsonb(v))

PgNot(jsn, v) ==
    IF IsNull(v) THEN Min({Not3(PgIsNull(jsn)), Not3(PgEq(jsn, Null))})
    ELSE Max({PgIsNull(jsn), Not3(PgEq(jsn, ToJsonb(v)))})

PgIn_Bound(jsn, list) ==   \* mutant: the null of the list is bound with the others
    IF list = << >> THEN False ELSE Max({PgEq(jsn, ToJsonb(v)) : v \in Range(list)})

PgIn(jsn, list) ==
    Max({False} \cup {PgEq(jsn, v) : v \in Range(list) \ {Null}}
                \cup (IF Null \in Range(list) THEN {PgNone(jsn)} ELSE {}))

PgNotIn(jsn, list) ==
    IF list = << >> THEN True
    ELSE Max({PgIsNull(jsn), Not3(Max({PgEq(jsn, ToJsonb(v)) : v \in Range(list)}))})

(* A number is compared as one, and its cast fails on other text; the rest  *)
(* is compared as text.                                                     *)
PgCmp(jsn, op, v) ==
    IF jsn \in {Absent, Null} \/ IsNull(v) THEN Unknown
    ELSE T3(Compares(op, IF Is("num", v) THEN jsn.num < v.num ELSE Less(jsn.str, v.str), jsn = v))

PgHas(jsn, v) ==
    IF Absent \in {jsn, ToJsonb(v)} THEN Unknown
    ELSE T3(IF Is("arr", jsn) THEN Contains(jsn.arr, v) ELSE jsn = v)

PgContains(jsn, x, ci) ==
    IF Is("arr", jsn) THEN PgHas(jsn, x)
    ELSE TextExpr(Fold(ci, jsn), LAMBDA s : InStr(s, Fold(ci, x).str))

PgScalar(jsn, c) ==
    CASE c.op = "equals" -> PgEquals(jsn, c.v)
      [] c.op = "not"    -> PgNot(jsn, c.v)
      [] c.op = "in"     -> PgIn(jsn, c.v)
      [] c.op = "notIn"  -> PgNotIn(jsn, c.v)
      [] OTHER           -> PgCmp(jsn, c.op, c.v)

(* The elements of an array; there, equals and in do not single out null.   *)
PgElemMatch(jsn, conds) ==
    LET Elem(e, c) == CASE c.op = "equals" -> PgEq(e, ToJsonb(c.v))
                        [] c.op = "in"     -> PgIn_Bound(e, c.v)
                        [] OTHER           -> PgScalar(e, c)
    IN T3(\E i \in DOMAIN Elements(jsn) : Min({Elem(Elements(jsn)[i], c) : c \in conds}) = True)

PgTranslateField(jsn, c) ==
    CASE c.op = "contains"   -> PgContains(jsn, c.v, c.ci)
      [] c.op = "startsWith" -> StartsWith(jsn, c.v, c.ci)
      [] c.op = "endsWith"   -> EndsWith(jsn, c.v, c.ci)
      [] c.op = "has"        -> PgHas(jsn, c.v)
      [] c.op = "elemMatch"  -> PgElemMatch(jsn, c.v)
      [] c.op = "exists"     -> T3((jsn # Absent) = c.v)
      [] OTHER               -> PgScalar(jsn, c)

----------------------------------------------------------------------------
(* translateObject(): the parts of an object, of which an empty one has no  *)
(* SQL - {} - and drops out.                                                *)

Negate(ts) == IF ts = {} THEN {} ELSE {T3(Min(ts) # True)}

All(ts) == IF ts = {} THEN {} ELSE {Min(ts)}

RECURSIVE TranslateObject(_, _, _)
TranslateObject(where, d, dialect) ==
    LET Subs(list) == UNION {TranslateObject(w, d, dialect) : w \in Range(list)}
        Leaf(v, c) == IF dialect = "postgres" THEN PgTranslateField(v, c) ELSE TranslateField(v, c)
        Part(part) ==
            CASE "AND" \in DOMAIN part -> All(Subs(part.AND))
              [] "NOT" \in DOMAIN part -> Negate(Subs(part.NOT))
              [] "OR" \in DOMAIN part  ->
                    IF part.OR = << >> THEN {False}
                    ELSE LET ts == Subs(part.OR) IN IF ts = {} THEN {} ELSE {Max(ts)}
              [] OTHER -> All({Leaf(d[part.field], c) : c \in part.is})
    IN All(UNION {Part(part) : part \in where})

(* buildWhere(), and whether the row is one of the SELECT's.                *)
Finds(where, d, dialect) == TranslateObject(where, d, dialect) \subseteq {True}

----------------------------------------------------------------------------
(* Update: a new document for the old one, or it throws.                    *)
Bounded(d) == \A field \in Fields : /\ Is("num", d[field]) => d[field].num <= MaxNum
                                    /\ Is("arr", d[field]) => Len(d[field].arr) <= MaxLen

FilterInit == doc \in Created /\ did = << >>

Update(data) ==
    /\ \E new \in Range(ApplyUpdate(doc, data)) : doc' = new /\ Bounded(new)
    /\ did' = data

FilterNext == \E data \in Payloads : Update(data)

FilterSpec == FilterInit /\ [][FilterNext]_filterVars

----------------------------------------------------------------------------
(* What a filter means to a document database: a missing field is null, it  *)
(* is not equal to anything else and not in any list (where.ts:            *)
(* "Mongo/Prisma semantics: a missing field counts as 'not equal'", "notIn  *)
(* includes null/missing rows"), and an array has its elements.             *)
Value(v) == IF Is("absent", v) THEN Null ELSE v

Holds(v, c) ==
    CASE c.op = "equals" -> Value(v) = c.v
      [] c.op = "not"    -> Value(v) # c.v
      [] c.op = "in"     -> Contains(c.v, Value(v))
      [] c.op = "notIn"  -> \/ Range(c.v) = {Null} /\ Value(v) # Null
                            \/ Range(c.v) # {Null} /\ (Value(v) = Null \/ ~Contains(c.v, v))
      [] OTHER           ->
            LET x == c.v IN
            \/ Is("num", v) /\ Is("num", x) /\ Compares(c.op, v.num < x.num, v = x)
            \/ Is("str", v) /\ Is("str", x) /\ Compares(c.op, Less(v.str, x.str), v = x)

Text(v, c, Test(_, _)) ==
    Is("str", v) /\ IF c.ci THEN Test(Lower(v.str), Lower(c.v.str)) ELSE Test(v.str, c.v.str)

HoldsField(v, c) ==
    CASE c.op = "contains"   -> \/ Text(v, c, LAMBDA s, t : InStr(s, t))
                                \/ \E x \in Range(Elements(v)) : Fold(c.ci, x) = Fold(c.ci, c.v)
      [] c.op = "startsWith" -> Text(v, c, LAMBDA s, t : IsPrefix(t, s))
      [] c.op = "endsWith"   -> Text(v, c, LAMBDA s, t : IsSuffix(t, s))
      [] c.op = "has"        -> v = c.v \/ Contains(Elements(v), c.v)
      [] c.op = "elemMatch"  -> \E x \in Range(Elements(v)) : \A e \in c.v : Holds(x, e)
      [] c.op = "exists"     -> ~Is("absent", v) = c.v
      [] OTHER               -> Holds(v, c)

RECURSIVE Means(_, _)
Means(where, d) ==
    \A part \in where :
        CASE "AND" \in DOMAIN part -> \A w \in Range(part.AND) : Means(w, d)
          [] "NOT" \in DOMAIN part -> part.NOT = << >> \/ \E w \in Range(part.NOT) : ~Means(w, d)
          [] "OR" \in DOMAIN part  -> \E w \in Range(part.OR) : Means(w, d)
          [] OTHER                 -> \A c \in part.is : HoldsField(d[part.field], c)

(* A filter fits a document whose field is null, missing, or of the type    *)
(* that the operator is for.  Outside of it the engines compare by          *)
(* different orders, or Postgres fails a cast.                              *)
Types(v) == CASE Is("arr", v) -> UNION {DOMAIN x : x \in Range(v.arr)} [] OTHER -> DOMAIN v

Operand(c) == IF c.op \in {"in", "notIn"} THEN Range(c.v) ELSE {c.v}

Alike(v, c) ==
    Types(v) \cup UNION {DOMAIN x : x \in Operand(c)} \subseteq {"absent", "null", "num"}
    \/ Types(v) \cup UNION {DOMAIN x : x \in Operand(c)} \subseteq {"absent", "null", "str"}
    \/ Types(v) \cup UNION {DOMAIN x : x \in Operand(c)} \subseteq {"absent", "null", "bool"}

FitsField(v, c) ==
    CASE c.op = "exists"     -> TRUE
      [] c.op = "elemMatch"  -> (Is("arr", v) \/ Value(v) = Null) /\ \A e \in c.v : Alike(v, e)
      [] c.op = "has"        -> Alike(v, c)
      [] c.op = "contains"   -> Alike(v, c) /\ (Is("str", c.v) \/ Is("arr", v) \/ Value(v) = Null)
      [] OTHER               -> Alike(v, c) /\ ~Is("arr", v)

(* Where the engines are known to differ: a null in the list of notIn, or   *)
(* under elemMatch, where a null field is an error too; and letter case in  *)
(* an array, which Postgres always minds.                                   *)
Differ(v, c) ==
    \/ c.op = "notIn" /\ Null \in Operand(c)
    \/ c.op = "elemMatch" /\ (v = Null \/ \E e \in c.v : Null \in Operand(e))
    \/ c.op = "contains" /\ c.ci /\ Is("arr", v)

RECURSIVE Fits(_, _, _)
Fits(where, d, both) ==
    \A part \in where :
        CASE "AND" \in DOMAIN part -> \A w \in Range(part.AND) : w # {} /\ Fits(w, d, both)
          [] "NOT" \in DOMAIN part -> \A w \in Range(part.NOT) : w # {} /\ Fits(w, d, both)
          [] "OR" \in DOMAIN part  -> \A w \in Range(part.OR) : w # {} /\ Fits(w, d, both)
          [] OTHER -> \A c \in part.is : FitsField(d[part.field], c)
                                         /\ (both => ~Differ(d[part.field], c))

(* A filter finds the documents that it describes: nulls and missing fields *)
(* do not fall out of a negation, nor does a null in a list empty it.       *)
FiltersMeanWhatTheySay ==
    \A w \in Wheres : Fits(w, doc, FALSE) => Finds(w, doc, "sqlite") = Means(w, doc)

(* The two dialects find the same documents.                                *)
DialectsFindTheSame ==
    \A w \in Wheres :
        Fits(w, doc, TRUE) => Finds(w, doc, "postgres") = Finds(w, doc, "sqlite")

(* What an update has made of a document is what a filter finds: what was   *)
(* set equals it, what was pushed or added is had, and the last operators   *)
(* win.  $addToSet leaves no value that it adds twice, $pull none at all.   *)
Asks(field, op, v) == {[field |-> field, is |-> {[op |-> op, v |-> v, ci |-> FALSE]}]}

UpdatesAreFound ==
    LET Named(op, field) == op \in DOMAIN did /\ field \in DOMAIN did[op]
        Found(field, op, v) == \A dialect \in {"sqlite", "postgres"} :
                                   Finds(Asks(field, op, v), doc, dialect)
        Times(field, x) == Cardinality({i \in DOMAIN doc[field].arr : doc[field].arr[i] = x})
    IN \A field \in Fields :
          IF Named("$unset", field) THEN Found(field, "exists", FALSE)
          ELSE /\ Named("$pull", field) /\ did["$pull"][field] # Null
                  => ~Is("arr", doc[field]) \/ ~Found(field, "has", did["$pull"][field])
               /\ ~Named("$pull", field) /\ Named("$push", field)
                  => \A x \in Range(did["$push"][field]) \ {Null} : Found(field, "has", x)
               /\ ~Named("$pull", field) /\ Named("$addToSet", field)
                  => \A x \in Range(did["$addToSet"][field]) \ {Null} :
                         Found(field, "has", x) /\ (Named("$set", field) => Times(field, x) = 1)
               /\ Named("$set", field) /\ DOMAIN did = {"$set"}
                  => Found(field, "equals", did["$set"][field])
=============================================================================
