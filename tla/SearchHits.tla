----------------------------- MODULE SearchHits -----------------------------
(***************************************************************************)
(* What search(), findSimilar() and hybridSearch() return, from the        *)
(* documents and the index of Search, on SQLite and on Postgres, where the *)
(* index is a column that the database keeps.  A filter is the set of the  *)
(* documents that satisfy it.  A text matches the one it equals; of two    *)
(* embeddings the equal one is the nearer.                                 *)
(***************************************************************************)
EXTENDS Search

CONSTANTS MaxLimit,   \* bound: the limit asked for
          RrfK,       \* the constant of the rank fusion
          Scale       \* a multiple of what a weight divides by

Everything == [filter |-> FALSE]
Only(docs) == [filter |-> TRUE, docs |-> docs]

Allowed(where) == IF where.filter THEN where.docs \cap Present ELSE Present

First(n, s) == SubSeq(s, 1, Min({n, Len(s)}))

(* Nearest, or of the best rank, first; ties stay as the rows are.          *)
Ranked(rows, q) ==
    SetToSortSeq(rows, LAMBDA a, b : IF (a.is = q) = (b.is = q) THEN a.rid < b.rid
                                     ELSE a.is = q)

Fetch(limit, where) ==
    IF where.filter THEN Min({Max({10 * limit, Floor}), Cap}) ELSE limit

FtsMatch(q, n) == First(n, Ranked({e \in entries : e.is = q}, q))

Kept_AfterLimit(rows, limit, docs) ==   \* mutant: what is filtered out is counted
    SelectSeq(First(limit, rows), LAMBDA e : e.doc \in docs)

Kept(rows, limit, docs) == First(limit, SelectSeq(rows, LAMBDA e : e.doc \in docs))

SearchFts(q, limit, where) == Kept(FtsMatch(q, Fetch(limit, where)), limit, Allowed(where))

(* The loop of findSimilar() looks at its limit after it has added a row.   *)
FindSimilar(q, limit, where) ==
    LET rows == First(Min({Fetch(limit, where), Cap}), Ranked(entries, q))
        named == SelectSeq(rows, LAMBDA e : ~where.filter \/ e.doc \in Allowed(where))
    IN IF limit = 0 THEN SelectSeq(First(1, named), LAMBDA e : e.doc \in Present)
       ELSE Kept(named, limit, Present)

(* Without the extension every embedding is compared, filtered ones only.   *)
FindSimilarBrute(q, limit, where) ==
    LET rows == {e \in entries : ~where.filter \/ e.doc \in Allowed(where)}
    IN SelectSeq(First(limit, Ranked(rows, q)), LAMBDA e : e.doc \in Present)

(* On Postgres: the rows are those of the table itself.                     *)
Column == {[rid |-> d, doc |-> d, is |-> stored[d].is] : d \in Present}

PgSearch(q, limit, where) ==
    Kept(First(Fetch(limit, where), Ranked({e \in Column : e.is = q}, q)), limit, Allowed(where))

PgFindSimilar(q, limit, where) ==
    Kept(First(Fetch(limit, where), Ranked({e \in Column : e.is # Nothing}, q)), limit,
         Allowed(where))

(* hybridSearch(): either arm gives its nth document 1 / (k + n).           *)
Weight(docs, d) ==
    IF \E i \in DOMAIN docs : docs[i] = d
    THEN Scale \div (RrfK + CHOOSE i \in DOMAIN docs : docs[i] = d) ELSE 0

Fused(keyword, semantic, d) == Weight(keyword, d) + Weight(semantic, d)

HybridSearch(text, near, topK, where) ==
    LET arm == [keyword |-> PgSearch(text, 4 * topK, where),
                semantic |-> PgFindSimilar(near, 4 * topK, where)]
        docs(of) == [i \in DOMAIN arm[of] |-> arm[of][i].doc]
        listed == docs("keyword") \o SelectSeq(docs("semantic"),
                                       LAMBDA d : d \notin Range(docs("keyword")))
        score(i) == Fused(docs("keyword"), docs("semantic"), listed[i])
    IN First(topK, [n \in 1..Len(listed) |->
                      listed[SetToSortSeq(DOMAIN listed,
                               LAMBDA i, j : IF score(i) = score(j) THEN i < j
                                             ELSE score(i) > score(j))[n]]])

----------------------------------------------------------------------------

Restrictions == {Everything} \cup {Only(docs) : docs \in SUBSET Ids}

Hits(q, limit, where) ==
    IF plugin = "fts" THEN {SearchFts(q, limit, where), PgSearch(q, limit, where)}
    ELSE {FindSimilarBrute(q, limit, where), PgFindSimilar(q, limit, where)}
         \cup IF limit = 0 THEN {} ELSE {FindSimilar(q, limit, where)}

(* Search results exist, satisfy the filter, are no more than asked for (of  *)
(* findSimilar(), unless that is none), and nothing that could have been      *)
(* among them was dropped unless more rows matched than are fetched.          *)
Exact ==
    \A q \in Contents, limit \in 0..MaxLimit, where \in Restrictions :
      \A hits \in Hits(q, limit, where) :
        /\ Len(hits) <= limit
        /\ \A i \in DOMAIN hits : hits[i].doc \in Allowed(where)
        /\ (/\ Len(hits) < limit /\ plugin = "fts"
            /\ Cardinality(entries) <= Fetch(limit, where)) =>
             \A d \in Allowed(where) :
               (stored[d].is = q /\ Agrees(d)) => \E i \in DOMAIN hits : hits[i].doc = d

(* With an index that is current SQLite and Postgres find the same.          *)
Alike ==
    (\A d \in Ids : Agrees(d)) =>
      \A q \in Contents, limit \in 1..MaxLimit, where \in Restrictions :
        (~where.filter \/ Cardinality(Present) <= Fetch(limit, where)) =>
          \A one, other \in Hits(q, limit, where) :
            Len(one) = Len(other) /\ \A i \in DOMAIN one : one[i].is = other[i].is

(* What both arms of a hybrid search rank higher, it ranks higher.           *)
Fuses ==
    \A text, near \in Contents, topK \in 0..MaxLimit :
      LET hits == HybridSearch(text, near, topK, Everything)
          semantic == PgFindSimilar(near, 4 * topK, Everything)
      IN /\ Len(hits) <= topK /\ IsInjective(hits)
         /\ \A i, j \in DOMAIN hits :
              (/\ stored[hits[i]].is = text /\ stored[hits[j]].is # text
               /\ \E m, n \in DOMAIN semantic :
                    m < n /\ semantic[m].doc = hits[i] /\ semantic[n].doc = hits[j])
              => i < j

(* Asked while no process is in catchUp().                                   *)
HitsMatch ==
    (\A p \in Searchers : task[p].step \in {"idle", "down"}) => Exact /\ Alike /\ Fuses

=============================================================================
