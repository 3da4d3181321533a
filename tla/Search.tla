------------------------------- MODULE Search -------------------------------
(***************************************************************************)
(* The search plugins on SQLite (packages/fts and packages/vector): an     *)
(* index beside the documents of a collection, in the same file.           *)
(*                                                                         *)
(* A process that has the plugin indexes what it writes in the transaction *)
(* of the write.  What others write it picks up with catchUp(), which no   *)
(* transaction covers: each of its statements commits on its own, and      *)
(* processes write in between.  A behaviour is about one plugin, "fts" or  *)
(* "vector"; a text and an embedding are both a member of Contents, and    *)
(* Nothing is a document that has neither.                                 *)
(***************************************************************************)
EXTENDS Integers, Sequences, FiniteSets, FiniteSetsExt, SequencesExt

CONSTANTS Searchers,    \* processes with the plugin
          Ids,
          Contents, Nothing,
          NoRecord,
          MaxTime,      \* bound: the clock
          MaxWrites,    \* bound: writes
          MaxCrashes,   \* bound: crashes
          MaxBusy,      \* bound: processes in catchUp(), or starting, at once
          Floor, Cap    \* the fewest and the most matches fetched for a filter

ASSUME SearchAssumption == MaxTime \in Nat \ {0}

VARIABLES plugin,       \* "fts" or "vector"
          stored,       \* the documents, each with its content and updated_at
          entries,      \* the rows of the index
          idMap,        \* the row a document is in (fts), 0 for none
          high,         \* the high-water mark
          clock,
          task,         \* per process, the catchUp() it is in
          writes, crashes,
          unseen,       \* history: documents last written by a process without the
                        \* plugin, which no catchUp() has looked for since
          passed,       \* history: documents a catchUp() did not look at because they
                        \* are stamped before the mark
          torn          \* history: the steps of indexing one document were cut by a
                        \* crash, or mixed with another process's

searchVars == <<plugin, stored, entries, idMap, high, clock, task, writes, crashes, unseen,
                passed, torn>>

Documents == [is : Contents \cup {Nothing}, at : 0..MaxTime]
Entries == [rid : Nat \ {0}, doc : Ids, is : Contents \cup {Nothing}]

(* What a process is about: where it is, and what it has read.              *)
Tasks == [step : {"idle", "down", "next", "clear", "read", "put", "unmap", "map", "drop",
                  "dropMap", "empty", "emptyMap"},
          phase : {"none", "catchUp", "open", "reindex"},
          todo : SUBSET (Ids \X (0..MaxTime)),   \* documents to index, and their stamps
          top : 0..MaxTime, sought : SUBSET Ids,
          doc : Ids \cup {Nothing},             \* in indexDoc(): of this one, found in row prev
          prev : Nat, content : Contents \cup {Nothing},
          orphans : SUBSET Entries, gone : Entries \cup {Nothing}]

Idle == [step |-> "idle", phase |-> "none", todo |-> {}, top |-> 0, sought |-> {},
         doc |-> Nothing, prev |-> 0, content |-> Nothing, orphans |-> {}, gone |-> Nothing]
At(step) == [Idle EXCEPT !.step = step]

TypeOK ==
    /\ plugin \in {"fts", "vector"}
    /\ stored \in [Ids -> Documents \cup {NoRecord}]
    /\ entries \subseteq Entries /\ idMap \in [Ids -> Nat]
    /\ high \in 0..MaxTime /\ clock \in 1..MaxTime
    /\ task \in [Searchers -> Tasks]
    /\ unseen \subseteq Ids /\ passed \subseteq Ids /\ torn \in BOOLEAN

SearchInit ==
    /\ plugin \in {"fts", "vector"}
    /\ stored = [d \in Ids |-> NoRecord] /\ entries = {} /\ idMap = [d \in Ids |-> 0]
    /\ high = 0 /\ clock = 1
    /\ task = [p \in Searchers |-> Idle]
    /\ writes = 0 /\ crashes = 0
    /\ unseen = {} /\ passed = {} /\ torn = FALSE

Present == {d \in Ids : stored[d] # NoRecord}

(* The process is between the first and the last statement of indexDoc(d),  *)
(* or is about to remove the entry of d as an orphan, or all mappings.      *)
MidIndex(p, d) ==
    \/ task[p].step \in {"clear", "read", "put", "unmap", "map"} /\ task[p].doc = d
    \/ task[p].step \in {"drop", "dropMap"} /\ \E o \in task[p].orphans : o.doc = d
    \/ task[p].step = "emptyMap"

Mixed(p, d) == torn' = (torn \/ \E q \in Searchers \ {p} : MidIndex(q, d))

----------------------------------------------------------------------------
(* indexDoc(), as one step: within the transaction of a write.              *)

(* A rowid no row has; that of one deleted may come back.                   *)
Rid(among) == Min((1..Cardinality(among) + 1) \ {e.rid : e \in among})

Cleared(among, map, d) ==
    {e \in among : IF plugin = "fts" THEN e.rid # map[d] ELSE e.doc # d}

(* A document without text has an fts row all the same, an empty one; one   *)
(* without an embedding has no row.                                         *)
Indexable(doc) == doc # NoRecord /\ (plugin = "fts" \/ doc.is # Nothing)

IndexDoc(d, doc) ==
    LET left == Cleared(entries, idMap, d) IN
    /\ entries' = IF Indexable(doc)
                  THEN left \cup {[rid |-> Rid(left), doc |-> d, is |-> doc.is]}
                  ELSE left
    /\ idMap' = [idMap EXCEPT ![d] = IF plugin = "fts" /\ doc # NoRecord THEN Rid(left) ELSE 0]

----------------------------------------------------------------------------
(* Writes.  A tick passes between any two, or does not.                     *)

Tick == clock < MaxTime /\ clock' = clock + 1
        /\ UNCHANGED <<plugin, stored, entries, idMap, high, task, writes, crashes, unseen,
                       passed, torn>>

Stamped(d, doc) ==
    /\ writes < MaxWrites /\ writes' = writes + 1
    /\ stored' = [stored EXCEPT ![d] = doc]

(* A write by a process that has the plugin: afterWrite() indexes it in the *)
(* same transaction, and says the index is current to now.                  *)
Writes(p, d, doc) ==
    /\ task[p].step = "idle"
    /\ doc # stored[d]
    /\ Stamped(d, doc)
    /\ IndexDoc(d, doc)
    /\ high' = clock
    /\ unseen' = unseen \ {d} /\ passed' = passed \ {d}
    /\ Mixed(p, d)
    /\ UNCHANGED <<plugin, clock, task, crashes>>

Unsought(docs) == [p \in Searchers |-> [task[p] EXCEPT !.sought = @ \ docs]]

(* A write by one that has not, or the same of a document that sync brings  *)
(* with the time it was written at elsewhere.                               *)
WritesPlain(d, doc) ==
    /\ doc # stored[d]
    /\ Stamped(d, doc)
    /\ unseen' = unseen \cup {d} /\ passed' = passed \ {d}
    /\ task' = Unsought({d})
    /\ UNCHANGED <<plugin, entries, idMap, high, clock, crashes, torn>>

Contented == {[is |-> c, at |-> clock] : c \in Contents \cup {Nothing}}

Older == {[is |-> c, at |-> clock - 1] : c \in Contents}

----------------------------------------------------------------------------
(* catchUp().                                                               *)

Looks_Later == {d \in Present : stored[d].at > high}   \* mutant: not those of this very time

(* What is not in the fts index at all is looked at whatever its stamp.     *)
Looks ==
    {d \in Present : stored[d].at >= high \/ (plugin = "fts" /\ idMap[d] = 0)}

(* catchUp() reads the mark, and the documents it is to index.  One that the *)
(* map has and the index has not, as another process is emptying both, it   *)
(* does not look for.                                                       *)
Sought ==
    {d \in unseen : d \in Present \ Looks =>
                      plugin = "vector" \/ \E e \in entries : e.doc = d}

Begun(phase) ==
    [At("next") EXCEPT !.phase = phase, !.todo = {<<d, stored[d].at>> : d \in Looks},
                       !.top = high, !.sought = Sought]

PassedBy ==
    passed \cup {d \in unseen \cap Present :
                   /\ stored[d].at < high
                   /\ plugin = "fts" => \E e \in entries : e.doc = d}

Free == Cardinality({p \in Searchers : task[p].step \notin {"idle", "down"}}) < MaxBusy

CatchUp(p) ==
    /\ task[p].step = "idle" /\ Free
    /\ task' = [task EXCEPT ![p] = Begun("catchUp")]
    /\ passed' = PassedBy
    /\ UNCHANGED <<plugin, stored, entries, idMap, high, clock, writes, crashes, unseen, torn>>

Untouched == <<plugin, stored, high, clock, writes, crashes, unseen, passed>>

On(p, step) == task[p].step = step

Goes(p, step) == [task[p] EXCEPT !.step = step]

(* To the next document: all that is kept is what is left to do.            *)
GoesOn(p) ==
    task' = [task EXCEPT ![p] = [At("next") EXCEPT !.phase = task[p].phase,
                                    !.todo = task[p].todo, !.top = task[p].top,
                                    !.sought = task[p].sought]]

(* indexDoc(), statement by statement: it finds the row of the document,    *)
(* deletes it, reads the document, adds a row and maps the document to it.  *)
IndexFinds(p) ==
    /\ On(p, "next")
    /\ \E entry \in task[p].todo :
         /\ task' = [task EXCEPT ![p] = [Goes(p, "clear") EXCEPT
                        !.todo = @ \ {entry}, !.top = Max({@, entry[2]}),
                        !.doc = entry[1], !.prev = idMap[entry[1]]]]
         /\ Mixed(p, entry[1])
    /\ UNCHANGED <<entries, idMap>> /\ UNCHANGED Untouched

IndexClears(p) ==
    /\ On(p, "clear")
    /\ entries' = Cleared(entries, [d \in Ids |-> task[p].prev], task[p].doc)
    /\ task' = [task EXCEPT ![p] = Goes(p, "read")]
    /\ UNCHANGED <<idMap, torn>> /\ UNCHANGED Untouched

IndexReads(p) ==
    LET doc == stored[task[p].doc] IN
    /\ On(p, "read")
    /\ IF Indexable(doc)
       THEN task' = [task EXCEPT ![p] = [Goes(p, "put") EXCEPT !.content = doc.is]]
       ELSE IF plugin = "fts" /\ task[p].prev # 0
       THEN task' = [task EXCEPT ![p] = Goes(p, "unmap")]
       ELSE GoesOn(p)
    /\ UNCHANGED <<entries, idMap, torn>> /\ UNCHANGED Untouched

IndexUnmaps(p) ==
    /\ On(p, "unmap")
    /\ idMap' = [idMap EXCEPT ![task[p].doc] = 0]
    /\ GoesOn(p)
    /\ UNCHANGED <<entries, torn>> /\ UNCHANGED Untouched

(* doc_id is the primary key of a vector table: if another has added the    *)
(* row meanwhile the statement fails, and catchUp() throws.                 *)
IndexPuts(p) ==
    LET t == task[p] IN
    /\ On(p, "put")
    /\ IF plugin = "vector" /\ \E e \in entries : e.doc = t.doc
       THEN /\ task' = [task EXCEPT ![p] = At(IF t.phase = "catchUp" THEN "idle" ELSE "down")]
            /\ UNCHANGED <<entries, idMap>>
       ELSE /\ entries' = entries \cup {[rid |-> Rid(entries), doc |-> t.doc,
                                         is |-> t.content]}
            /\ IF plugin = "fts"
               THEN task' = [task EXCEPT ![p] = [Goes(p, "map") EXCEPT !.prev = Rid(entries)]]
               ELSE GoesOn(p)
            /\ UNCHANGED idMap
    /\ UNCHANGED torn /\ UNCHANGED Untouched

IndexMaps(p) ==
    /\ On(p, "map")
    /\ idMap' = [idMap EXCEPT ![task[p].doc] = task[p].prev]
    /\ GoesOn(p)
    /\ UNCHANGED <<entries, torn>> /\ UNCHANGED Untouched

(* Then it reads which entries have no document, and removes them.          *)
Orphans(p) ==
    /\ On(p, "next") /\ task[p].todo = {} /\ task[p].phase # "reindex"
    /\ task' = [task EXCEPT ![p] = [Goes(p, "drop") EXCEPT
                   !.orphans = {e \in entries : e.doc \notin Present}]]
    /\ torn' = (torn \/ \E q \in Searchers \ {p}, d \in Ids \ Present : MidIndex(q, d))
    /\ UNCHANGED <<entries, idMap>> /\ UNCHANGED Untouched

DropsOrphan(p) ==
    /\ On(p, "drop")
    /\ \E o \in task[p].orphans :
         /\ entries' = IF plugin = "fts" THEN {e \in entries : e.rid # o.rid}
                       ELSE {e \in entries : e.doc # o.doc}
         /\ task' = [task EXCEPT ![p] =
                        IF plugin = "fts" THEN [Goes(p, "dropMap") EXCEPT !.gone = o]
                        ELSE [task[p] EXCEPT !.orphans = @ \ {o}]]
    /\ UNCHANGED <<idMap, torn>> /\ UNCHANGED Untouched

DropsMapping(p) ==
    /\ On(p, "dropMap")
    /\ idMap' = [idMap EXCEPT ![task[p].gone.doc] = 0]
    /\ task' = [task EXCEPT ![p] = [Goes(p, "drop") EXCEPT
                   !.orphans = @ \ {task[p].gone}, !.gone = Nothing]]
    /\ UNCHANGED <<entries, torn>> /\ UNCHANGED Untouched

(* Last it moves the mark to the latest stamp it has read.                  *)
Finishes(p) ==
    /\ On(p, "drop") /\ task[p].orphans = {}
    /\ high' = task[p].top
    /\ unseen' = unseen \ task[p].sought
    /\ task' = [task EXCEPT ![p] = At("idle")]
    /\ UNCHANGED <<plugin, stored, entries, idMap, clock, writes, crashes, passed, torn>>

----------------------------------------------------------------------------
(* A process that goes down, and init() of one that starts: it maps rows    *)
(* that have no mapping; fills an index that is empty with reindex(); and   *)
(* ends, as every start does, with catchUp().                               *)

Crash(p) ==
    /\ task[p].step # "down" /\ crashes < MaxCrashes /\ crashes' = crashes + 1
    /\ torn' = (torn \/ \E d \in Ids : MidIndex(p, d))
    /\ task' = [task EXCEPT ![p] = At("down")]
    /\ UNCHANGED <<plugin, stored, entries, idMap, high, clock, writes, unseen, passed>>

Migrated ==
    IF plugin = "vector" THEN idMap
    ELSE [d \in Ids |-> IF idMap[d] # 0 \/ ~ \E e \in entries : e.doc = d THEN idMap[d]
                        ELSE Min({e.rid : e \in {x \in entries : x.doc = d}})]

Opens(p) ==
    /\ On(p, "down") /\ Free
    /\ idMap' = Migrated
    /\ IF entries = {}
       THEN task' = [task EXCEPT ![p] = At("empty")] /\ UNCHANGED passed
       ELSE task' = [task EXCEPT ![p] = Begun("open")] /\ passed' = PassedBy
    /\ UNCHANGED <<plugin, stored, entries, high, clock, writes, crashes, unseen, torn>>

(* reindex() empties the index, then (fts) the map, reads the documents and *)
(* indexes each with the statements above.                                  *)
Empties(p) ==
    /\ On(p, "empty")
    /\ entries' = {}
    /\ unseen' = unseen \cup {e.doc : e \in entries}
    /\ task' = [Unsought({e.doc : e \in entries}) EXCEPT ![p] = At("emptyMap")]
    /\ torn' = (torn \/ \E q \in Searchers \ {p}, d \in Ids : MidIndex(q, d))
    /\ UNCHANGED <<plugin, stored, idMap, high, clock, writes, crashes, passed>>

EmptiesMap(p) ==
    /\ On(p, "emptyMap")
    /\ idMap' = [d \in Ids |-> 0]
    /\ task' = [task EXCEPT ![p] =
                  [At("next") EXCEPT !.phase = "reindex",
                                     !.todo = {<<d, stored[d].at>> : d \in Present}]]
    /\ torn' = (torn \/ \E q \in Searchers \ {p}, d \in Ids : MidIndex(q, d))
    /\ UNCHANGED entries /\ UNCHANGED Untouched

Reindexed(p) ==
    /\ On(p, "next") /\ task[p].todo = {} /\ task[p].phase = "reindex"
    /\ task' = [task EXCEPT ![p] = Begun("open")]
    /\ passed' = PassedBy
    /\ UNCHANGED <<plugin, stored, entries, idMap, high, clock, writes, crashes, unseen, torn>>

SearchSteps ==
    \/ Tick
    \/ \E d \in Ids :
         \/ \E doc \in Contented \cup {NoRecord} :
              WritesPlain(d, doc) \/ \E p \in Searchers : Writes(p, d, doc)
         \/ \E doc \in Older :
              WritesPlain(d, doc) \/ \E p \in Searchers : Writes(p, d, doc)
    \/ \E p \in Searchers :
         \/ CatchUp(p) \/ IndexFinds(p) \/ IndexClears(p) \/ IndexReads(p) \/ IndexUnmaps(p)
         \/ IndexPuts(p) \/ IndexMaps(p) \/ Orphans(p) \/ DropsOrphan(p) \/ DropsMapping(p)
         \/ Finishes(p) \/ Crash(p) \/ Opens(p) \/ Empties(p) \/ EmptiesMap(p)
         \/ Reindexed(p)

(* Of an index that is torn nothing is claimed, and it goes no further.      *)
SearchNext == ~torn /\ SearchSteps

(* What catchUp() is for: a document is in the index with the content it     *)
(* has, once, and none that is gone - whoever wrote it, wherever a process   *)
(* went down - except one not looked for yet, or stamped before the mark.    *)
Agrees(d) ==
    LET of == {e \in entries : e.doc = d} IN
    IF Indexable(stored[d])
    THEN \E e \in of : of = {e} /\ e.is = stored[d].is /\ (plugin = "fts" => idMap[d] = e.rid)
    ELSE of = {} /\ idMap[d] = 0

IndexIsCurrent ==
    ~torn => \A d \in Ids \ (unseen \cup passed) :
               (\A p \in Searchers : ~MidIndex(p, d)) => Agrees(d)

SearchSpec == SearchInit /\ [][SearchNext]_searchVars

=============================================================================
