------------------------------- MODULE MCSync -------------------------------
(* What replication comes to in the end.  A behaviour is one of three parts: *)
(* nodes that sync through a hub, maybe with documents older than their     *)
(* feeds (HubSync); or through tables, with one writer and rejected pushes, *)
(* failed rounds and crashes (TableSync); or through the memory of their    *)
(* process, with nodes that also listen, and are stopped or fail            *)
(* (MemorySync).                                                            *)
EXTENDS HubSync

CONSTANTS TableWriter,                              \* of TableSync
          MaxTableFaults, MaxTableCrashes,          \* bounds
          MemoryDocs,                               \* of MemorySync
          MemoryWriters, MemoryBatch,
          Live, MaxUpsets,
          MaxMemoryWrites, MaxMemoryFaults          \* bounds

ASSUME PartsAssumption ==
    /\ TableWriter \in Nodes /\ IsFiniteSet(Collections)
    /\ MemoryDocs \subseteq Docs /\ MemoryWriters \subseteq Nodes
    /\ MemoryBatch \in Nat \ {0}
    /\ {MaxTableFaults, MaxTableCrashes, MaxMemoryWrites, MaxMemoryFaults} \subseteq Nat

VARIABLES part,
          rows,                                                    \* see TableSync
          log, started, starting, polling, hears, unwatch, upsets  \* see MemorySync

NoOldDocs == [n \in Nodes |-> {}]

Tables == INSTANCE TableSync
    WITH Writers <- {TableWriter}, Resolver <- "lww",
         PreDocs <- NoOldDocs, KeepLast <- NoCompaction,
         MaxFaults <- MaxTableFaults, MaxCrashes <- MaxTableCrashes
Memory == INSTANCE MemorySync
    WITH Writers <- MemoryWriters, BatchSize <- MemoryBatch,
         PreDocs <- NoOldDocs, KeepLast <- NoCompaction,
         MaxWrites <- MaxMemoryWrites, MaxFaults <- MaxMemoryFaults, MaxCrashes <- 0

nodeVars   == <<store, engine, limits>>
memory     == <<log, started, starting, polling, hears, unwatch, upsets>>
memoryVars == <<nodeVars, memory>>
hubVars    == <<nodeVars, hub, delivered>>
tableVars  == <<nodeVars, rows, delivered>>
mcVars     == <<part, memoryVars, hub, rows, delivered>>

-----------------------------------------------------------------------------
NoMemory == /\ log = << >>
            /\ started = [n \in Nodes |-> FALSE] /\ starting = [n \in Nodes |-> 0]
            /\ polling = [n \in Nodes |-> FALSE] /\ hears = [n \in Nodes |-> 0]
            /\ unwatch = [n \in Nodes |-> FALSE] /\ upsets = [n \in Nodes |-> 0]

MCInit == \/ part = "hub" /\ Init /\ rows = << >> /\ NoMemory
          \/ part = "tables" /\ Tables!Init /\ hub = << >> /\ NoMemory
          \/ part = "memory" /\ Memory!Init /\ hub = << >> /\ rows = << >> /\ delivered = << >>

(* Which documents there are, where nodes share a memory. *)
OnlyMemoryDocs ==
    \A n \in Nodes, d \in Docs \ MemoryDocs : store'[n].docs[d] = Absent

MCNext ==
    /\ UNCHANGED part
    /\ \/ part = "hub" /\ Next /\ UNCHANGED <<rows, memory>>
       \/ part = "tables" /\ Tables!Next /\ UNCHANGED <<hub, memory>>
       \/ part = "memory" /\ Memory!Next /\ OnlyMemoryDocs /\ UNCHANGED <<hub, rows, delivered>>

(* The fairness of HubSync, TableSync and MemorySync. *)
HubSteps(n) == \/ Progress(n) /\ UNCHANGED <<hub, delivered>>
               \/ Pull(n) \/ Push(n)
TableSteps(n) == \/ Tables!Progress(n) /\ UNCHANGED <<rows, delivered>>
                 \/ Tables!Pull(n) \/ Tables!PushOne(n) \/ Tables!PushDone(n)

MCFairness ==
    \A n \in Nodes : /\ WF_hubVars(part = "hub" /\ HubSteps(n))
                     /\ WF_tableVars(part = "tables" /\ TableSteps(n))
                     /\ \/ []<>(part # "memory" \/ ~Memory!Waits(n))
                        \/ []<><<part = "memory" /\ Memory!Advances(n)>>_memoryVars

MCSpec == MCInit /\ [][MCNext]_mcVars /\ MCFairness

-----------------------------------------------------------------------------
(* A change is marked as pushed only when the remote has taken it in, or a  *)
(* later change of the document: when the hub has, see HubSync; when the    *)
(* row has been written, see TableSync; when it is in the memory, see       *)
(* MemorySync.                                                              *)
MarkedHasArrived == /\ part = "hub"    => AckedIsDelivered
                    /\ part = "tables" => Tables!AckedIsDelivered
                    /\ part = "memory" => Memory!AckedIsDelivered

(* When the application has stopped writing, every node comes to hold what  *)
(* the remote holds, and this stays so, see HubSync, TableSync and          *)
(* MemorySync.                                                              *)
AllComeToAgree ==
    <>[](\A n \in Nodes, d \in Docs :
           /\ part = "tables" => Tables!Shows(n, d)
           /\ part = "hub" /\ CollOf[d] \in Colls(n) => Same(store[n], hub, d)
           /\ part = "memory" /\ started[n] /\ polling[n] => Memory!Shows(n, d))

(* The row of a document is never replaced by an older version of it, see   *)
(* TableSync.                                                               *)
RowsNeverGoBack ==
    [][part = "tables" =>
         \A d \in Docs :
           rows'[d] # rows[d] => Newer(rows'[d].version, rows[d].version)]_mcVars

-----------------------------------------------------------------------------
(* Constant values for the run. *)
CONSTANTS OnlyCollection, OldDoc

OneCollection == [d \in Docs |-> OnlyCollection]
SameClock     == [n \in Nodes \cup {Hub} |-> 0]
NoneOpen      == [n \in Nodes \cup {Hub} |-> {}]
OldInTwo      == [n \in Nodes |-> IF n = 2 THEN {OldDoc} ELSE {}]
OneUpset      == [n \in Nodes |-> IF n = 1 THEN 1 ELSE 0]
=============================================================================
