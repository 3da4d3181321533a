---------------------------- MODULE MCTableSync ----------------------------
(* Constant values for the runs of TableSync. *)
EXTENDS TableSync

CONSTANTS d1, c1

OneCollection == [d \in Docs |-> c1]
SameClock     == [n \in Nodes \cup {Hub} |-> 0]
NoPreDocs     == [n \in Nodes |-> {}]
Opened        == [n \in Nodes \cup {Hub} |-> Collections]
=============================================================================
