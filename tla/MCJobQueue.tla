----------------------------- MODULE MCJobQueue -----------------------------
(* Constant values for the runs of JobQueue. *)
EXTENDS JobQueue, TLC

CONSTANTS w1, w2, p1, fast, key

OneQueue == [w \in Workers |-> fast]

(* Backoffs of 0 and 1 units: due again at once, or after a delay. *)
ShortBackoff == [a \in 1..AttemptCap |-> IF a = 1 THEN 0 ELSE 1]

Timeout2 == [n \in Names |-> 2]

=============================================================================
