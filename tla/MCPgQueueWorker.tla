-------------------------- MODULE MCPgQueueWorker --------------------------
(* Constant values for the runs of PgQueueWorker: model values only. *)
EXTENDS PgQueueWorker
CONSTANTS c1, c2
=============================================================================
