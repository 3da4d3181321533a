---------------------------- MODULE JobLifecycle ----------------------------
(***************************************************************************)
(* What the job queue promises about its jobs, with no table, no worker,   *)
(* no lease and no crash: a job is attempted one numbered attempt          *)
(* at a time; a newer attempt supersedes the older one; the outcome of an  *)
(* attempt is accepted at most once and only while it is the newest; a     *)
(* completion is final, and a failure either leaves the job open or is     *)
(* final.  At-least-once execution, exactly-once outcome.                  *)
(***************************************************************************)
EXTENDS Naturals, Sequences

CONSTANT Jobs

VARIABLES
    state,      \* of each job: "absent", "open", "completed" or "failed"
    newest,     \* the number of its newest attempt
    accepted    \* the outcomes accepted for it, in order

avars == <<state, newest, accepted>>

AInit == /\ state = [j \in Jobs |-> "absent"]
         /\ newest = [j \in Jobs |-> 0]
         /\ accepted = [j \in Jobs |-> << >>]

Submit(j) == /\ state[j] = "absent"
             /\ state' = [state EXCEPT ![j] = "open"]
             /\ UNCHANGED <<newest, accepted>>

Attempt(j) == /\ state[j] = "open"
              /\ newest' = [newest EXCEPT ![j] = @ + 1]
              /\ UNCHANGED <<state, accepted>>

(* The newest attempt has no accepted outcome yet. *)
Undecided(j) == /\ state[j] = "open"
                /\ newest[j] > 0
                /\ \A n \in DOMAIN accepted[j] :
                      accepted[j][n].attempt < newest[j]

Accept(j, outcome, end) ==
    /\ Undecided(j)
    /\ accepted' = [accepted EXCEPT ![j] =
                      Append(@, [outcome |-> outcome, attempt |-> newest[j]])]
    /\ state' = [state EXCEPT ![j] = end]
    /\ UNCHANGED newest

ANext == \E j \in Jobs : \/ Submit(j)
                         \/ Attempt(j)
                         \/ Accept(j, "completed", "completed")
                         \/ Accept(j, "failed", "open")
                         \/ Accept(j, "failed", "failed")

ASpec == AInit /\ [][ANext]_avars
=============================================================================
