-------------------------- MODULE JobQueueProofs ---------------------------
(***************************************************************************)
(* Theorems about JobQueue, for every value of its constants: types and    *)
(* fences, the lifecycle it implements, that finished rows are final; with *)
(* timeouts that the heartbeats can keep up with, no running handler loses *)
(* its row unless an event loop has stalled, and only runs that were lost  *)
(* let a job exceed its attempts; one producer keeps live keys unique.     *)
(*                                                                         *)
(* And what one worker object of the queue keeps, in MCWorkers, at every   *)
(* number of slots, every rate limit and every poll interval: the SQLite   *)
(* loop drains before stop() resolves (StopDrains), and neither loop ever  *)
(* starts more handlers than its slots and its sliding window allow        *)
(* (LimitsHold).                                                           *)
(***************************************************************************)
EXTENDS MCWorkers, SequenceTheorems, WellFoundedInduction, TLAPS

-----------------------------------------------------------------------------
(* The updates that the statements make to a row leave it a row. *)

LEMMA RowFields ==
    ASSUME NEW row \in Rows
    PROVE  /\ row.status \in Statuses /\ row.attempts \in Attempts
           /\ row.wait \in Nat /\ row.age \in Nat
           /\ row.queue \in Names /\ row.maxAttempts \in AttemptLimits
BY DEF Rows

LEMMA RowTouched ==
    ASSUME NEW row \in Rows, NEW age \in Nat
    PROVE  [row EXCEPT !.age = age] \in Rows
BY Zenon DEF Rows

LEMMA RowAged ==
    ASSUME NEW row \in Rows, NEW wait \in Nat, NEW age \in Nat
    PROVE  [row EXCEPT !.wait = wait, !.age = age] \in Rows
BY Zenon DEF Rows

LEMMA RowMoved ==
    ASSUME NEW row \in Rows, NEW status \in Statuses, NEW age \in Nat
    PROVE  [row EXCEPT !.status = status, !.age = age] \in Rows
BY Zenon DEF Rows

LEMMA RowDelayed ==
    ASSUME NEW row \in Rows, NEW status \in Statuses, NEW age \in Nat,
           NEW wait \in Nat
    PROVE  [row EXCEPT !.status = status, !.age = age, !.wait = wait] \in Rows
BY Zenon DEF Rows

LEMMA RowClaimed ==
    ASSUME NEW row \in Rows, NEW status \in Statuses,
           NEW attempts \in Attempts, NEW age \in Nat
    PROVE  [row EXCEPT !.status = status, !.attempts = attempts, !.age = age]
              \in Rows
BY Zenon DEF Rows

-----------------------------------------------------------------------------
(* Each kind of step keeps the shape of the state. *)

LEMMA InsertType ==
    ASSUME TypeOK,
           NEW n \in Names, NEW k \in JobKeys \cup {NoKey},
           NEW priority \in Priorities, NEW delay \in Delays,
           NEW limit \in AttemptLimits,
           InsertJob(n, k, priority, delay, limit),
           adding' \in [Producers -> Requests \cup {NoRequest}]
    PROVE  TypeOK'
<1> USE SetsAssumption, BoundsAssumption DEF TypeOK, Ids, table, budgets
<1> DEFINE row == [status |-> "pending", queue |-> n, jobId |-> k,
                   priority |-> priority, attempts |-> 0,
                   maxAttempts |-> limit, wait |-> delay, age |-> 0]
<1>1. lastId' \in 0..MaxJobs /\ Ids \subseteq Ids'
  BY DEF InsertJob
<1>2. row \in Rows
  BY DEF Rows, Statuses, Attempts
<1>3. jobs' \in [Ids' -> Rows]
  BY <1>1, <1>2 DEF InsertJob
<1>4. settlements' \in [Ids' -> Seq(Settlement)]
  BY <1>1 DEF InsertJob
<1>5. \A r \in runs' : r.id \in Ids'
  BY <1>1 DEF InsertJob
<1> QED BY <1>1, <1>3, <1>4, <1>5 DEF InsertJob

LEMMA ClaimType ==
    ASSUME TypeOK, NEW w \in Workers, Claim(w)
    PROVE  TypeOK'
<1>1. PICK i \in Due(QueueOf[w]) :
         /\ jobs[i].attempts < AttemptCap
         /\ jobs' = [jobs EXCEPT ![i] = [@ EXCEPT !.status = "active",
                                                  !.attempts = jobs[i].attempts + 1,
                                                  !.age = 0]]
         /\ runs' = runs \cup {[worker |-> w, id |-> i,
                                attempt |-> jobs[i].attempts + 1]}
  BY DEF Claim, Claimable
<1>2. /\ i \in Ids /\ jobs[i] \in Rows /\ jobs \in [Ids -> Rows]
      /\ i \in 1..MaxJobs
  BY BoundsAssumption DEF TypeOK, Due, Ids
<1>3. jobs[i].attempts + 1 \in 1..AttemptCap
  BY <1>1, <1>2, RowFields, BoundsAssumption DEF Attempts
<1> DEFINE row == [jobs[i] EXCEPT !.status = "active",
                                  !.attempts = jobs[i].attempts + 1,
                                  !.age = 0]
<1>4. row \in Rows
  <2>1. "active" \in Statuses /\ jobs[i].attempts + 1 \in Attempts /\ 0 \in Nat
    BY <1>3, BoundsAssumption DEF Statuses, Attempts
  <2> QED BY <1>2, <2>1, RowClaimed
<1>5. jobs' \in [Ids -> Rows]
  <2>1. jobs' = [jobs EXCEPT ![i] = row]
    BY <1>1
  <2> HIDE DEF row
  <2> QED BY <1>2, <1>4, <2>1
<1>6. [worker |-> w, id |-> i, attempt |-> jobs[i].attempts + 1] \in Runs
  BY <1>2, <1>3 DEF Runs
<1>7. runs' \subseteq Runs /\ \A r \in runs' : r.id \in Ids
  BY <1>1, <1>2, <1>6 DEF TypeOK
<1> QED BY <1>5, <1>7 DEF Claim, TypeOK, Ids, budgets

LEMMA SettleType ==
    ASSUME TypeOK, NEW r \in runs, Settle(r)
    PROVE  TypeOK'
<1> DEFINE row == jobs[r.id]
<1>1. /\ r \in Runs /\ r.id \in Ids /\ row \in Rows /\ jobs \in [Ids -> Rows]
      /\ r.attempt \in 1..AttemptCap
      /\ settlements \in [Ids -> Seq(Settlement)]
  BY DEF TypeOK, Runs
<1>2. jobs' \in [Ids -> Rows]
  <2>1. CASE CompleteInternal(r)
    <3> DEFINE end == IF RemoveOnComplete THEN "removed" ELSE "done"
    <3>1. end \in Statuses
      BY DEF Statuses
    <3>2. [row EXCEPT !.status = end, !.age = 0] \in Rows
      <4> HIDE DEF end, row
      <4> QED BY <1>1, <3>1, RowMoved
    <3> QED BY <1>1, <2>1, <3>2 DEF CompleteInternal
  <2>2. CASE FailInternal(r)
    <3>1. [row EXCEPT !.status = "failed", !.age = 0] \in Rows
      <4>1. "failed" \in Statuses
        BY DEF Statuses
      <4> HIDE DEF row
      <4> QED BY <1>1, <4>1, RowMoved
    <3>2. [row EXCEPT !.status = "pending", !.age = 0,
                      !.wait = Backoff[r.attempt]] \in Rows
      <4>1. "pending" \in Statuses
        BY DEF Statuses
      <4>2. Backoff[r.attempt] \in Nat
        BY <1>1, OptionsAssumption
      <4> HIDE DEF row
      <4> QED BY <1>1, <4>1, <4>2, RowDelayed
    <3> QED BY <1>1, <2>2, <3>1, <3>2 DEF FailInternal
  <2> QED BY <2>1, <2>2 DEF Settle
<1>3. ASSUME NEW o \in Outcomes, Record(r, o)
      PROVE  settlements' \in [Ids -> Seq(Settlement)]
  <2>1. [outcome |-> o, attempt |-> r.attempt] \in Settlement
    BY <1>1 DEF Settlement, Runs
  <2>2. Append(settlements[r.id], [outcome |-> o, attempt |-> r.attempt])
           \in Seq(Settlement)
    BY <1>1, <2>1
  <2> QED BY <1>1, <1>3, <2>2 DEF Record
<1>4. settlements' \in [Ids -> Seq(Settlement)]
  BY <1>1, <1>3 DEF Settle, CompleteInternal, FailInternal, Outcomes
<1> QED BY <1>2, <1>4 DEF Settle, TypeOK, Ids, budgets

LEMMA RecoverType ==
    ASSUME TypeOK, NEW olderThan, NEW names, Recover(olderThan, names)
    PROVE  TypeOK'
<1>1. ASSUME NEW i \in Ids
      PROVE  [jobs[i] EXCEPT !.status = "pending", !.age = 0] \in Rows
  <2>1. "pending" \in Statuses /\ jobs[i] \in Rows
    BY DEF Statuses, TypeOK
  <2> QED BY <2>1, RowMoved
<1>2. jobs' \in [Ids -> Rows]
  BY <1>1 DEF Recover, Reclaimed, TypeOK
<1> QED BY <1>2 DEF Recover, Reclaimed, TypeOK, Ids, budgets

LEMMA TickType ==
    ASSUME TypeOK, Tick
    PROVE  TypeOK'
<1> DEFINE wait(i) == IF jobs[i].wait > 0 THEN jobs[i].wait - 1 ELSE 0
           age(i)  == IF jobs[i].status = "active" /\ jobs[i].age < AgeCap
                      THEN jobs[i].age + 1 ELSE jobs[i].age
<1>1. ASSUME NEW i \in Ids
      PROVE  [jobs[i] EXCEPT !.wait = wait(i), !.age = age(i)] \in Rows
  <2>1. jobs[i] \in Rows
    BY DEF TypeOK
  <2>2. wait(i) \in Nat /\ age(i) \in Nat
    BY <2>1, RowFields
  <2> HIDE DEF wait, age
  <2> QED BY <2>1, <2>2, RowAged
<1>2. jobs' = [i \in Ids |-> [jobs[i] EXCEPT !.wait = wait(i), !.age = age(i)]]
  BY DEF Tick
<1>3. jobs' \in [Ids -> Rows]
  <2> HIDE DEF wait, age
  <2> QED BY <1>1, <1>2, Zenon
<1> QED BY <1>3 DEF Tick, TypeOK, Ids, budgets

LEMMA NextType == TypeOK /\ [Next]_vars => TypeOK'
<1> SUFFICES ASSUME TypeOK, [Next]_vars PROVE TypeOK'
  OBVIOUS
<1> USE BoundsAssumption DEF TypeOK, Ids, table, budgets
<1>1. ASSUME NEW p \in Producers, NEW n \in Names, NEW k \in JobKeys,
             AddLookup(p, n, k)
      PROVE  TypeOK'
  BY <1>1 DEF AddLookup, Requests
<1>2. ASSUME NEW p \in Producers, AddKeyed(p)
      PROVE  TypeOK'
  BY <1>2, InsertType DEF AddKeyed, Requests
<1>3. ASSUME NEW n \in Names, AddPlain(n)
      PROVE  TypeOK'
  BY <1>3, InsertType DEF AddPlain
<1>4. ASSUME NEW w \in Workers, Claim(w)
      PROVE  TypeOK'
  BY <1>4, ClaimType
<1>5. ASSUME NEW w \in Workers, Reap(w)
      PROVE  TypeOK'
  BY <1>5, RecoverType DEF Reap
<1>6. ASSUME NEW w \in Workers, Process(w) \/ Stop(w)
      PROVE  TypeOK'
  <2>1. mode' \in [Workers -> {"down", "running", "stopped"}]
    BY <1>6 DEF Process, Stop
  <2>2. stops' \in 0..MaxStops
    BY <1>6 DEF Process, Stop
  <2> QED BY <1>6, <2>1, <2>2 DEF Process, Stop
<1>7. ASSUME NEW w \in Workers, Crash(w)
      PROVE  TypeOK'
  BY <1>7 DEF Crash
<1>8. ASSUME NEW w \in Workers, Freeze(w) \/ Thaw(w)
      PROVE  TypeOK'
  BY <1>8 DEF Freeze, Thaw
<1>9. ASSUME NEW r \in runs, Settle(r)
      PROVE  TypeOK'
  BY <1>9, SettleType
<1>10. ASSUME NEW r \in runs, SettleThrows(r)
       PROVE  TypeOK'
  BY <1>10 DEF SettleThrows
<1>11. ASSUME NEW r \in runs, HeartbeatInternal(r)
       PROVE  TypeOK'
  <2>1. [jobs[r.id] EXCEPT !.age = 0] \in Rows
    BY RowTouched
  <2>2. jobs' \in [Ids -> Rows]
    BY <1>11, <2>1 DEF HeartbeatInternal
  <2> QED BY <1>11, <2>2 DEF HeartbeatInternal
<1>12. CASE RecoverAll
  BY <1>12, RecoverType DEF RecoverAll
<1>13. CASE Tick
  BY <1>13, TickType
<1>14. CASE UNCHANGED vars
  BY <1>14 DEF vars
<1> QED BY <1>1, <1>2, <1>3, <1>4, <1>5, <1>6, <1>7, <1>8, <1>9, <1>10,
           <1>11, <1>12, <1>13, <1>14 DEF Next

(* In every reachable state the table, the runs and the history have the   *)
(* shape that the schema of _jobs and the code's types give them.           *)
THEOREM TypeCorrect == Spec => []TypeOK
<1>1. Init => TypeOK
  BY BoundsAssumption DEF Init, TypeOK, Ids
<1> QED BY <1>1, NextType, PTL DEF Spec
-----------------------------------------------------------------------------
(* The attempt number fences the workers off one another.  The inductive     *)
(* invariant relates the tokens held by runs, the rows and their history.   *)

IInv == /\ TypeOK
        /\ FencingTokens
        /\ ReportsBehindRow
        /\ SettlementsInOrder
        /\ RowMatchesReports

LEMMA ReportTypes ==
    ASSUME TypeOK, NEW i \in Ids
    PROVE  /\ settlements[i] \in Seq(Settlement)
           /\ \A n \in DOMAIN settlements[i] :
                /\ settlements[i][n].attempt \in Nat
                /\ settlements[i][n].outcome \in Outcomes
<1>1. settlements[i] \in Seq(Settlement)
  BY DEF TypeOK
<1>2. \A n \in DOMAIN settlements[i] : settlements[i][n] \in Settlement
  BY <1>1
<1> QED BY <1>1, <1>2 DEF Settlement

(* Steps that leave the table and the history alone and only end runs. *)
LEMMA QuietStep ==
    ASSUME IInv, TypeOK', UNCHANGED <<jobs, lastId, settlements>>,
           runs' \subseteq runs
    PROVE  IInv'
<1>1. Ids' = Ids
  BY DEF Ids
<1>2. UniqueToken'
  BY DEF IInv, FencingTokens, UniqueToken
<1>3. ASSUME NEW r \in runs'
      PROVE  TokenOpen(r)'
  <2>1. r \in runs /\ TokenOpen(r)
    BY <1>3 DEF IInv, FencingTokens
  <2> QED BY <2>1 DEF TokenOpen
<1>4. ReportsBehindRow'
  BY <1>1 DEF IInv, ReportsBehindRow
<1>5. SettlementsInOrder'
  BY <1>1 DEF IInv, SettlementsInOrder
<1>6. RowMatchesReports'
  BY <1>1 DEF IInv, RowMatchesReports, LastReport
<1> QED BY <1>2, <1>3, <1>4, <1>5, <1>6 DEF IInv, FencingTokens

(* Statements that keep attempts and limits, and move a row at most from   *)
(* active to pending: heartbeats, the reaper, the passing of time.          *)
LEMMA UpkeepStep ==
    ASSUME IInv, TypeOK', UNCHANGED <<lastId, settlements, runs>>,
           \A i \in Ids : /\ jobs'[i].attempts = jobs[i].attempts
                          /\ jobs'[i].maxAttempts = jobs[i].maxAttempts
                          /\ \/ jobs'[i].status = jobs[i].status
                             \/ /\ jobs[i].status = "active"
                                /\ jobs'[i].status = "pending"
    PROVE  IInv'
<1> USE DEF Ids
<1>1. FencingTokens'
  <2>1. UniqueToken'
    BY DEF IInv, FencingTokens, UniqueToken
  <2>2. ASSUME NEW r \in runs
        PROVE  TokenOpen(r)'
    BY ZenonT(60) DEF IInv, TypeOK, FencingTokens, TokenOpen, Unfinished
  <2> QED BY <2>1, <2>2 DEF FencingTokens
<1>2. ReportsBehindRow'
  BY DEF IInv, ReportsBehindRow, Unfinished
<1>3. SettlementsInOrder'
  BY DEF IInv, SettlementsInOrder, InOrder
<1>4. RowMatchesReports'
  BY DEF IInv, RowMatchesReports, LastReport
<1> QED BY <1>1, <1>2, <1>3, <1>4 DEF IInv

LEMMA InsertFenced ==
    ASSUME IInv, TypeOK', NEW n, NEW k, NEW priority, NEW delay, NEW limit,
           InsertJob(n, k, priority, delay, limit)
    PROVE  IInv'
<1>1. /\ Ids' = Ids \cup {lastId + 1} /\ lastId + 1 \notin Ids
      /\ Ids \subseteq Ids' /\ lastId + 1 \in Ids'
  BY DEF InsertJob, IInv, TypeOK, Ids
<1>2. /\ \A i \in Ids : jobs'[i] = jobs[i] /\ settlements'[i] = settlements[i]
      /\ jobs'[lastId + 1].status = "pending"
      /\ settlements'[lastId + 1] = << >>
      /\ runs' = runs
  BY <1>1 DEF InsertJob
<1>3. FencingTokens'
  BY <1>1, <1>2 DEF IInv, TypeOK, FencingTokens, UniqueToken, TokenOpen
<1>4. ReportsBehindRow'
  BY <1>1, <1>2 DEF IInv, ReportsBehindRow
<1>5. SettlementsInOrder'
  BY <1>1, <1>2 DEF IInv, SettlementsInOrder, InOrder
<1>6. RowMatchesReports'
  BY <1>1, <1>2 DEF IInv, RowMatchesReports, LastReport
<1> QED BY <1>3, <1>4, <1>5, <1>6 DEF IInv

LEMMA ClaimFenced ==
    ASSUME IInv, TypeOK', NEW w \in Workers, Claim(w)
    PROVE  IInv'
<1>1. PICK i \in Due(QueueOf[w]) :
         /\ jobs' = [jobs EXCEPT ![i] = [@ EXCEPT !.status = "active",
                                    !.attempts = jobs[i].attempts + 1,
                                    !.age = 0]]
         /\ runs' = runs \cup {[worker |-> w, id |-> i,
                                attempt |-> jobs[i].attempts + 1]}
  BY DEF Claim, Claimable
<1> PICK new : new = [worker |-> w, id |-> i, attempt |-> jobs[i].attempts + 1]
  OBVIOUS
<1>2. /\ i \in Ids /\ Ids' = Ids /\ settlements' = settlements
      /\ jobs[i].status = "pending" /\ jobs[i].attempts \in Nat
  <2>1. i \in Ids /\ jobs[i] \in Rows /\ jobs[i].status = "pending"
    BY DEF IInv, TypeOK, Due
  <2>2. jobs[i].attempts \in Nat
    BY <2>1, RowFields, BoundsAssumption DEF Attempts
  <2> QED BY <2>1, <2>2 DEF Claim, Ids
<1>3. /\ jobs'[i].status = "active"
      /\ jobs'[i].attempts = jobs[i].attempts + 1
      /\ jobs'[i].maxAttempts = jobs[i].maxAttempts
      /\ \A j \in Ids : j # i => jobs'[j] = jobs[j]
  <2>1. jobs \in [Ids -> Rows] /\ jobs[i] \in Rows
    BY <1>2 DEF IInv, TypeOK
  <2>2. jobs'[i] = [jobs[i] EXCEPT !.status = "active",
                                   !.attempts = jobs[i].attempts + 1,
                                   !.age = 0]
    BY <1>1, <1>2, <2>1
  <2> QED BY <1>1, <1>2, <2>1, <2>2 DEF Rows
<1>4. /\ new.id = i /\ new.attempt = jobs[i].attempts + 1
      /\ \A r \in runs' : r = new \/ r \in runs
      /\ \A r \in runs : r.id \in Ids /\ r.attempt \in Nat
  BY <1>1 DEF IInv, TypeOK, Runs
<1>5. \A r \in runs : r.id = i => r.attempt < new.attempt
  BY <1>2, <1>4 DEF IInv, FencingTokens, TokenOpen
<1>6. UniqueToken'
  BY <1>2, <1>4, <1>5 DEF IInv, FencingTokens, UniqueToken
<1>7. \A r \in runs' : TokenOpen(r)'
  <2>1. \A r \in runs : TokenOpen(r)'
    BY <1>2, <1>3, <1>4, <1>5 DEF IInv, FencingTokens, TokenOpen
  <2>2. \A n \in DOMAIN settlements[i] : settlements[i][n].attempt # new.attempt
    BY <1>2, <1>4, ReportTypes DEF IInv, ReportsBehindRow
  <2>3. TokenOpen(new)'
    BY <1>2, <1>3, <1>4, <2>2 DEF TokenOpen, Unfinished
  <2> QED BY <1>4, <2>1, <2>3
<1>8. ReportsBehindRow'
  <2>1. \A n \in DOMAIN settlements[i] : settlements[i][n].attempt \in Nat
    BY <1>2, ReportTypes DEF IInv
  <2> QED BY <1>2, <1>3, <2>1 DEF IInv, ReportsBehindRow, Unfinished
<1>9. SettlementsInOrder'
  BY <1>2 DEF IInv, SettlementsInOrder, InOrder
<1>10. RowMatchesReports'
  BY <1>2, <1>3 DEF IInv, RowMatchesReports, LastReport
<1> QED BY <1>6, <1>7, <1>8, <1>9, <1>10 DEF IInv, FencingTokens

LEMMA AppendReport ==
    ASSUME NEW h \in Seq(Settlement), NEW x \in Settlement
    PROVE  /\ DOMAIN Append(h, x) = DOMAIN h \cup {Len(h) + 1}
           /\ Len(h) + 1 \notin DOMAIN h
           /\ \A n \in DOMAIN h : n \in Nat /\ n < Len(h) + 1
           /\ \A n \in DOMAIN h : Append(h, x)[n] = h[n]
           /\ Append(h, x)[Len(h) + 1] = x
           /\ Append(h, x) # << >>
           /\ Len(Append(h, x)) = Len(h) + 1
           /\ Len(h) \in Nat
OBVIOUS

(* The write that ends a run and is accepted: Fence(r) holds, so r carries  *)
(* the newest token, no other run does, and the history is one of failures  *)
(* of older attempts.                                                       *)
LEMMA AcceptedFenced ==
    ASSUME IInv, TypeOK', NEW r \in runs, Fence(r),
           NEW o \in Outcomes, Record(r, o),
           lastId' = lastId, runs' = runs \ {r},
           \A i \in Ids \ {r.id} : jobs'[i] = jobs[i],
           jobs'[r.id].attempts = jobs[r.id].attempts,
           jobs'[r.id].maxAttempts = jobs[r.id].maxAttempts,
           \/ /\ o = "completed"
              /\ jobs'[r.id].status \in {"done", "removed"}
           \/ /\ o = "failed"
              /\ r.attempt < jobs[r.id].maxAttempts
              /\ jobs'[r.id].status = "pending"
           \/ /\ o = "failed"
              /\ r.attempt >= jobs[r.id].maxAttempts
              /\ jobs'[r.id].status = "failed"
    PROVE  IInv'
<1> PICK i : i = r.id
  OBVIOUS
<1> PICK h : h = settlements[i]
  OBVIOUS
<1> PICK x : x = [outcome |-> o, attempt |-> r.attempt]
  OBVIOUS
<1>1. /\ i \in Ids /\ Ids' = Ids /\ h \in Seq(Settlement) /\ x \in Settlement
      /\ r.attempt \in Nat /\ jobs[i].maxAttempts \in Nat
      /\ x.attempt = r.attempt /\ x.outcome = o
  <2>1. r \in Runs /\ i \in Ids /\ jobs[i] \in Rows /\ h \in Seq(Settlement)
    BY DEF IInv, TypeOK
  <2>2. jobs[i].maxAttempts \in Nat
    BY <2>1, RowFields, SetsAssumption
  <2> QED BY <2>1, <2>2 DEF Runs, Settlement, Ids
<1>2. /\ settlements'[i] = Append(h, x)
      /\ \A j \in Ids : j # i => settlements'[j] = settlements[j]
  BY <1>1 DEF Record, IInv, TypeOK
<1>3. /\ jobs[i].attempts = r.attempt
      /\ jobs[i].status \in Unfinished
      /\ \A n \in DOMAIN h : h[n].attempt # r.attempt
  BY DEF Fence, IInv, FencingTokens, TokenOpen
<1>4. \A n \in DOMAIN h : /\ h[n].attempt \in Nat
                         /\ h[n].attempt < r.attempt
                         /\ h[n].outcome = "failed"
  <2>1. \A n \in DOMAIN h : h[n].attempt \in Nat
    BY <1>1, ReportTypes DEF IInv
  <2> QED BY <1>1, <1>3, <2>1 DEF IInv, ReportsBehindRow
<1>5. FencingTokens'
  <2>1. UniqueToken'
    BY DEF IInv, FencingTokens, UniqueToken
  <2>2. ASSUME NEW s \in runs'
        PROVE  TokenOpen(s)'
    <3>1. CASE s.id = i
      <4>1. s.attempt # r.attempt
        BY <3>1 DEF IInv, FencingTokens, UniqueToken
      <4>2. s.attempt <= jobs[i].attempts
        BY <3>1 DEF IInv, FencingTokens, TokenOpen
      <4> QED BY <1>3, <3>1, <4>1, <4>2 DEF TokenOpen
    <3>2. CASE s.id # i
      <4>1. s.id \in Ids /\ TokenOpen(s)
        BY DEF IInv, TypeOK, FencingTokens
      <4> QED BY <1>2, <3>2, <4>1 DEF TokenOpen
    <3> QED BY <3>1, <3>2
  <2> QED BY <2>1, <2>2 DEF FencingTokens
<1>6. ReportsBehindRow'
  <2>1. ASSUME NEW n \in DOMAIN settlements'[i]
        PROVE  /\ settlements'[i][n].attempt <= jobs'[i].attempts
               /\ jobs'[i].status \in Unfinished =>
                    /\ settlements'[i][n].outcome = "failed"
                    /\ settlements'[i][n].attempt < jobs'[i].maxAttempts
    <3>1. CASE n \in DOMAIN h
      <4>1. settlements'[i][n] = h[n]
        BY <1>1, <1>2, <3>1, AppendReport
      <4>2. h[n].attempt < jobs[i].maxAttempts
        BY <1>3, <3>1 DEF IInv, ReportsBehindRow, TypeOK
      <4> QED BY <1>1, <1>3, <1>4, <3>1, <4>1, <4>2
    <3>2. CASE n = Len(h) + 1
      BY <1>1, <1>2, <1>3, <3>2, AppendReport DEF Unfinished
    <3> QED BY <1>1, <1>2, <3>1, <3>2, AppendReport
  <2>2. ASSUME NEW j \in Ids, j # i, NEW n \in DOMAIN settlements'[j]
        PROVE  /\ settlements'[j][n].attempt <= jobs'[j].attempts
               /\ jobs'[j].status \in Unfinished =>
                    /\ settlements'[j][n].outcome = "failed"
                    /\ settlements'[j][n].attempt < jobs'[j].maxAttempts
    BY <1>2, <2>2 DEF IInv, ReportsBehindRow
  <2> QED BY <1>1, <2>1, <2>2 DEF ReportsBehindRow
<1>7. SettlementsInOrder'
  <2>1. InOrder(h)
    BY <1>1 DEF IInv, SettlementsInOrder
  <2>2. InOrder(Append(h, x))
    BY <1>1, <1>4, <2>1, AppendReport DEF InOrder
  <2> QED BY <1>1, <1>2, <2>2 DEF IInv, SettlementsInOrder
<1>8. RowMatchesReports'
  <2>1. settlements'[i] # << >> /\ settlements'[i][Len(settlements'[i])] = x
    BY <1>1, <1>2, AppendReport
  <2>2. LastReport(i, "completed")' <=> o = "completed"
    BY <1>1, <2>1 DEF LastReport
  <2>3. LastReport(i, "failed")'
           <=> (o = "failed" /\ r.attempt >= jobs[i].maxAttempts)
    BY <1>1, <2>1 DEF LastReport
  <2>4. ASSUME NEW j \in Ids, j # i
        PROVE  /\ (jobs'[j].status \in {"done", "removed"})
                     <=> LastReport(j, "completed")'
               /\ (jobs'[j].status = "failed") <=> LastReport(j, "failed")'
    BY <1>2, <2>4 DEF IInv, RowMatchesReports, LastReport
  <2>5. /\ (jobs'[i].status \in {"done", "removed"})
              <=> LastReport(i, "completed")'
        /\ (jobs'[i].status = "failed") <=> LastReport(i, "failed")'
    BY <1>1, <2>2, <2>3
  <2> QED BY <1>1, <2>4, <2>5 DEF RowMatchesReports
<1> QED BY <1>5, <1>6, <1>7, <1>8 DEF IInv

LEMMA SettleFenced ==
    ASSUME IInv, TypeOK', NEW r \in runs, Settle(r)
    PROVE  IInv'
<1>1. /\ lastId' = lastId /\ runs' = runs \ {r}
      /\ jobs \in [Ids -> Rows] /\ r.id \in Ids /\ jobs[r.id] \in Rows
  BY DEF Settle, IInv, TypeOK
<1>2. CASE ~Fence(r)
  BY <1>1, <1>2, QuietStep DEF Settle, CompleteInternal, FailInternal
<1>3. CASE Fence(r) /\ CompleteInternal(r)
  <2> PICK end \in {"done", "removed"} :
        jobs' = [jobs EXCEPT ![r.id] = [@ EXCEPT !.status = end, !.age = 0]]
    BY <1>3 DEF CompleteInternal
  <2>1. jobs'[r.id] = [jobs[r.id] EXCEPT !.status = end, !.age = 0]
    BY <1>1
  <2>2. /\ jobs'[r.id].status = end
        /\ jobs'[r.id].attempts = jobs[r.id].attempts
        /\ jobs'[r.id].maxAttempts = jobs[r.id].maxAttempts
    BY <1>1, <2>1 DEF Rows
  <2>3. Record(r, "completed") /\ "completed" \in Outcomes
    BY <1>3 DEF CompleteInternal, Outcomes
  <2>4. \A i \in Ids \ {r.id} : jobs'[i] = jobs[i]
    BY <1>1
  <2> QED BY <1>1, <1>3, <2>2, <2>3, <2>4, AcceptedFenced
<1>4. CASE Fence(r) /\ FailInternal(r)
  <2>1. /\ Record(r, "failed") /\ "failed" \in Outcomes
        /\ jobs' = [jobs EXCEPT ![r.id] =
              IF RetriesLeft(r)
              THEN [@ EXCEPT !.status = "pending", !.age = 0,
                             !.wait = Backoff[r.attempt]]
              ELSE [@ EXCEPT !.status = "failed", !.age = 0]]
    BY <1>4 DEF FailInternal, Outcomes
  <2>2. \A i \in Ids \ {r.id} : jobs'[i] = jobs[i]
    BY <1>1, <2>1
  <2>3. CASE r.attempt < jobs[r.id].maxAttempts
    <3>1. jobs'[r.id] = [jobs[r.id] EXCEPT !.status = "pending", !.age = 0,
                                           !.wait = Backoff[r.attempt]]
      BY <1>1, <2>1, <2>3 DEF RetriesLeft
    <3>2. /\ jobs'[r.id].status = "pending"
          /\ jobs'[r.id].attempts = jobs[r.id].attempts
          /\ jobs'[r.id].maxAttempts = jobs[r.id].maxAttempts
      BY <1>1, <3>1 DEF Rows
    <3> QED BY <1>1, <1>4, <2>1, <2>2, <2>3, <3>2, AcceptedFenced
  <2>4. CASE ~(r.attempt < jobs[r.id].maxAttempts)
    <3>1. jobs'[r.id] = [jobs[r.id] EXCEPT !.status = "failed", !.age = 0]
      BY <1>1, <2>1, <2>4 DEF RetriesLeft
    <3>2. /\ jobs'[r.id].status = "failed"
          /\ jobs'[r.id].attempts = jobs[r.id].attempts
          /\ jobs'[r.id].maxAttempts = jobs[r.id].maxAttempts
      BY <1>1, <3>1 DEF Rows
    <3>3. r.attempt \in Nat /\ jobs[r.id].maxAttempts \in Nat
      <4>1. r \in Runs /\ jobs[r.id].maxAttempts \in AttemptLimits
        BY <1>1, RowFields DEF IInv, TypeOK
      <4>2. r.attempt \in Nat
        BY <4>1 DEF Runs
      <4>3. AttemptLimits \subseteq Nat
        BY SetsAssumption
      <4> QED BY <4>1, <4>2, <4>3
    <3>4. r.attempt >= jobs[r.id].maxAttempts
      BY <2>4, <3>3
    <3> QED BY <1>1, <1>4, <2>1, <2>2, <3>2, <3>4, AcceptedFenced
  <2> QED BY <2>3, <2>4
<1> QED BY <1>2, <1>3, <1>4 DEF Settle

LEMMA NextFenced == IInv /\ [Next]_vars => IInv'
<1> SUFFICES ASSUME IInv, [Next]_vars PROVE IInv'
  OBVIOUS
<1>0. TypeOK /\ TypeOK'
  BY NextType DEF IInv
<1> USE <1>0
<1>1. ASSUME NEW p \in Producers, NEW n \in Names, NEW k \in JobKeys,
             AddLookup(p, n, k)
      PROVE  IInv'
  BY <1>1, QuietStep DEF AddLookup, table
<1>2. ASSUME NEW p \in Producers, AddKeyed(p)
      PROVE  IInv'
  BY <1>2, InsertFenced DEF AddKeyed
<1>3. ASSUME NEW n \in Names, AddPlain(n)
      PROVE  IInv'
  BY <1>3, InsertFenced DEF AddPlain
<1>4. ASSUME NEW w \in Workers, Claim(w)
      PROVE  IInv'
  BY <1>4, ClaimFenced
<1>5. ASSUME NEW older, NEW names, Recover(older, names)
      PROVE  IInv'
  <2>1. ASSUME NEW i \in Ids
        PROVE  /\ jobs'[i].attempts = jobs[i].attempts
               /\ jobs'[i].maxAttempts = jobs[i].maxAttempts
               /\ \/ jobs'[i].status = jobs[i].status
                  \/ jobs[i].status = "active" /\ jobs'[i].status = "pending"
    <3>1. jobs[i] \in Rows
      BY DEF TypeOK
    <3>2. CASE i \in Expired(older, names)
      <4>1. jobs'[i] = [jobs[i] EXCEPT !.status = "pending", !.age = 0]
        BY <1>5, <3>2 DEF Recover, Reclaimed
      <4> QED BY <3>1, <3>2, <4>1 DEF Rows, Expired
    <3>3. CASE i \notin Expired(older, names)
      BY <1>5, <3>3 DEF Recover, Reclaimed
    <3> QED BY <3>2, <3>3
  <2> QED BY <1>5, <2>1, UpkeepStep DEF Recover, Reclaimed
<1>6. ASSUME NEW w \in Workers, Reap(w)
      PROVE  IInv'
  BY <1>5, <1>6 DEF Reap
<1>7. ASSUME NEW w \in Workers,
             Process(w) \/ Stop(w) \/ Crash(w) \/ Freeze(w) \/ Thaw(w)
      PROVE  IInv'
  BY <1>7, QuietStep DEF Process, Stop, Crash, Freeze, Thaw, table
<1>8. ASSUME NEW r \in runs, Settle(r)
      PROVE  IInv'
  BY <1>8, SettleFenced
<1>9. ASSUME NEW r \in runs, SettleThrows(r)
      PROVE  IInv'
  BY <1>9, QuietStep DEF SettleThrows, table
<1>10. ASSUME NEW r \in runs, HeartbeatInternal(r)
       PROVE  IInv'
  <2>1. ASSUME NEW i \in Ids
        PROVE  /\ jobs'[i].attempts = jobs[i].attempts
               /\ jobs'[i].maxAttempts = jobs[i].maxAttempts
               /\ jobs'[i].status = jobs[i].status
    <3>1. jobs[i] \in Rows /\ jobs \in [Ids -> Rows]
      BY DEF TypeOK
    <3>2. jobs'[i] = jobs[i] \/ jobs'[i] = [jobs[i] EXCEPT !.age = 0]
      BY <1>10, <3>1 DEF HeartbeatInternal
    <3> QED BY <3>1, <3>2 DEF Rows
  <2> QED BY <1>10, <2>1, UpkeepStep DEF HeartbeatInternal
<1>11. CASE RecoverAll
  BY <1>5, <1>11 DEF RecoverAll
<1>12. CASE Tick
  <2>1. ASSUME NEW i \in Ids
        PROVE  /\ jobs'[i].attempts = jobs[i].attempts
               /\ jobs'[i].maxAttempts = jobs[i].maxAttempts
               /\ jobs'[i].status = jobs[i].status
    <3>1. jobs[i] \in Rows
      BY DEF TypeOK
    <3> DEFINE wait == IF jobs[i].wait > 0 THEN jobs[i].wait - 1 ELSE 0
               age  == IF jobs[i].status = "active" /\ jobs[i].age < AgeCap
                       THEN jobs[i].age + 1 ELSE jobs[i].age
    <3>2. jobs'[i] = [jobs[i] EXCEPT !.wait = wait, !.age = age]
      BY <1>12 DEF Tick
    <3> HIDE DEF wait, age
    <3> QED BY <3>1, <3>2 DEF Rows
  <2> QED BY <1>12, <2>1, UpkeepStep DEF Tick
<1>13. CASE UNCHANGED vars
  BY <1>13, QuietStep DEF vars
<1> QED BY <1>1, <1>2, <1>3, <1>4, <1>6, <1>7, <1>8, <1>9, <1>10, <1>11,
           <1>12, <1>13 DEF Next

LEMMA InitFenced == Init => IInv
<1>1. Init => TypeOK
  BY BoundsAssumption DEF Init, TypeOK, Ids
<1>2. ASSUME Init PROVE Ids = {}
  BY <1>2 DEF Init, Ids
<1> QED BY <1>1, <1>2 DEF Init, IInv, FencingTokens, UniqueToken,
                          ReportsBehindRow, SettlementsInOrder, RowMatchesReports

LEMMA Inductive == Spec => []IInv
BY InitFenced, NextFenced, PTL DEF Spec

(* The attempt a worker claimed is a fencing token: whatever crashes,      *)
(* stalls, reaps and restarts happen, no two runs of a job hold the same    *)
(* token and an accepted outcome closes the newest one.                     *)
THEOREM TokensFence == Spec => []FencingTokens
BY Inductive, PTL DEF IInv

(* The outcomes accepted for a job come in attempt order, at most one per  *)
(* attempt, and none after a completion: a revived stale worker never      *)
(* clobbers a newer run or reports a duplicate event.                       *)
THEOREM ReportsInOrder == Spec => []SettlementsInOrder
BY Inductive, PTL DEF IInv

(* A row is done exactly when a completion was its last accepted outcome,   *)
(* and dead-lettered exactly when that was a failure of the last attempt.   *)
THEOREM RowsMatchReports == Spec => []RowMatchesReports
BY Inductive, PTL DEF IInv

-----------------------------------------------------------------------------
(***************************************************************************)
(* The job queue implements JobLifecycle, for every value of the constants: *)
(* each statement of a producer or a worker is one step of the abstract    *)
(* queue, or none.  The fence is what makes it so.                         *)
(***************************************************************************)

(* The three views that Lifecycle takes of one row. *)
Newest(i)   == IF i \in Ids THEN jobs[i].attempts ELSE 0
Accepted(i) == IF i \in Ids THEN settlements[i] ELSE << >>

ViewKept(i) == /\ AbstractState(i)' = AbstractState(i)
               /\ Newest(i)' = Newest(i)
               /\ Accepted(i)' = Accepted(i)

LEMMA ViewsKept ==
    ASSUME \A i \in 1..MaxJobs : ViewKept(i)
    PROVE  UNCHANGED Lifecycle!avars
BY DEF ViewKept, Newest, Accepted, Lifecycle!avars

(* A statement that changes the views of one row. *)
LEMMA OneView ==
    ASSUME NEW i \in 1..MaxJobs,
           \A j \in 1..MaxJobs : j # i => ViewKept(j)
    PROVE  /\ [j \in 1..MaxJobs |-> AbstractState(j)]'
                = [[j \in 1..MaxJobs |-> AbstractState(j)]
                      EXCEPT ![i] = AbstractState(i)']
           /\ [j \in 1..MaxJobs |-> Newest(j)]'
                = [[j \in 1..MaxJobs |-> Newest(j)] EXCEPT ![i] = Newest(i)']
           /\ [j \in 1..MaxJobs |-> Accepted(j)]'
                = [[j \in 1..MaxJobs |-> Accepted(j)] EXCEPT ![i] = Accepted(i)']
BY DEF ViewKept

(* Statements that leave the attempts, the history and the phase of every  *)
(* row alone are invisible.                                                *)
LEMMA Invisible ==
    ASSUME UNCHANGED <<lastId, settlements>>,
           \A i \in Ids : /\ jobs'[i].attempts = jobs[i].attempts
                          /\ \/ jobs'[i].status = jobs[i].status
                             \/ /\ jobs[i].status = "active"
                                /\ jobs'[i].status = "pending"
    PROVE  [Lifecycle!ANext]_(Lifecycle!avars)
<1>1. Ids' = Ids
  BY DEF Ids
<1>2. \A i \in 1..MaxJobs : ViewKept(i)
  BY <1>1 DEF ViewKept, AbstractState, Newest, Accepted, Unfinished
<1> QED BY <1>2, ViewsKept

LEMMA SubmitStep ==
    ASSUME TypeOK, NEW n, NEW k, NEW priority, NEW delay, NEW limit,
           InsertJob(n, k, priority, delay, limit)
    PROVE  [Lifecycle!ANext]_(Lifecycle!avars)
<1> PICK i : i = lastId + 1
  OBVIOUS
<1>1. /\ i \in 1..MaxJobs /\ i \notin Ids /\ Ids' = Ids \cup {i}
      /\ \A j \in Ids : jobs'[j] = jobs[j] /\ settlements'[j] = settlements[j]
      /\ jobs'[i].status = "pending" /\ jobs'[i].attempts = 0
      /\ settlements'[i] = << >>
  <2>1. i \in 1..MaxJobs /\ i \notin Ids /\ Ids' = Ids \cup {i}
    BY BoundsAssumption DEF InsertJob, TypeOK, Ids
  <2> QED BY <2>1 DEF InsertJob
<1>2. \A j \in 1..MaxJobs : j # i => ViewKept(j)
  BY <1>1 DEF ViewKept, AbstractState, Newest, Accepted
<1>3. /\ AbstractState(i) = "absent" /\ AbstractState(i)' = "open"
      /\ Newest(i)' = Newest(i) /\ Accepted(i)' = Accepted(i)
  BY <1>1 DEF AbstractState, Newest, Accepted, Unfinished
<1>4. Lifecycle!Submit(i)
  BY <1>1, <1>2, <1>3, OneView DEF Lifecycle!Submit, Newest, Accepted, ViewKept
<1> QED BY <1>1, <1>4 DEF Lifecycle!ANext

LEMMA AttemptStep ==
    ASSUME TypeOK, NEW w \in Workers, Claim(w)
    PROVE  [Lifecycle!ANext]_(Lifecycle!avars)
<1>1. PICK i \in Due(QueueOf[w]) :
         jobs' = [jobs EXCEPT ![i] = [@ EXCEPT !.status = "active",
                                    !.attempts = jobs[i].attempts + 1,
                                    !.age = 0]]
  BY DEF Claim, Claimable
<1>2. /\ i \in 1..MaxJobs /\ i \in Ids /\ Ids' = Ids
      /\ settlements' = settlements
      /\ jobs \in [Ids -> Rows] /\ jobs[i] \in Rows
      /\ jobs[i].status = "pending"
  BY BoundsAssumption DEF Due, Claim, TypeOK, Ids
<1>3. jobs'[i] = [jobs[i] EXCEPT !.status = "active",
                                 !.attempts = jobs[i].attempts + 1, !.age = 0]
  BY <1>1, <1>2
<1>4. /\ jobs'[i].status = "active"
      /\ jobs'[i].attempts = jobs[i].attempts + 1
      /\ \A j \in Ids : j # i => jobs'[j] = jobs[j]
  BY <1>1, <1>2, <1>3 DEF Rows
<1>5. \A j \in 1..MaxJobs : j # i => ViewKept(j)
  BY <1>2, <1>4 DEF ViewKept, AbstractState, Newest, Accepted
<1>6. /\ AbstractState(i) = "open" /\ AbstractState(i)' = "open"
      /\ Newest(i)' = Newest(i) + 1 /\ Accepted(i)' = Accepted(i)
  BY <1>2, <1>4 DEF AbstractState, Newest, Accepted, Unfinished
<1>7. Lifecycle!Attempt(i)
  <2>1. /\ [j \in 1..MaxJobs |-> AbstractState(j)]'
             = [j \in 1..MaxJobs |-> AbstractState(j)]
        /\ [j \in 1..MaxJobs |-> Newest(j)]'
             = [[j \in 1..MaxJobs |-> Newest(j)] EXCEPT ![i] = Newest(i) + 1]
        /\ [j \in 1..MaxJobs |-> Accepted(j)]'
             = [j \in 1..MaxJobs |-> Accepted(j)]
    BY <1>2, <1>5, <1>6, OneView
  <2> QED BY <1>2, <1>6, <2>1 DEF Lifecycle!Attempt, Newest, Accepted
<1> QED BY <1>2, <1>7 DEF Lifecycle!ANext

(* An accepted outcome: the fence holds, so by IInv the run carries the    *)
(* newest attempt, which is still undecided.                                *)
LEMMA AcceptStep ==
    ASSUME IInv, NEW r \in runs, Fence(r), NEW o \in Outcomes, Record(r, o),
           lastId' = lastId,
           \A j \in Ids \ {r.id} : jobs'[j] = jobs[j],
           jobs'[r.id].attempts = jobs[r.id].attempts,
           NEW end, end = AbstractState(r.id)',
           \/ o = "completed" /\ end = "completed"
           \/ o = "failed" /\ end \in {"open", "failed"}
    PROVE  Lifecycle!ANext
<1> PICK i : i = r.id
  OBVIOUS
<1> PICK x : x = [outcome |-> o, attempt |-> r.attempt]
  OBVIOUS
<1>1. /\ i \in 1..MaxJobs /\ i \in Ids /\ Ids' = Ids
      /\ r \in Runs /\ r.attempt \in Nat /\ r.attempt > 0
      /\ settlements \in [Ids -> Seq(Settlement)]
  BY BoundsAssumption DEF IInv, TypeOK, Ids, Runs
<1>2. /\ settlements'[i] = Append(settlements[i], x)
      /\ \A j \in Ids : j # i => settlements'[j] = settlements[j]
  BY <1>1 DEF Record
<1>3. /\ jobs[i].attempts = r.attempt
      /\ jobs[i].status \in Unfinished
      /\ \A n \in DOMAIN settlements[i] : settlements[i][n].attempt # r.attempt
  BY DEF Fence, IInv, FencingTokens, TokenOpen
<1>4. \A n \in DOMAIN settlements[i] : settlements[i][n].attempt < r.attempt
  <2>1. TypeOK /\ ReportsBehindRow
    BY DEF IInv
  <2>2. \A n \in DOMAIN settlements[i] : settlements[i][n].attempt \in Nat
    BY <1>1, <2>1, ReportTypes
  <2>3. \A n \in DOMAIN settlements[i] : settlements[i][n].attempt <= r.attempt
    BY <1>1, <1>3, <2>1 DEF ReportsBehindRow
  <2> QED BY <1>1, <1>3, <2>2, <2>3
<1>5. \A j \in 1..MaxJobs : j # i => ViewKept(j)
  BY <1>1, <1>2 DEF ViewKept, AbstractState, Newest, Accepted
<1>6. /\ AbstractState(i) = "open" /\ AbstractState(i)' = end
      /\ Newest(i) = r.attempt /\ Newest(i)' = Newest(i)
      /\ Accepted(i)' = Append(Accepted(i), x)
  BY <1>1, <1>2, <1>3 DEF AbstractState, Newest, Accepted
<1>7. Lifecycle!Undecided(i)
  BY <1>1, <1>3, <1>4, <1>6 DEF Lifecycle!Undecided
<1>8. Lifecycle!Accept(i, o, end)
  <2>1. /\ [j \in 1..MaxJobs |-> AbstractState(j)]'
             = [[j \in 1..MaxJobs |-> AbstractState(j)] EXCEPT ![i] = end]
        /\ [j \in 1..MaxJobs |-> Newest(j)]' = [j \in 1..MaxJobs |-> Newest(j)]
        /\ [j \in 1..MaxJobs |-> Accepted(j)]'
             = [[j \in 1..MaxJobs |-> Accepted(j)]
                  EXCEPT ![i] = Append(Accepted(i), x)]
    BY <1>1, <1>5, <1>6, OneView
  <2> QED BY <1>1, <1>3, <1>7, <2>1 DEF Lifecycle!Accept, Newest, Accepted
<1> QED BY <1>1, <1>8 DEF Lifecycle!ANext

LEMMA SettleStep ==
    ASSUME IInv, NEW r \in runs, Settle(r)
    PROVE  [Lifecycle!ANext]_(Lifecycle!avars)
<1>1. /\ lastId' = lastId /\ Ids' = Ids
      /\ jobs \in [Ids -> Rows] /\ r.id \in Ids /\ jobs[r.id] \in Rows
  BY DEF Settle, IInv, TypeOK, Ids
<1>2. CASE ~Fence(r)
  BY <1>1, <1>2, Invisible DEF Settle, CompleteInternal, FailInternal
<1>3. CASE Fence(r) /\ CompleteInternal(r)
  <2> PICK end \in {"done", "removed"} :
        jobs' = [jobs EXCEPT ![r.id] = [@ EXCEPT !.status = end, !.age = 0]]
    BY <1>3 DEF CompleteInternal
  <2>1. jobs'[r.id] = [jobs[r.id] EXCEPT !.status = end, !.age = 0]
    BY <1>1
  <2>2. /\ jobs'[r.id].attempts = jobs[r.id].attempts
        /\ AbstractState(r.id)' = "completed"
    BY <1>1, <2>1 DEF Rows, AbstractState, Unfinished
  <2>3. Record(r, "completed") /\ "completed" \in Outcomes
    BY <1>3 DEF CompleteInternal, Outcomes
  <2>4. \A i \in Ids \ {r.id} : jobs'[i] = jobs[i]
    BY <1>1
  <2> QED BY <1>1, <1>3, <2>2, <2>3, <2>4, AcceptStep
<1>4. CASE Fence(r) /\ FailInternal(r)
  <2>1. /\ Record(r, "failed") /\ "failed" \in Outcomes
        /\ jobs' = [jobs EXCEPT ![r.id] =
              IF RetriesLeft(r)
              THEN [@ EXCEPT !.status = "pending", !.age = 0,
                             !.wait = Backoff[r.attempt]]
              ELSE [@ EXCEPT !.status = "failed", !.age = 0]]
    BY <1>4 DEF FailInternal, Outcomes
  <2>2. \/ jobs'[r.id] = [jobs[r.id] EXCEPT !.status = "pending", !.age = 0,
                                            !.wait = Backoff[r.attempt]]
        \/ jobs'[r.id] = [jobs[r.id] EXCEPT !.status = "failed", !.age = 0]
    BY <1>1, <2>1
  <2>3. /\ jobs'[r.id].attempts = jobs[r.id].attempts
        /\ AbstractState(r.id)' \in {"open", "failed"}
    BY <1>1, <2>2 DEF Rows, AbstractState, Unfinished
  <2>4. \A i \in Ids \ {r.id} : jobs'[i] = jobs[i]
    BY <1>1, <2>1
  <2> QED BY <1>1, <1>4, <2>1, <2>3, <2>4, AcceptStep
<1> QED BY <1>2, <1>3, <1>4 DEF Settle

LEMMA RefinedStep == IInv /\ [Next]_vars => [Lifecycle!ANext]_(Lifecycle!avars)
<1> SUFFICES ASSUME IInv, [Next]_vars
             PROVE  [Lifecycle!ANext]_(Lifecycle!avars)
  OBVIOUS
<1>0. TypeOK /\ jobs \in [Ids -> Rows]
  BY DEF IInv, TypeOK
<1>1. ASSUME UNCHANGED <<jobs, lastId, settlements>>
      PROVE  [Lifecycle!ANext]_(Lifecycle!avars)
  BY <1>1, Invisible
<1>2. ASSUME NEW p \in Producers, AddKeyed(p)
      PROVE  [Lifecycle!ANext]_(Lifecycle!avars)
  BY <1>0, <1>2, SubmitStep DEF AddKeyed
<1>3. ASSUME NEW n \in Names, AddPlain(n)
      PROVE  [Lifecycle!ANext]_(Lifecycle!avars)
  BY <1>0, <1>3, SubmitStep DEF AddPlain
<1>4. ASSUME NEW w \in Workers, Claim(w)
      PROVE  [Lifecycle!ANext]_(Lifecycle!avars)
  BY <1>0, <1>4, AttemptStep
<1>5. ASSUME NEW older, NEW names, Recover(older, names)
      PROVE  [Lifecycle!ANext]_(Lifecycle!avars)
  <2>1. ASSUME NEW i \in Ids
        PROVE  /\ jobs'[i].attempts = jobs[i].attempts
               /\ \/ jobs'[i].status = jobs[i].status
                  \/ jobs[i].status = "active" /\ jobs'[i].status = "pending"
    <3>1. CASE i \in Expired(older, names)
      <4>1. jobs'[i] = [jobs[i] EXCEPT !.status = "pending", !.age = 0]
        BY <1>5, <3>1 DEF Recover, Reclaimed
      <4> QED BY <1>0, <3>1, <4>1 DEF Rows, Expired
    <3>2. CASE i \notin Expired(older, names)
      BY <1>5, <3>2 DEF Recover
    <3> QED BY <3>1, <3>2
  <2> QED BY <1>5, <2>1, Invisible DEF Recover
<1>6. ASSUME NEW r \in runs, HeartbeatInternal(r)
      PROVE  [Lifecycle!ANext]_(Lifecycle!avars)
  <2>1. ASSUME NEW i \in Ids
        PROVE  /\ jobs'[i].attempts = jobs[i].attempts
               /\ jobs'[i].status = jobs[i].status
    <3>1. jobs'[i] = jobs[i] \/ jobs'[i] = [jobs[i] EXCEPT !.age = 0]
      BY <1>0, <1>6 DEF HeartbeatInternal
    <3> QED BY <1>0, <3>1 DEF Rows
  <2> QED BY <1>6, <2>1, Invisible DEF HeartbeatInternal
<1>7. ASSUME Tick
      PROVE  [Lifecycle!ANext]_(Lifecycle!avars)
  <2>1. ASSUME NEW i \in Ids
        PROVE  /\ jobs'[i].attempts = jobs[i].attempts
               /\ jobs'[i].status = jobs[i].status
    <3> PICK wait : wait = IF jobs[i].wait > 0 THEN jobs[i].wait - 1 ELSE 0
      OBVIOUS
    <3> PICK age : age = IF jobs[i].status = "active" /\ jobs[i].age < AgeCap
                         THEN jobs[i].age + 1 ELSE jobs[i].age
      OBVIOUS
    <3>1. jobs'[i] = [jobs[i] EXCEPT !.wait = wait, !.age = age]
      BY <1>7 DEF Tick
    <3> QED BY <1>0, <3>1 DEF Rows
  <2> QED BY <1>7, <2>1, Invisible DEF Tick
<1>8. ASSUME NEW r \in runs, Settle(r)
      PROVE  [Lifecycle!ANext]_(Lifecycle!avars)
  BY <1>8, SettleStep
<1>9. \/ UNCHANGED <<jobs, lastId, settlements>>
      \/ \E p \in Producers : AddKeyed(p)
      \/ \E n \in Names : AddPlain(n)
      \/ \E w \in Workers : Claim(w)
      \/ \E older, names : Recover(older, names)
      \/ \E r \in runs : HeartbeatInternal(r) \/ Settle(r)
      \/ Tick
  BY DEF Next, vars, table, AddLookup, Reap, RecoverAll, Process, Stop, Crash,
         Freeze, Thaw, SettleThrows
<1> QED BY <1>1, <1>2, <1>3, <1>4, <1>5, <1>6, <1>7, <1>8, <1>9

(* The table, with its leases, crashes, stalls and stale workers, behaves   *)
(* like the abstract queue: attempts are numbered and follow one another,   *)
(* an outcome is accepted at most once, only for the newest attempt and     *)
(* only while the job is open, and a completion is final.                   *)
THEOREM QueueImplementsLifecycle == Spec => ImplementsLifecycle
<1>1. Init => Lifecycle!AInit
  <2> SUFFICES ASSUME Init PROVE Lifecycle!AInit
    OBVIOUS
  <2>1. Ids = {}
    BY DEF Init, Ids
  <2> QED BY <2>1 DEF Lifecycle!AInit, AbstractState
<1> QED BY <1>1, RefinedStep, Inductive, PTL
        DEF Spec, ImplementsLifecycle, Lifecycle!ASpec

-----------------------------------------------------------------------------
(* Only a pending row can have to wait, and not while a run still holds its *)
(* newest token: a claim takes due rows, and a retry starts a row's delay   *)
(* when it ends the run.                                                    *)
OnlyPendingWaits ==
    \A i \in Ids : jobs[i].status # "pending" => jobs[i].wait = 0

TokensDue ==
    \A r \in runs : r.attempt = jobs[r.id].attempts => jobs[r.id].wait = 0

FInv == IInv /\ OnlyPendingWaits /\ TokensDue

(* What a step can do to a row: nothing, or move an unfinished one on. *)
RowStep(i) ==
    /\ \/ jobs'[i] = jobs[i] /\ settlements'[i] = settlements[i]
       \/ /\ jobs[i].status \in Unfinished
          /\ jobs'[i].status # "pending" => jobs'[i].wait = 0
    /\ jobs'[i].attempts >= jobs[i].attempts

RowSteps == /\ Ids \subseteq Ids'
            /\ \A i \in Ids : RowStep(i)
            /\ \A i \in Ids' \ Ids : jobs'[i].status = "pending"
            /\ TokensDue'

LEMMA RowUntouched ==
    ASSUME NEW row \in Rows
    PROVE  [row EXCEPT !.wait = row.wait, !.age = row.age] = row
BY DEF Rows

LEMMA Shape ==
    ASSUME FInv
    PROVE  /\ jobs \in [Ids -> Rows]
           /\ \A i \in Ids : /\ jobs[i] \in Rows /\ jobs[i].attempts \in Nat
                             /\ jobs[i].wait \in Nat
           /\ \A r \in runs : r \in Runs /\ r.id \in Ids /\ r.attempt \in Nat
<1>1. /\ jobs \in [Ids -> Rows]
      /\ \A r \in runs : r \in Runs /\ r.id \in Ids
  BY DEF FInv, IInv, TypeOK
<1>2. \A i \in Ids : jobs[i].attempts \in Nat /\ jobs[i].wait \in Nat
  BY <1>1, RowFields, BoundsAssumption DEF Attempts
<1>3. \A r \in runs : r.attempt \in Nat
  BY <1>1 DEF Runs
<1> QED BY <1>1, <1>2, <1>3

LEMMA QuietRows ==
    ASSUME FInv, UNCHANGED <<jobs, lastId, settlements>>, runs' \subseteq runs
    PROVE  RowSteps
BY Shape DEF FInv, RowSteps, RowStep, TokensDue, Ids

LEMMA InsertRows ==
    ASSUME FInv, NEW n, NEW k, NEW priority, NEW delay, NEW limit,
           InsertJob(n, k, priority, delay, limit)
    PROVE  RowSteps
<1>1. Ids \subseteq Ids'
  BY DEF InsertJob, FInv, IInv, TypeOK, Ids
<1>2. /\ \A i \in Ids : jobs'[i] = jobs[i] /\ settlements'[i] = settlements[i]
      /\ \A i \in Ids' \ Ids : jobs'[i].status = "pending"
      /\ runs' = runs
  BY <1>1 DEF InsertJob
<1> QED BY <1>1, <1>2, Shape DEF FInv, RowSteps, RowStep, TokensDue

LEMMA ClaimRows ==
    ASSUME FInv, NEW w \in Workers, Claim(w)
    PROVE  RowSteps
<1>1. PICK i \in Due(QueueOf[w]) :
         /\ jobs' = [jobs EXCEPT ![i] = [@ EXCEPT !.status = "active",
                                    !.attempts = jobs[i].attempts + 1,
                                    !.age = 0]]
         /\ runs' = runs \cup {[worker |-> w, id |-> i,
                                attempt |-> jobs[i].attempts + 1]}
  BY DEF Claim, Claimable
<1>2. /\ i \in Ids /\ jobs[i] \in Rows /\ jobs \in [Ids -> Rows]
      /\ jobs[i].status = "pending" /\ jobs[i].wait = 0
      /\ Ids' = Ids /\ settlements' = settlements
  BY Shape DEF Due, Claim, Ids
<1>3. jobs'[i] = [jobs[i] EXCEPT !.status = "active",
                                 !.attempts = jobs[i].attempts + 1, !.age = 0]
  BY <1>1, <1>2
<1>4. /\ jobs'[i].attempts = jobs[i].attempts + 1 /\ jobs'[i].wait = 0
      /\ \A j \in Ids : j # i => jobs'[j] = jobs[j]
  BY <1>1, <1>2, <1>3 DEF Rows
<1>5. TokensDue'
  BY <1>1, <1>2, <1>4, Shape DEF FInv, TokensDue
<1>6. \A j \in Ids : RowStep(j)
  BY <1>2, <1>4, Shape DEF RowStep, Unfinished
<1> QED BY <1>2, <1>5, <1>6 DEF RowSteps

LEMMA SettleRows ==
    ASSUME FInv, NEW r \in runs, Settle(r)
    PROVE  RowSteps
<1>1. /\ r.id \in Ids /\ jobs[r.id] \in Rows /\ jobs \in [Ids -> Rows]
      /\ Ids' = Ids /\ lastId' = lastId /\ runs' = runs \ {r}
      /\ settlements \in [Ids -> Seq(Settlement)]
  BY Shape DEF FInv, IInv, TypeOK, Settle, Ids
<1>2. CASE ~Fence(r)
  BY <1>1, <1>2, QuietRows DEF Settle, CompleteInternal, FailInternal
<1>3. CASE Fence(r)
  <2>1. /\ jobs[r.id].status \in Unfinished /\ jobs[r.id].wait = 0
        /\ jobs[r.id].attempts = r.attempt
    BY <1>3 DEF Fence, FInv, IInv, FencingTokens, TokenOpen, TokensDue
  <2>2. /\ \A i \in Ids : i # r.id => /\ jobs'[i] = jobs[i]
                                      /\ settlements'[i] = settlements[i]
        /\ jobs'[r.id].attempts = jobs[r.id].attempts
        /\ jobs'[r.id].status # "pending" => jobs'[r.id].wait = 0
    <3>1. CASE CompleteInternal(r)
      <4> PICK end : end = IF RemoveOnComplete THEN "removed" ELSE "done"
        OBVIOUS
      <4>1. jobs' = [jobs EXCEPT ![r.id] = [@ EXCEPT !.status = end, !.age = 0]]
        BY <1>3, <3>1 DEF CompleteInternal
      <4>2. jobs'[r.id] = [jobs[r.id] EXCEPT !.status = end, !.age = 0]
        BY <1>1, <4>1
      <4>3. \A i \in Ids : i # r.id => settlements'[i] = settlements[i]
        BY <1>1, <1>3, <3>1 DEF CompleteInternal, Record
      <4> QED BY <1>1, <2>1, <4>1, <4>2, <4>3 DEF Rows
    <3>2. CASE FailInternal(r)
      <4>1. jobs' = [jobs EXCEPT ![r.id] =
              IF RetriesLeft(r)
              THEN [@ EXCEPT !.status = "pending", !.age = 0,
                             !.wait = Backoff[r.attempt]]
              ELSE [@ EXCEPT !.status = "failed", !.age = 0]]
        BY <1>3, <3>2 DEF FailInternal
      <4>2. \/ jobs'[r.id] = [jobs[r.id] EXCEPT !.status = "pending", !.age = 0,
                                                !.wait = Backoff[r.attempt]]
            \/ jobs'[r.id] = [jobs[r.id] EXCEPT !.status = "failed", !.age = 0]
        BY <1>1, <4>1
      <4>3. \A i \in Ids : i # r.id => settlements'[i] = settlements[i]
        BY <1>1, <1>3, <3>2 DEF FailInternal, Record
      <4> QED BY <1>1, <2>1, <4>1, <4>2, <4>3 DEF Rows
    <3> QED BY <3>1, <3>2 DEF Settle
  <2>3. TokensDue'
    <3> SUFFICES ASSUME NEW s \in runs', s.attempt = jobs'[s.id].attempts
                 PROVE  jobs'[s.id].wait = 0
      BY DEF TokensDue
    <3>1. s \in runs /\ s # r /\ s.id \in Ids
      BY <1>1, Shape
    <3>2. s.id # r.id
      BY <2>1, <2>2, <3>1 DEF FInv, IInv, FencingTokens, UniqueToken
    <3> QED BY <2>2, <3>1, <3>2 DEF FInv, TokensDue
  <2>4. \A i \in Ids : RowStep(i)
    BY <2>1, <2>2, Shape DEF RowStep
  <2> QED BY <1>1, <2>3, <2>4 DEF RowSteps
<1> QED BY <1>2, <1>3

(* Heartbeats and the reaper touch active rows only. *)
ActiveOnly ==
    \A i \in Ids :
       \/ jobs'[i] = jobs[i]
       \/ /\ jobs[i].status = "active"
          /\ \/ jobs'[i] = [jobs[i] EXCEPT !.age = 0]
             \/ jobs'[i] = [jobs[i] EXCEPT !.status = "pending", !.age = 0]

LEMMA LeaseRows ==
    ASSUME FInv, UNCHANGED <<lastId, settlements, runs>>, ActiveOnly
    PROVE  RowSteps
<1>1. \A i \in Ids : /\ jobs'[i].attempts = jobs[i].attempts
                     /\ jobs'[i].wait = jobs[i].wait
                     /\ jobs'[i] # jobs[i] => jobs[i].status = "active"
  BY Shape DEF Rows, ActiveOnly
<1>2. TokensDue'
  BY <1>1, Shape DEF FInv, TokensDue
<1>3. \A i \in Ids : RowStep(i)
  <2> SUFFICES ASSUME NEW i \in Ids PROVE RowStep(i)
    OBVIOUS
  <2>0. jobs'[i].attempts >= jobs[i].attempts /\ settlements'[i] = settlements[i]
    <3>1. jobs[i].attempts \in Nat
      BY Shape
    <3> QED BY <1>1, <3>1
  <2>1. CASE jobs[i].status = "active"
    <3>1. jobs[i].wait = 0 /\ jobs'[i].wait = 0
      BY <1>1, <2>1 DEF FInv, OnlyPendingWaits
    <3> QED BY <2>0, <2>1, <3>1 DEF RowStep, Unfinished
  <2>2. CASE jobs[i].status # "active"
    BY <1>1, <2>0, <2>2 DEF RowStep
  <2> QED BY <2>1, <2>2
<1> QED BY <1>2, <1>3 DEF RowSteps, Ids

LEMMA RecoverRows ==
    ASSUME FInv, NEW older, NEW names, Recover(older, names)
    PROVE  RowSteps
<1>1. \A i \in Ids :
         \/ jobs'[i] = jobs[i]
         \/ /\ jobs[i].status = "active"
            /\ jobs'[i] = [jobs[i] EXCEPT !.status = "pending", !.age = 0]
  BY DEF Recover, Reclaimed, Expired
<1> QED BY <1>1, LeaseRows DEF Recover, Reclaimed, ActiveOnly

LEMMA HeartbeatRows ==
    ASSUME FInv, NEW r \in runs, HeartbeatInternal(r)
    PROVE  RowSteps
<1>1. \A i \in Ids :
         \/ jobs'[i] = jobs[i]
         \/ /\ jobs[i].status = "active"
            /\ jobs'[i] = [jobs[i] EXCEPT !.age = 0]
  BY Shape DEF HeartbeatInternal, HeartbeatDue, Holds
<1> QED BY <1>1, LeaseRows DEF HeartbeatInternal, ActiveOnly

LEMMA TickRows ==
    ASSUME FInv, Tick
    PROVE  RowSteps
<1>1. ASSUME NEW i \in Ids
      PROVE  /\ jobs'[i].attempts = jobs[i].attempts
             /\ jobs'[i].status = jobs[i].status
             /\ jobs[i].wait = 0 => jobs'[i].wait = 0
             /\ jobs[i].status \in Finished => jobs'[i] = jobs[i]
  <2> PICK wait : wait = IF jobs[i].wait > 0 THEN jobs[i].wait - 1 ELSE 0
    OBVIOUS
  <2> PICK age : age = IF jobs[i].status = "active" /\ jobs[i].age < AgeCap
                       THEN jobs[i].age + 1 ELSE jobs[i].age
    OBVIOUS
  <2>1. jobs'[i] = [jobs[i] EXCEPT !.wait = wait, !.age = age]
    BY DEF Tick
  <2>2. /\ jobs'[i].attempts = jobs[i].attempts
        /\ jobs'[i].status = jobs[i].status
        /\ jobs'[i].wait = wait
    BY <2>1, Shape DEF Rows
  <2>3. ASSUME jobs[i].status \in Finished
        PROVE  jobs'[i] = jobs[i]
    <3>1. wait = jobs[i].wait /\ age = jobs[i].age
      BY <2>3 DEF FInv, OnlyPendingWaits, Finished
    <3> QED BY <2>1, <3>1, RowUntouched, Shape
  <2> QED BY <2>2, <2>3
<1>2. TokensDue'
  <2> SUFFICES ASSUME NEW r \in runs, r.attempt = jobs'[r.id].attempts
               PROVE  jobs'[r.id].wait = 0
    BY DEF Tick, TokensDue
  <2>1. r.id \in Ids
    BY Shape
  <2> QED BY <1>1, <2>1 DEF FInv, TokensDue
<1>3. \A i \in Ids : RowStep(i)
  <2> SUFFICES ASSUME NEW i \in Ids PROVE RowStep(i)
    OBVIOUS
  <2>1. jobs[i].status \in Finished \/ jobs[i].status \in Unfinished
    BY Shape DEF Rows, Statuses, Finished, Unfinished
  <2>2. settlements'[i] = settlements[i]
    BY DEF Tick
  <2> QED BY <1>1, <2>1, <2>2, Shape
          DEF RowStep, FInv, OnlyPendingWaits
<1> QED BY <1>2, <1>3 DEF RowSteps, Tick, Ids

LEMMA NextRows == FInv /\ [Next]_vars => RowSteps
<1> SUFFICES ASSUME FInv, [Next]_vars PROVE RowSteps
  OBVIOUS
<1>1. ASSUME NEW p \in Producers, NEW n \in Names, NEW k \in JobKeys,
             AddLookup(p, n, k)
      PROVE  RowSteps
  BY <1>1, QuietRows DEF AddLookup, table
<1>2. ASSUME NEW p \in Producers, AddKeyed(p)
      PROVE  RowSteps
  BY <1>2, InsertRows DEF AddKeyed
<1>3. ASSUME NEW n \in Names, AddPlain(n)
      PROVE  RowSteps
  BY <1>3, InsertRows DEF AddPlain
<1>4. ASSUME NEW w \in Workers, Claim(w)
      PROVE  RowSteps
  BY <1>4, ClaimRows
<1>5. ASSUME NEW w \in Workers, Reap(w)
      PROVE  RowSteps
  BY <1>5, RecoverRows DEF Reap
<1>6. ASSUME NEW w \in Workers,
             Process(w) \/ Stop(w) \/ Crash(w) \/ Freeze(w) \/ Thaw(w)
      PROVE  RowSteps
  BY <1>6, QuietRows DEF Process, Stop, Crash, Freeze, Thaw, table
<1>7. ASSUME NEW r \in runs, Settle(r)
      PROVE  RowSteps
  BY <1>7, SettleRows
<1>8. ASSUME NEW r \in runs, SettleThrows(r)
      PROVE  RowSteps
  BY <1>8, QuietRows DEF SettleThrows, table
<1>9. ASSUME NEW r \in runs, HeartbeatInternal(r)
      PROVE  RowSteps
  BY <1>9, HeartbeatRows
<1>10. CASE RecoverAll
  BY <1>10, RecoverRows DEF RecoverAll
<1>11. CASE Tick
  BY <1>11, TickRows
<1>12. CASE UNCHANGED vars
  BY <1>12, QuietRows DEF vars
<1> QED BY <1>1, <1>2, <1>3, <1>4, <1>5, <1>6, <1>7, <1>8, <1>9, <1>10,
           <1>11, <1>12 DEF Next

LEMMA InitRows == Init => FInv
<1>1. Init => IInv
  BY InitFenced
<1>2. ASSUME Init PROVE Ids = {} /\ runs = {}
  BY <1>2 DEF Init, Ids
<1> QED BY <1>1, <1>2 DEF FInv, OnlyPendingWaits, TokensDue

LEMMA NextFinal == FInv /\ [Next]_vars => FInv'
<1> SUFFICES ASSUME FInv, [Next]_vars PROVE FInv'
  OBVIOUS
<1>1. RowSteps /\ IInv'
  BY NextRows, NextFenced DEF FInv
<1>2. OnlyPendingWaits'
  BY <1>1 DEF RowSteps, RowStep, FInv, OnlyPendingWaits
<1> QED BY <1>1, <1>2 DEF FInv, RowSteps

(* A finished row is final: no statement of any worker, stale or not,      *)
(* changes it again, and no outcome is accepted for it any more.            *)
THEOREM FinishedFinal == Spec => FinishedRowsAreFinal
<1> DEFINE Final == \A i \in Ids : jobs[i].status \in Finished =>
                       jobs'[i] = jobs[i] /\ settlements'[i] = settlements[i]
<1>1. FInv /\ [Next]_vars => [Final]_vars
  BY NextRows DEF RowSteps, RowStep, Finished, Unfinished
<1> QED BY <1>1, InitRows, NextFinal, PTL DEF Spec, FinishedRowsAreFinal

-----------------------------------------------------------------------------
(* The lease of a running handler.  A row is reclaimed when its age exceeds *)
(* a timeout; a beat is due at LeaseInterval, which is no longer than the   *)
(* timeout, and time does not pass while a beat is due in a process that    *)
(* is up.  So the age of a row that a run holds never exceeds the interval. *)
LeaseKept(r) ==
    /\ Holds(r)
    /\ mode[r.worker] # "down"
    /\ jobs[r.id].queue = QueueOf[r.worker]
    /\ VisibilityTimeout[QueueOf[r.worker]] > 0 =>
          jobs[r.id].age <= LeaseInterval(QueueOf[r.worker])

LeasesKept == freezes = 0 => frozen = {} /\ \A r \in runs : LeaseKept(r)

LInv == FInv /\ LeasesKept

LEMMA Intervals ==
    ASSUME LongTimeouts, NEW n \in Names
    PROVE  /\ LeaseInterval(n) \in Nat
           /\ VisibilityTimeout[n] \in Nat
           /\ VisibilityTimeout[n] > 0 => LeaseInterval(n) <= VisibilityTimeout[n]
           /\ \A t \in ManualAges : /\ t \in Nat
                                    /\ VisibilityTimeout[n] > 0
                                    /\ LeaseInterval(n) <= t
<1>1. /\ VisibilityTimeout[n] \in Nat /\ HeartbeatFloor \in Nat
      /\ VisibilityTimeout[n] = 0 \/ VisibilityTimeout[n] >= HeartbeatFloor
  BY OptionsAssumption DEF LongTimeouts
<1>2. /\ LeaseInterval(n) \in Nat
      /\ VisibilityTimeout[n] > 0 => LeaseInterval(n) <= VisibilityTimeout[n]
  BY <1>1 DEF LeaseInterval
<1>3. \A t \in ManualAges : /\ t \in Nat /\ VisibilityTimeout[n] > 0
                            /\ LeaseInterval(n) <= t
  BY SetsAssumption DEF LongTimeouts
<1> QED BY <1>1, <1>2, <1>3

(* What the runs and rows of a state without stalls are. *)
LEMMA LeaseShape ==
    ASSUME LInv, freezes = 0
    PROVE  /\ frozen = {}
           /\ jobs \in [Ids -> Rows]
           /\ \A r \in runs :
                /\ LeaseKept(r) /\ Holds(r) /\ r.id \in Ids
                /\ jobs[r.id] \in Rows /\ r.worker \in Workers
                /\ QueueOf[r.worker] \in Names
           /\ \A r, s \in runs : r.id = s.id => r = s
<1>1. /\ frozen = {} /\ jobs \in [Ids -> Rows]
      /\ \A r \in runs : LeaseKept(r) /\ Holds(r) /\ r.id \in Ids /\ r \in Runs
  BY Shape DEF LInv, LeasesKept, LeaseKept
<1>2. \A r \in runs : r.worker \in Workers /\ QueueOf[r.worker] \in Names
  BY <1>1, OptionsAssumption DEF Runs
<1>3. \A r, s \in runs : r.id = s.id => r = s
  BY <1>1 DEF Holds, LInv, FInv, IInv, FencingTokens, UniqueToken
<1> QED BY <1>1, <1>2, <1>3

LEMMA ClaimLease ==
    ASSUME LInv, LongTimeouts, freezes = 0, NEW w \in Workers, Claim(w)
    PROVE  \A r \in runs' : LeaseKept(r)'
<1>1. PICK i \in Due(QueueOf[w]) :
         /\ jobs' = [jobs EXCEPT ![i] = [@ EXCEPT !.status = "active",
                                    !.attempts = jobs[i].attempts + 1,
                                    !.age = 0]]
         /\ runs' = runs \cup {[worker |-> w, id |-> i,
                                attempt |-> jobs[i].attempts + 1]}
  BY DEF Claim, Claimable
<1> PICK new : new = [worker |-> w, id |-> i, attempt |-> jobs[i].attempts + 1]
  OBVIOUS
<1>2. /\ i \in Ids /\ jobs[i] \in Rows /\ jobs \in [Ids -> Rows]
      /\ jobs[i].status = "pending" /\ jobs[i].queue = QueueOf[w]
      /\ mode' = mode /\ mode[w] = "running"
      /\ \A r \in runs' : r \in runs \/ r = new
  BY <1>1, LeaseShape DEF Due, Claim
<1>3. jobs'[i] = [jobs[i] EXCEPT !.status = "active",
                                 !.attempts = jobs[i].attempts + 1, !.age = 0]
  BY <1>1, <1>2
<1>4. /\ jobs'[i].attempts = jobs[i].attempts + 1 /\ jobs'[i].age = 0
      /\ jobs'[i].status = "active" /\ jobs'[i].queue = jobs[i].queue
      /\ \A j \in Ids : j # i => jobs'[j] = jobs[j]
  BY <1>1, <1>2, <1>3 DEF Rows
<1>5. ASSUME NEW r \in runs
      PROVE  LeaseKept(r)'
  <2>1. r.id # i
    BY <1>2, LeaseShape DEF Holds
  <2> QED BY <1>2, <1>4, <2>1, LeaseShape DEF LeaseKept, Holds
<1>6. LeaseKept(new)'
  <2>1. QueueOf[w] \in Names
    BY OptionsAssumption
  <2> QED BY <1>2, <1>4, <2>1, Intervals DEF LeaseKept, Holds
<1> QED BY <1>2, <1>5, <1>6

LEMMA SettleLease ==
    ASSUME LInv, freezes = 0, NEW r \in runs, Settle(r)
    PROVE  \A s \in runs' : LeaseKept(s)'
<1> SUFFICES ASSUME NEW s \in runs' PROVE LeaseKept(s)'
  OBVIOUS
<1>1. s \in runs /\ s # r /\ s.id # r.id /\ mode' = mode
  BY LeaseShape DEF Settle
<1>2. jobs'[s.id] = jobs[s.id]
  BY <1>1, LeaseShape DEF Settle, CompleteInternal, FailInternal
<1> QED BY <1>1, <1>2, LeaseShape DEF LeaseKept, Holds

LEMMA RecoverLease ==
    ASSUME LInv, LongTimeouts, freezes = 0, NEW older, NEW names,
           Recover(older, names),
           \/ \E n \in Names : /\ older = VisibilityTimeout[n] /\ names = {n}
                               /\ VisibilityTimeout[n] > 0
           \/ older \in ManualAges
    PROVE  \A r \in runs' : LeaseKept(r)'
<1> SUFFICES ASSUME NEW r \in runs PROVE LeaseKept(r)'
  BY DEF Recover, Reclaimed
<1>1. /\ r.id \in Ids /\ jobs[r.id].age \in Nat /\ LeaseKept(r)
      /\ QueueOf[r.worker] \in Names
  BY LeaseShape, RowFields
<1>2. r.id \notin Expired(older, names)
  BY <1>1, Intervals DEF Expired, LeaseKept
<1>3. jobs'[r.id] = jobs[r.id] /\ mode' = mode
  BY <1>1, <1>2 DEF Recover, Reclaimed
<1> QED BY <1>1, <1>3 DEF LeaseKept, Holds

LEMMA HeartbeatLease ==
    ASSUME LInv, LongTimeouts, freezes = 0,
           NEW s \in runs, HeartbeatInternal(s)
    PROVE  \A r \in runs' : LeaseKept(r)'
<1> SUFFICES ASSUME NEW r \in runs PROVE LeaseKept(r)'
  BY DEF HeartbeatInternal
<1>1. CASE r.id = s.id
  <2>1. jobs'[r.id] = [jobs[r.id] EXCEPT !.age = 0]
    BY <1>1, LeaseShape DEF HeartbeatInternal
  <2>2. /\ jobs'[r.id].status = jobs[r.id].status
        /\ jobs'[r.id].attempts = jobs[r.id].attempts
        /\ jobs'[r.id].queue = jobs[r.id].queue
        /\ jobs'[r.id].age = 0
    BY <2>1, LeaseShape DEF Rows
  <2> QED BY <2>2, LeaseShape, Intervals DEF LeaseKept, Holds, HeartbeatInternal
<1>2. CASE r.id # s.id
  BY <1>2, LeaseShape DEF LeaseKept, Holds, HeartbeatInternal
<1> QED BY <1>1, <1>2

LEMMA TickLease ==
    ASSUME LInv, LongTimeouts, freezes = 0, Tick
    PROVE  \A r \in runs' : LeaseKept(r)'
<1> SUFFICES ASSUME NEW r \in runs PROVE LeaseKept(r)'
  BY DEF Tick
<1> PICK wait : wait = IF jobs[r.id].wait > 0 THEN jobs[r.id].wait - 1 ELSE 0
  OBVIOUS
<1> PICK age : age = IF jobs[r.id].status = "active" /\ jobs[r.id].age < AgeCap
                     THEN jobs[r.id].age + 1 ELSE jobs[r.id].age
  OBVIOUS
<1>1. /\ r.id \in Ids /\ jobs[r.id] \in Rows /\ jobs[r.id].age \in Nat
      /\ LeaseKept(r) /\ QueueOf[r.worker] \in Names /\ frozen = {}
  BY LeaseShape, RowFields
<1>2. jobs'[r.id] = [jobs[r.id] EXCEPT !.wait = wait, !.age = age]
  BY <1>1 DEF Tick
<1>3. /\ jobs'[r.id].status = jobs[r.id].status
      /\ jobs'[r.id].attempts = jobs[r.id].attempts
      /\ jobs'[r.id].queue = jobs[r.id].queue
      /\ jobs'[r.id].age = age
  BY <1>1, <1>2 DEF Rows
<1>4. ASSUME VisibilityTimeout[QueueOf[r.worker]] > 0
      PROVE  age <= LeaseInterval(QueueOf[r.worker])
  <2>1. ~HeartbeatDue(r) /\ LeaseInterval(QueueOf[r.worker]) \in Nat
    BY <1>1, Intervals DEF Tick
  <2>2. jobs[r.id].age < LeaseInterval(QueueOf[r.worker])
    BY <1>1, <1>4, <2>1 DEF HeartbeatDue, LeaseKept, Up
  <2>3. age = jobs[r.id].age \/ age = jobs[r.id].age + 1
    OBVIOUS
  <2> QED BY <1>1, <2>1, <2>2, <2>3
<1>5. mode' = mode
  BY DEF Tick
<1> QED BY <1>1, <1>3, <1>4, <1>5 DEF LeaseKept, Holds

(* Steps that keep the rows of the runs that go on, and their workers up. *)
LEMMA OtherLease ==
    ASSUME LInv, freezes = 0, runs' \subseteq runs,
           \A i \in Ids : jobs'[i] = jobs[i],
           \A r \in runs' : mode[r.worker] # "down" => mode'[r.worker] # "down"
    PROVE  \A r \in runs' : LeaseKept(r)'
BY LeaseShape DEF LeaseKept, Holds

LEMMA NextLease == LongTimeouts /\ LInv /\ [Next]_vars => LeasesKept'
<1> SUFFICES ASSUME LongTimeouts, LInv, [Next]_vars, freezes' = 0
             PROVE  frozen' = {} /\ \A r \in runs' : LeaseKept(r)'
  BY DEF LeasesKept
<1>0. freezes \in Nat /\ mode \in [Workers -> {"down", "running", "stopped"}]
  BY BoundsAssumption DEF LInv, FInv, IInv, TypeOK
<1> DEFINE Goal == frozen' = {} /\ \A r \in runs' : LeaseKept(r)'
<1>1. ASSUME freezes = 0,
             NEW p \in Producers, NEW n \in Names, NEW k \in JobKeys,
             AddLookup(p, n, k)
      PROVE  Goal
  BY <1>1, LeaseShape, OtherLease DEF AddLookup, table
<1>2. ASSUME freezes = 0, NEW n, NEW k, NEW priority, NEW delay, NEW limit,
             InsertJob(n, k, priority, delay, limit)
      PROVE  Goal
  <2>1. \A i \in Ids : jobs'[i] = jobs[i]
    BY <1>2 DEF InsertJob, Ids, LInv, FInv, IInv, TypeOK
  <2> QED BY <1>2, <2>1, LeaseShape, OtherLease DEF InsertJob
<1>3. ASSUME freezes = 0, NEW p \in Producers, AddKeyed(p)
      PROVE  Goal
  BY <1>2, <1>3 DEF AddKeyed
<1>4. ASSUME freezes = 0, NEW n \in Names, AddPlain(n)
      PROVE  Goal
  BY <1>2, <1>4 DEF AddPlain
<1>5. ASSUME freezes = 0, NEW w \in Workers, Claim(w)
      PROVE  Goal
  BY <1>5, LeaseShape, ClaimLease DEF Claim
<1>6. ASSUME freezes = 0, NEW w \in Workers, Reap(w)
      PROVE  Goal
  <2>1. QueueOf[w] \in Names
    BY OptionsAssumption
  <2> QED BY <1>6, <2>1, LeaseShape, RecoverLease, ZenonT(60) DEF Reap, Recover, Reclaimed
<1>7. ASSUME freezes = 0, NEW w \in Workers, Process(w) \/ Stop(w)
      PROVE  Goal
  BY <1>0, <1>7, LeaseShape, OtherLease DEF Process, Stop, table
<1>8. ASSUME freezes = 0, NEW w \in Workers, Crash(w)
      PROVE  Goal
  <2>1. \A r \in runs' : r.worker # w
    BY <1>8 DEF Crash, RunsOf
  <2> QED BY <1>0, <1>8, <2>1, LeaseShape, OtherLease DEF Crash, RunsOf, table
<1>9. ASSUME NEW w \in Workers, Freeze(w)
      PROVE  Goal
  BY <1>0, <1>9 DEF Freeze
<1>10. ASSUME freezes = 0, NEW w \in Workers, Thaw(w)
       PROVE  Goal
  BY <1>10, LeaseShape DEF Thaw
<1>11. ASSUME freezes = 0, NEW r \in runs, Settle(r)
       PROVE  Goal
  BY <1>11, LeaseShape, SettleLease DEF Settle
<1>12. ASSUME freezes = 0, NEW r \in runs, SettleThrows(r)
       PROVE  Goal
  BY <1>12, LeaseShape, OtherLease DEF SettleThrows, table
<1>13. ASSUME freezes = 0, NEW r \in runs, HeartbeatInternal(r)
       PROVE  Goal
  BY <1>13, LeaseShape, HeartbeatLease DEF HeartbeatInternal
<1>14. ASSUME freezes = 0, RecoverAll
       PROVE  Goal
  BY <1>14, LeaseShape, RecoverLease DEF RecoverAll, Recover, Reclaimed
<1>15. ASSUME freezes = 0, Tick
       PROVE  Goal
  BY <1>15, LeaseShape, TickLease DEF Tick
<1>16. ASSUME freezes = 0, UNCHANGED vars
       PROVE  Goal
  BY <1>16, LeaseShape, OtherLease DEF vars
<1>17. freezes = 0 \/ \E w \in Workers : Freeze(w)
  BY <1>0 DEF Next, vars, budgets, AddLookup, AddKeyed, AddPlain, InsertJob,
              Claim, Reap, Recover, Process, Stop, Crash, Thaw, Settle,
              SettleThrows, HeartbeatInternal, RecoverAll, Tick
<1> HIDE DEF Goal
<1>18. Goal
  BY <1>1, <1>3, <1>4, <1>5, <1>6, <1>7, <1>8, <1>9, <1>10, <1>11, <1>12,
     <1>13, <1>14, <1>15, <1>16, <1>17 DEF Next
<1> QED BY <1>18 DEF Goal

(* With timeouts of at least the heartbeat floor, a job whose handler is   *)
(* still running in a process that is up is never reclaimed under it, for  *)
(* any number of workers, queues, jobs and crashes, as long as no event    *)
(* loop stalls.                                                             *)
THEOREM LiveRunsKeepLeases == LongTimeouts => (Spec => []LiveRunKeepsLease)
<1> SUFFICES ASSUME LongTimeouts PROVE Spec => []LiveRunKeepsLease
  OBVIOUS
<1>1. Init => LInv
  <2>1. Init => FInv
    BY InitRows
  <2> QED BY <2>1 DEF Init, LInv, LeasesKept
<1>2. LInv /\ [Next]_vars => LInv'
  BY NextFinal, NextLease DEF LInv
<1>3. LInv => LiveRunKeepsLease
  BY DEF LInv, LeasesKept, LeaseKept, LiveRunKeepsLease
<1> QED BY <1>1, <1>2, <1>3, PTL DEF Spec

-----------------------------------------------------------------------------
(***************************************************************************)
(* What the options of an add() promise: a jobId is live at most once as   *)
(* long as a single process adds, and maxAttempts is exceeded only by the  *)
(* runs that a crash, a failed write or a stall has lost.                  *)
(***************************************************************************)

(* No statement changes the name, the key or the limit of a row. *)
KeyKept(i) == /\ jobs'[i].queue = jobs[i].queue
              /\ jobs'[i].jobId = jobs[i].jobId
              /\ jobs'[i].maxAttempts = jobs[i].maxAttempts

KeysKept == Ids \subseteq Ids' /\ \A i \in Ids : KeyKept(i)

LEMMA SameRows ==
    ASSUME UNCHANGED <<jobs, lastId>>
    PROVE  KeysKept
BY DEF KeysKept, KeyKept, Ids

LEMMA SettleKeys ==
    ASSUME TypeOK, NEW r \in runs, Settle(r)
    PROVE  KeysKept
<1>1. /\ Ids' = Ids /\ jobs \in [Ids -> Rows] /\ r.id \in Ids
      /\ jobs[r.id] \in Rows
  BY DEF Settle, TypeOK, Ids
<1>2. CASE ~Fence(r)
  BY <1>1, <1>2, SameRows DEF Settle, CompleteInternal, FailInternal
<1>3. CASE Fence(r) /\ CompleteInternal(r)
  <2> PICK end : end = IF RemoveOnComplete THEN "removed" ELSE "done"
    OBVIOUS
  <2>1. jobs' = [jobs EXCEPT ![r.id] = [@ EXCEPT !.status = end, !.age = 0]]
    BY <1>3 DEF CompleteInternal
  <2>2. jobs'[r.id] = [jobs[r.id] EXCEPT !.status = end, !.age = 0]
    BY <1>1, <2>1
  <2>3. KeyKept(r.id)
    BY <1>1, <2>2 DEF Rows, KeyKept
  <2> QED BY <1>1, <2>1, <2>3 DEF KeysKept, KeyKept
<1>4. CASE Fence(r) /\ FailInternal(r)
  <2>1. jobs' = [jobs EXCEPT ![r.id] =
              IF RetriesLeft(r)
              THEN [@ EXCEPT !.status = "pending", !.age = 0,
                             !.wait = Backoff[r.attempt]]
              ELSE [@ EXCEPT !.status = "failed", !.age = 0]]
    BY <1>4 DEF FailInternal
  <2>2. \/ jobs'[r.id] = [jobs[r.id] EXCEPT !.status = "pending", !.age = 0,
                                            !.wait = Backoff[r.attempt]]
        \/ jobs'[r.id] = [jobs[r.id] EXCEPT !.status = "failed", !.age = 0]
    BY <1>1, <2>1
  <2>3. KeyKept(r.id)
    BY <1>1, <2>2 DEF Rows, KeyKept
  <2> QED BY <1>1, <2>1, <2>3 DEF KeysKept, KeyKept
<1> QED BY <1>2, <1>3, <1>4 DEF Settle

LEMMA RecoverKeys ==
    ASSUME TypeOK, NEW older, NEW names, Recover(older, names)
    PROVE  KeysKept
<1>1. ASSUME NEW i \in Ids PROVE KeyKept(i)
  <2>1. jobs[i] \in Rows
    BY DEF TypeOK
  <2>2. \/ jobs'[i] = jobs[i]
        \/ jobs'[i] = [jobs[i] EXCEPT !.status = "pending", !.age = 0]
    BY DEF Recover, Reclaimed
  <2> QED BY <2>1, <2>2 DEF Rows, KeyKept
<1> QED BY <1>1 DEF KeysKept, Recover, Ids

LEMMA TickKeys ==
    ASSUME TypeOK, Tick
    PROVE  KeysKept
<1>1. ASSUME NEW i \in Ids PROVE KeyKept(i)
  <2> PICK wait : wait = IF jobs[i].wait > 0 THEN jobs[i].wait - 1 ELSE 0
    OBVIOUS
  <2> PICK age : age = IF jobs[i].status = "active" /\ jobs[i].age < AgeCap
                       THEN jobs[i].age + 1 ELSE jobs[i].age
    OBVIOUS
  <2>1. jobs'[i] = [jobs[i] EXCEPT !.wait = wait, !.age = age]
    BY DEF Tick
  <2>2. jobs[i] \in Rows
    BY DEF TypeOK
  <2> QED BY <2>1, <2>2 DEF Rows, KeyKept
<1> QED BY <1>1 DEF KeysKept, Tick, Ids

LEMMA NextKeys == TypeOK /\ [Next]_vars => KeysKept
<1> SUFFICES ASSUME TypeOK, [Next]_vars PROVE KeysKept
  OBVIOUS
<1>0. jobs \in [Ids -> Rows] /\ \A r \in runs : r.id \in Ids
  BY DEF TypeOK
<1>1. ASSUME NEW n, NEW k, NEW priority, NEW delay, NEW limit,
             InsertJob(n, k, priority, delay, limit)
      PROVE  KeysKept
  BY <1>1 DEF InsertJob, TypeOK, KeysKept, KeyKept, Ids
<1>2. ASSUME NEW w \in Workers, Claim(w)
      PROVE  KeysKept
  <2>1. PICK i \in Due(QueueOf[w]) :
           jobs' = [jobs EXCEPT ![i] = [@ EXCEPT !.status = "active",
                                      !.attempts = jobs[i].attempts + 1,
                                      !.age = 0]]
    BY <1>2 DEF Claim, Claimable
  <2>2. i \in Ids /\ jobs[i] \in Rows /\ Ids' = Ids
    BY <1>0, <1>2 DEF Due, Claim, Ids
  <2>3. jobs'[i] = [jobs[i] EXCEPT !.status = "active",
                                   !.attempts = jobs[i].attempts + 1, !.age = 0]
    BY <1>0, <2>1, <2>2
  <2>4. KeyKept(i)
    BY <2>2, <2>3 DEF Rows, KeyKept
  <2> QED BY <1>0, <2>1, <2>2, <2>4 DEF KeysKept, KeyKept
<1>3. ASSUME NEW r \in runs, HeartbeatInternal(r)
      PROVE  KeysKept
  <2>1. jobs[r.id] \in Rows /\ jobs'[r.id] = [jobs[r.id] EXCEPT !.age = 0]
    BY <1>0, <1>3 DEF HeartbeatInternal
  <2>2. KeyKept(r.id)
    BY <2>1 DEF Rows, KeyKept
  <2> QED BY <1>0, <1>3, <2>2 DEF HeartbeatInternal, KeysKept, KeyKept, Ids
<1>4. \/ UNCHANGED <<jobs, lastId>>
      \/ \E n, k, priority, delay, limit : InsertJob(n, k, priority, delay, limit)
      \/ \E w \in Workers : Claim(w)
      \/ \E older, names : Recover(older, names)
      \/ \E r \in runs : HeartbeatInternal(r) \/ Settle(r)
      \/ Tick
  BY DEF Next, vars, table, AddLookup, AddKeyed, AddPlain, Reap, RecoverAll,
         Process, Stop, Crash, Freeze, Thaw, SettleThrows
<1> QED BY <1>1, <1>2, <1>3, <1>4, SameRows, SettleKeys, RecoverKeys, TickKeys

-----------------------------------------------------------------------------
(* AddOptions.jobId.  add() looks and inserts in two statements, so with    *)
(* two adding processes both can miss the other's row; with one, what the   *)
(* lookup did not find is still absent at the insert, because a row never   *)
(* returns from a finished status.                                          *)
OneProducer == \A p, q \in Producers : p = q

LookupHolds ==
    \A p \in Producers :
        adding[p] # NoRequest => ~Duplicate(adding[p].queue, adding[p].jobId)

UInv == FInv /\ UniqueLiveKey /\ LookupHolds

(* Rows that were there before: none of them becomes live. *)
LEMMA NoRevival ==
    ASSUME FInv, [Next]_vars, NEW i \in Ids
    PROVE  /\ i \in Ids'
           /\ jobs'[i].queue = jobs[i].queue /\ jobs'[i].jobId = jobs[i].jobId
           /\ jobs'[i].status \in Unfinished => jobs[i].status \in Unfinished
<1>1. RowStep(i) /\ KeyKept(i) /\ i \in Ids'
  BY NextRows, NextKeys DEF RowSteps, KeysKept, FInv, IInv
<1> QED BY <1>1 DEF RowStep, KeyKept

LEMMA LiveKeysOfOldRows ==
    ASSUME UInv, [Next]_vars, Ids' = Ids
    PROVE  /\ UniqueLiveKey'
           /\ \A n, k : ~Duplicate(n, k) => ~Duplicate(n, k)'
<1>1. UniqueLiveKey'
  BY NoRevival DEF UInv, UniqueLiveKey
<1>2. \A n, k : Duplicate(n, k)' => Duplicate(n, k)
  BY NoRevival DEF UInv, Duplicate
<1> QED BY <1>1, <1>2

LEMMA InsertUnique ==
    ASSUME UInv, NEW n, NEW k, NEW priority, NEW delay, NEW limit,
           InsertJob(n, k, priority, delay, limit),
           k # NoKey => ~Duplicate(n, k)
    PROVE  /\ UniqueLiveKey'
           /\ \A m, l : Duplicate(m, l)' => Duplicate(m, l) \/ l = k
<1> PICK new : new = lastId + 1
  OBVIOUS
<1>1. /\ Ids' = Ids \cup {new} /\ new \notin Ids
      /\ \A i \in Ids : jobs'[i] = jobs[i]
      /\ jobs'[new].queue = n /\ jobs'[new].jobId = k
  <2>1. Ids' = Ids \cup {new} /\ new \notin Ids
    BY DEF InsertJob, UInv, FInv, IInv, TypeOK, Ids
  <2> QED BY <2>1 DEF InsertJob
<1>2. UniqueLiveKey'
  <2> SUFFICES ASSUME NEW i \in Ids', NEW j \in Ids',
                      jobs'[i].jobId # NoKey,
                      jobs'[i].jobId = jobs'[j].jobId,
                      jobs'[i].queue = jobs'[j].queue,
                      jobs'[i].status \in Unfinished,
                      jobs'[j].status \in Unfinished
               PROVE  i = j
    BY DEF UniqueLiveKey
  <2>1. CASE i \in Ids /\ j \in Ids
    BY <1>1, <2>1 DEF UInv, UniqueLiveKey
  <2>2. CASE i \in Ids /\ j = new
    BY <1>1, <2>2 DEF Duplicate
  <2>3. CASE i = new /\ j \in Ids
    BY <1>1, <2>3 DEF Duplicate
  <2> QED BY <1>1, <2>1, <2>2, <2>3
<1>3. \A m, l : Duplicate(m, l)' => Duplicate(m, l) \/ l = k
  BY <1>1 DEF Duplicate
<1> QED BY <1>2, <1>3

LEMMA NextUnique == OneProducer /\ UInv /\ [Next]_vars => UInv'
<1> SUFFICES ASSUME OneProducer, UInv, [Next]_vars
             PROVE  UniqueLiveKey' /\ LookupHolds'
  BY NextFinal DEF UInv
<1>0. /\ adding \in [Producers -> Requests \cup {NoRequest}]
      /\ Requests = [queue : Names, jobId : JobKeys]
      /\ NoKey \notin JobKeys
  BY SetsAssumption DEF UInv, FInv, IInv, TypeOK, Requests
<1>1. ASSUME NEW p \in Producers, NEW n \in Names, NEW k \in JobKeys,
             AddLookup(p, n, k)
      PROVE  UniqueLiveKey' /\ LookupHolds'
  <2>1. Ids' = Ids /\ ~Duplicate(n, k)' /\ UniqueLiveKey'
    BY <1>1, LiveKeysOfOldRows DEF AddLookup, table, Ids
  <2>2. adding'[p] = [queue |-> n, jobId |-> k]
    BY <1>0, <1>1 DEF AddLookup
  <2>3. LookupHolds'
    BY <2>1, <2>2 DEF LookupHolds, OneProducer
  <2> QED BY <2>1, <2>3
<1>2. ASSUME NEW p \in Producers, AddKeyed(p)
      PROVE  UniqueLiveKey' /\ LookupHolds'
  <2>1. ~Duplicate(adding[p].queue, adding[p].jobId)
    BY <1>2 DEF AddKeyed, UInv, LookupHolds
  <2>2. UniqueLiveKey'
    BY <1>2, <2>1, InsertUnique DEF AddKeyed
  <2>3. \A q \in Producers : adding'[q] = NoRequest
    BY <1>0, <1>2 DEF AddKeyed, OneProducer
  <2> QED BY <2>2, <2>3 DEF LookupHolds
<1>3. ASSUME NEW n \in Names, AddPlain(n)
      PROVE  UniqueLiveKey' /\ LookupHolds'
  <2>1. /\ UniqueLiveKey'
        /\ \A m, l : Duplicate(m, l)' => Duplicate(m, l) \/ l = NoKey
    BY <1>3, InsertUnique DEF AddPlain
  <2>2. adding' = adding
    BY <1>3 DEF AddPlain
  <2>3. \A p \in Producers :
           adding[p] # NoRequest => adding[p].jobId # NoKey
    BY <1>0
  <2> QED BY <2>1, <2>2, <2>3 DEF UInv, LookupHolds
<1>4. ASSUME Ids' = Ids, adding' = adding
      PROVE  UniqueLiveKey' /\ LookupHolds'
  BY <1>4, LiveKeysOfOldRows DEF UInv, LookupHolds
<1>5. \/ \E p \in Producers, n \in Names, k \in JobKeys : AddLookup(p, n, k)
      \/ \E p \in Producers : AddKeyed(p)
      \/ \E n \in Names : AddPlain(n)
      \/ Ids' = Ids /\ adding' = adding
  BY DEF Next, vars, table, Ids, Claim, Reap, Recover, RecoverAll, Process,
         Stop, Crash, Freeze, Thaw, Settle, SettleThrows, HeartbeatInternal, Tick
<1> QED BY <1>1, <1>2, <1>3, <1>4, <1>5

(* As long as one process at a time adds keyed jobs, at most one live job  *)
(* has a given jobId in its queue, whatever the workers, the reapers and    *)
(* the crashes do to the rows meanwhile.                                    *)
THEOREM LiveKeysUnique == OneProducer => (Spec => []UniqueLiveKey)
<1> SUFFICES ASSUME OneProducer PROVE Spec => []UniqueLiveKey
  OBVIOUS
<1>1. Init => UInv
  <2> SUFFICES ASSUME Init PROVE UInv
    OBVIOUS
  <2>1. FInv /\ Ids = {}
    BY InitRows DEF Init, Ids
  <2> QED BY <2>1 DEF UInv, UniqueLiveKey, LookupHolds, Init
<1>2. UInv /\ [Next]_vars => UInv'
  BY NextUnique
<1>3. UInv => UniqueLiveKey
  BY DEF UInv
<1> QED BY <1>1, <1>2, <1>3, PTL DEF Spec

-----------------------------------------------------------------------------
(* AddOptions.maxAttempts.  The attempts of an unfinished row are its       *)
(* failures, the runs that were lost, and at most one run that still has a  *)
(* fresh lease.  A row whose last run is neither over nor fresh has already *)
(* been counted as a loss, so that a reclaim costs nothing more.            *)
Losses == crashes + freezes

Fresh(r) ==
    /\ Holds(r)
    /\ mode[r.worker] # "down" /\ r.worker \notin frozen
    /\ jobs[r.id].queue = QueueOf[r.worker]
    /\ VisibilityTimeout[QueueOf[r.worker]] > 0 =>
          jobs[r.id].age <= LeaseInterval(QueueOf[r.worker])

Ongoing(i) == IF \E r \in runs : r.id = i /\ Fresh(r) THEN 1 ELSE 0

Accounted(i) ==
    /\ jobs[i].status \in Unfinished =>
          jobs[i].attempts <= Len(settlements[i]) + Losses + Ongoing(i)
    /\ jobs[i].status \in Finished =>
          jobs[i].attempts <= jobs[i].maxAttempts + Losses

(* The n-th report about a job is about its n-th attempt or a later one. *)
ReportsNumbered ==
    \A i \in Ids : \A n \in DOMAIN settlements[i] :
        settlements[i][n].attempt >= n

AInv == FInv /\ ReportsNumbered /\ \A i \in Ids : Accounted(i)

LEMMA Counters ==
    ASSUME TypeOK
    PROVE  /\ Losses \in Nat /\ crashes \in Nat /\ freezes \in Nat
           /\ jobs \in [Ids -> Rows] /\ settlements \in [Ids -> Seq(Settlement)]
           /\ \A i \in Ids : /\ Len(settlements[i]) \in Nat
                             /\ Ongoing(i) \in {0, 1}
                             /\ jobs[i] \in Rows /\ jobs[i].age \in Nat
                             /\ jobs[i].attempts \in Nat
                             /\ jobs[i].maxAttempts \in Nat
                             /\ jobs[i].status \in Unfinished \/
                                jobs[i].status \in Finished
                             /\ ~(jobs[i].status \in Unfinished /\
                                  jobs[i].status \in Finished)
           /\ \A r \in runs : /\ r \in Runs /\ r.id \in Ids
                              /\ r.attempt \in Nat /\ r.attempt >= 1
                              /\ r.worker \in Workers
                              /\ QueueOf[r.worker] \in Names
<1>1. /\ jobs \in [Ids -> Rows] /\ settlements \in [Ids -> Seq(Settlement)]
      /\ crashes \in Nat /\ freezes \in Nat
      /\ \A r \in runs : r \in Runs /\ r.id \in Ids
  BY BoundsAssumption DEF TypeOK
<1>2. ASSUME NEW i \in Ids
      PROVE  /\ Len(settlements[i]) \in Nat /\ jobs[i] \in Rows
             /\ jobs[i].age \in Nat /\ jobs[i].attempts \in Nat
             /\ jobs[i].maxAttempts \in Nat /\ jobs[i].status \in Statuses
  <2>1. jobs[i] \in Rows /\ settlements[i] \in Seq(Settlement)
    BY <1>1
  <2>2. /\ jobs[i].age \in Nat /\ jobs[i].status \in Statuses
        /\ jobs[i].attempts \in Attempts /\ jobs[i].maxAttempts \in AttemptLimits
    BY <2>1, RowFields
  <2>3. Attempts \subseteq Nat /\ AttemptLimits \subseteq Nat
    BY SetsAssumption, BoundsAssumption DEF Attempts
  <2>4. jobs[i].attempts \in Nat /\ jobs[i].maxAttempts \in Nat
    BY <2>2, <2>3
  <2>5. Len(settlements[i]) \in Nat
    BY <2>1
  <2> QED BY <2>1, <2>2, <2>4, <2>5
<1>3. \A i \in Ids : Ongoing(i) \in {0, 1}
  BY DEF Ongoing
<1>4. \A r \in runs : /\ r.attempt \in Nat /\ r.attempt >= 1
                      /\ r.worker \in Workers /\ QueueOf[r.worker] \in Names
  BY <1>1, OptionsAssumption DEF Runs
<1>5. Losses \in Nat
  BY <1>1 DEF Losses
<1> QED BY <1>1, <1>2, <1>3, <1>4, <1>5 DEF Statuses, Unfinished, Finished

(* A row that goes on as it was stays accounted for, unless a fresh run of  *)
(* it stops being fresh without a loss being counted.                       *)
LEMMA StaysAccounted ==
    ASSUME TypeOK, TypeOK', NEW i \in Ids, i \in Ids', Accounted(i),
           jobs'[i].attempts = jobs[i].attempts,
           jobs'[i].maxAttempts = jobs[i].maxAttempts,
           settlements'[i] = settlements[i],
           jobs'[i].status \in Unfinished <=> jobs[i].status \in Unfinished,
           \/ Losses' >= Losses + 1
           \/ /\ Losses' = Losses
              /\ \A r \in runs : r.id = i /\ Fresh(r) => r \in runs' /\ Fresh(r)'
    PROVE  Accounted(i)'
<1>1. /\ Losses \in Nat /\ Losses' \in Nat /\ Len(settlements[i]) \in Nat
      /\ jobs[i].attempts \in Nat /\ jobs[i].maxAttempts \in Nat
      /\ Ongoing(i) \in {0, 1} /\ Ongoing(i)' \in {0, 1}
  <2>1. crashes' \in Nat /\ freezes' \in Nat
    BY BoundsAssumption DEF TypeOK
  <2>2. Losses' \in Nat
    BY <2>1 DEF Losses
  <2>3. Ongoing(i)' \in {0, 1}
    BY DEF Ongoing
  <2> QED BY <2>2, <2>3, Counters
<1>2. Losses + Ongoing(i) <= Losses' + Ongoing(i)'
  <2>1. CASE Losses' >= Losses + 1
    BY <1>1, <2>1
  <2>2. CASE /\ Losses' = Losses
             /\ \A r \in runs : r.id = i /\ Fresh(r) => r \in runs' /\ Fresh(r)'
    <3>1. Ongoing(i)' >= Ongoing(i)
      BY <2>2 DEF Ongoing
    <3> QED BY <1>1, <2>2, <3>1
  <2> QED BY <2>1, <2>2
<1>3. Losses <= Losses'
  BY <1>1
<1>4. /\ jobs[i].status \in Finished <=> jobs[i].status \notin Unfinished
      /\ jobs'[i].status \in Finished <=> jobs'[i].status \notin Unfinished
  <2>1. jobs'[i] \in Rows
    BY DEF TypeOK
  <2> QED BY <2>1, Counters, RowFields DEF Statuses, Finished, Unfinished
<1>5. CASE jobs[i].status \in Unfinished
  <2>1. jobs[i].attempts <= Len(settlements[i]) + Losses + Ongoing(i)
    BY <1>5 DEF Accounted
  <2>2. jobs[i].attempts <= Len(settlements[i]) + Losses' + Ongoing(i)'
    BY <1>1, <1>2, <2>1
  <2> QED BY <1>4, <1>5, <2>2 DEF Accounted
<1>6. CASE jobs[i].status \notin Unfinished
  <2>1. jobs[i].attempts <= jobs[i].maxAttempts + Losses
    BY <1>4, <1>6 DEF Accounted
  <2>2. jobs[i].attempts <= jobs[i].maxAttempts + Losses'
    BY <1>1, <1>3, <2>1
  <2> QED BY <1>4, <1>6, <2>2 DEF Accounted
<1> QED BY <1>5, <1>6

LEMMA QuietAccounted ==
    ASSUME AInv, TypeOK', UNCHANGED <<jobs, lastId, settlements>>,
           \/ Losses' >= Losses + 1
           \/ /\ Losses' = Losses /\ runs \subseteq runs' /\ frozen' \subseteq frozen
              /\ \A r \in runs : mode[r.worker] # "down" => mode'[r.worker] # "down"
    PROVE  ReportsNumbered' /\ \A i \in Ids' : Accounted(i)'
<1>1. Ids' = Ids /\ TypeOK
  BY DEF Ids, AInv, FInv, IInv
<1>2. ASSUME NEW i \in Ids
      PROVE  Accounted(i)'
  <2>1. \/ Losses' >= Losses + 1
        \/ /\ Losses' = Losses
           /\ \A r \in runs : r.id = i /\ Fresh(r) => r \in runs' /\ Fresh(r)'
    BY DEF Fresh, Holds
  <2> QED BY <1>1, <2>1, StaysAccounted DEF AInv
<1> QED BY <1>1, <1>2 DEF AInv, ReportsNumbered

LEMMA InsertAccounted ==
    ASSUME AInv, TypeOK', NEW n, NEW k, NEW priority, NEW delay, NEW limit,
           InsertJob(n, k, priority, delay, limit)
    PROVE  ReportsNumbered' /\ \A i \in Ids' : Accounted(i)'
<1> PICK new : new = lastId + 1
  OBVIOUS
<1>1. /\ Ids' = Ids \cup {new} /\ new \notin Ids /\ TypeOK
      /\ UNCHANGED <<runs, mode, frozen, crashes, freezes>>
      /\ \A i \in Ids : jobs'[i] = jobs[i] /\ settlements'[i] = settlements[i]
      /\ jobs'[new].status = "pending" /\ jobs'[new].attempts = 0
      /\ settlements'[new] = << >>
  <2>1. Ids' = Ids \cup {new} /\ new \notin Ids /\ TypeOK
    BY DEF InsertJob, AInv, FInv, IInv, TypeOK, Ids
  <2> QED BY <2>1 DEF InsertJob, budgets
<1>2. ASSUME NEW i \in Ids
      PROVE  Accounted(i)'
  <2>1. \A r \in runs : r.id = i /\ Fresh(r) => r \in runs' /\ Fresh(r)'
    BY <1>1 DEF Fresh, Holds
  <2>2. Losses' = Losses
    BY <1>1 DEF Losses
  <2> QED BY <1>1, <2>1, <2>2, StaysAccounted DEF AInv
<1>3. Accounted(new)'
  <2>1. Losses' \in Nat /\ Ongoing(new)' \in {0, 1}
    BY <1>1, Counters DEF Losses, Ongoing
  <2> QED BY <1>1, <2>1 DEF Accounted, Unfinished, Finished
<1> QED BY <1>1, <1>2, <1>3 DEF AInv, ReportsNumbered

LEMMA ClaimAccounted ==
    ASSUME AInv, TypeOK', NEW w \in Workers, Claim(w)
    PROVE  ReportsNumbered' /\ \A i \in Ids' : Accounted(i)'
<1>1. PICK i \in Due(QueueOf[w]) :
         /\ jobs' = [jobs EXCEPT ![i] = [@ EXCEPT !.status = "active",
                                    !.attempts = jobs[i].attempts + 1,
                                    !.age = 0]]
         /\ runs' = runs \cup {[worker |-> w, id |-> i,
                                attempt |-> jobs[i].attempts + 1]}
  BY DEF Claim, Claimable
<1> PICK new : new = [worker |-> w, id |-> i, attempt |-> jobs[i].attempts + 1]
  OBVIOUS
<1>2. /\ i \in Ids /\ jobs[i] \in Rows /\ jobs \in [Ids -> Rows] /\ TypeOK
      /\ jobs[i].status = "pending" /\ jobs[i].queue = QueueOf[w]
      /\ UNCHANGED <<mode, frozen, crashes, freezes, settlements>> /\ Ids' = Ids
      /\ mode[w] = "running" /\ w \notin frozen /\ Losses' = Losses
      /\ new \in runs' /\ runs \subseteq runs'
  BY <1>1, Shape DEF Due, Claim, Up, Ids, budgets, Losses, AInv, FInv, IInv
<1>3. jobs'[i] = [jobs[i] EXCEPT !.status = "active",
                                 !.attempts = jobs[i].attempts + 1, !.age = 0]
  BY <1>1, <1>2
<1>4. /\ jobs'[i].attempts = jobs[i].attempts + 1 /\ jobs'[i].age = 0
      /\ jobs'[i].status = "active" /\ jobs'[i].queue = jobs[i].queue
      /\ \A j \in Ids : j # i => jobs'[j] = jobs[j]
  BY <1>1, <1>2, <1>3 DEF Rows
<1>5. ASSUME NEW j \in Ids, j # i
      PROVE  Accounted(j)'
  <2>1. \A r \in runs : r.id = j /\ Fresh(r) => r \in runs' /\ Fresh(r)'
    BY <1>2, <1>4, <1>5 DEF Fresh, Holds
  <2> QED BY <1>2, <1>4, <1>5, <2>1, StaysAccounted DEF AInv
<1>6. Accounted(i)'
  <2>1. LeaseInterval(QueueOf[w]) \in Nat
    BY OptionsAssumption DEF LeaseInterval
  <2>2. Fresh(new)'
    BY <1>2, <1>4, <2>1 DEF Fresh, Holds
  <2>3. Ongoing(i)' = 1
    BY <1>2, <2>2 DEF Ongoing
  <2>4. Ongoing(i) = 0
    BY <1>2 DEF Ongoing, Fresh, Holds
  <2>5. jobs[i].attempts <= Len(settlements[i]) + Losses
    BY <1>2, <2>4, Counters DEF AInv, Accounted, Unfinished
  <2>6. jobs[i].attempts + 1 <= Len(settlements[i]) + Losses + 1
    BY <1>2, <2>5, Counters
  <2> QED BY <1>2, <1>4, <2>3, <2>6 DEF Accounted, Finished
<1> QED BY <1>2, <1>5, <1>6 DEF AInv, ReportsNumbered

(* The write that is accepted turns the ongoing attempt into a report; by   *)
(* then the reports are fewer than the limit, so a row that it finishes is  *)
(* within the limit but for the losses.                                     *)
LEMMA AcceptedAccounted ==
    ASSUME AInv, TypeOK', NEW r \in runs, Fence(r),
           NEW o \in Outcomes, Record(r, o),
           lastId' = lastId, runs' = runs \ {r},
           UNCHANGED <<mode, frozen, crashes, freezes>>,
           \A i \in Ids \ {r.id} : jobs'[i] = jobs[i],
           jobs'[r.id].attempts = jobs[r.id].attempts,
           jobs'[r.id].maxAttempts = jobs[r.id].maxAttempts,
           jobs[r.id].maxAttempts > 0
    PROVE  ReportsNumbered' /\ \A i \in Ids' : Accounted(i)'
<1> PICK i : i = r.id
  OBVIOUS
<1> PICK h : h = settlements[i]
  OBVIOUS
<1> PICK x : x = [outcome |-> o, attempt |-> r.attempt]
  OBVIOUS
<1>1. /\ TypeOK /\ i \in Ids /\ Ids' = Ids /\ Losses' = Losses
      /\ h \in Seq(Settlement) /\ x \in Settlement /\ x.attempt = r.attempt
      /\ settlements \in [Ids -> Seq(Settlement)]
  <2>1. TypeOK /\ r \in Runs /\ i \in Ids /\ h \in Seq(Settlement)
    BY DEF AInv, FInv, IInv, TypeOK
  <2> QED BY <2>1 DEF Runs, Settlement, Ids, Losses, TypeOK
<1>2. /\ Losses \in Nat /\ Len(h) \in Nat /\ Ongoing(i) \in {0, 1}
      /\ jobs[i].attempts \in Nat /\ jobs[i].maxAttempts \in Nat
      /\ r.attempt \in Nat /\ r.attempt >= 1
  BY <1>1, Counters
<1>3. /\ settlements'[i] = Append(h, x)
      /\ \A j \in Ids : j # i => settlements'[j] = settlements[j]
  BY <1>1 DEF Record
<1>4. /\ jobs[i].attempts = r.attempt
      /\ jobs[i].status \in Unfinished
      /\ \A n \in DOMAIN h : h[n].attempt # r.attempt
  BY DEF Fence, AInv, FInv, IInv, FencingTokens, TokenOpen
<1>5. \A n \in DOMAIN h : /\ h[n].attempt \in Nat /\ h[n].attempt >= n
                         /\ h[n].attempt < r.attempt
                         /\ h[n].attempt < jobs[i].maxAttempts
  <2>1. \A n \in DOMAIN h : h[n].attempt \in Nat
    BY <1>1, ReportTypes
  <2>2. \A n \in DOMAIN h : h[n].attempt <= r.attempt
    BY <1>1, <1>4 DEF AInv, FInv, IInv, ReportsBehindRow
  <2>3. \A n \in DOMAIN h : h[n].attempt < jobs[i].maxAttempts
    BY <1>1, <1>4 DEF AInv, FInv, IInv, ReportsBehindRow
  <2>4. \A n \in DOMAIN h : h[n].attempt >= n
    BY <1>1 DEF AInv, ReportsNumbered
  <2> QED BY <1>2, <1>4, <2>1, <2>2, <2>3, <2>4
<1>6. Len(h) < r.attempt /\ Len(h) < jobs[i].maxAttempts
  <2>1. CASE Len(h) = 0
    BY <1>2, <2>1
  <2>2. CASE Len(h) > 0
    <3>1. Len(h) \in DOMAIN h
      BY <1>1, <2>2
    <3> QED BY <1>2, <1>5, <3>1
  <2> QED BY <1>2, <2>1, <2>2
<1>7. ReportsNumbered'
  <2>1. ASSUME NEW n \in DOMAIN settlements'[i]
        PROVE  settlements'[i][n].attempt >= n
    <3>1. CASE n \in DOMAIN h
      BY <1>1, <1>3, <1>5, <3>1, AppendReport
    <3>2. CASE n = Len(h) + 1
      BY <1>1, <1>2, <1>3, <1>6, <3>2, AppendReport
    <3> QED BY <1>1, <1>3, <3>1, <3>2, AppendReport
  <2> QED BY <1>1, <1>3, <2>1 DEF AInv, ReportsNumbered
<1>8. ASSUME NEW j \in Ids, j # i
      PROVE  Accounted(j)'
  <2>1. jobs'[j] = jobs[j]
    BY <1>8
  <2>2. \A s \in runs : s.id = j /\ Fresh(s) => s \in runs' /\ Fresh(s)'
    BY <1>8, <2>1 DEF Fresh, Holds
  <2> QED BY <1>1, <1>3, <1>8, <2>1, <2>2, StaysAccounted DEF AInv
<1>9. Accounted(i)'
  <2>1. jobs[i].attempts <= Len(h) + Losses + Ongoing(i)
    BY <1>1, <1>4 DEF AInv, Accounted
  <2>2. jobs[i].attempts <= Len(h) + 1 + Losses
    BY <1>2, <2>1
  <2>3. jobs[i].attempts <= jobs[i].maxAttempts + Losses
    BY <1>2, <1>6, <2>2
  <2>4. Len(settlements'[i]) = Len(h) + 1
    BY <1>1, <1>3, AppendReport
  <2>5. jobs[i].attempts <= Len(settlements'[i]) + Losses' + Ongoing(i)'
    <3>1. Ongoing(i)' \in {0, 1}
      BY DEF Ongoing
    <3> QED BY <1>1, <1>2, <2>2, <2>4, <3>1
  <2> QED BY <1>1, <2>3, <2>5 DEF Accounted
<1> QED BY <1>1, <1>7, <1>8, <1>9

LEMMA SettleAccounted ==
    ASSUME AInv, TypeOK', NEW r \in runs, Settle(r),
           \A m \in AttemptLimits : m > 0
    PROVE  ReportsNumbered' /\ \A i \in Ids' : Accounted(i)'
<1>1. /\ TypeOK /\ lastId' = lastId /\ Ids' = Ids /\ runs' = runs \ {r}
      /\ jobs \in [Ids -> Rows] /\ r.id \in Ids /\ jobs[r.id] \in Rows
      /\ UNCHANGED <<mode, frozen, crashes, freezes>> /\ Losses' = Losses
  BY DEF Settle, AInv, FInv, IInv, TypeOK, Ids, budgets, Losses
<1>2. CASE ~Fence(r)
  <2>1. UNCHANGED <<jobs, settlements>>
    BY <1>2 DEF Settle, CompleteInternal, FailInternal
  <2>2. ~Fresh(r)
    BY <1>2 DEF Fresh, Holds, Fence
  <2>3. ASSUME NEW i \in Ids
        PROVE  Accounted(i)'
    <3>1. \A s \in runs : s.id = i /\ Fresh(s) => s \in runs' /\ Fresh(s)'
      BY <1>1, <2>1, <2>2 DEF Fresh, Holds
    <3> QED BY <1>1, <2>1, <3>1, StaysAccounted DEF AInv
  <2> QED BY <1>1, <2>1, <2>3 DEF AInv, ReportsNumbered
<1>3. CASE Fence(r)
  <2>1. \E o \in Outcomes : Record(r, o)
    BY <1>3 DEF Settle, CompleteInternal, FailInternal, Outcomes
  <2>2. \A i \in Ids \ {r.id} : jobs'[i] = jobs[i]
    BY <1>1, <1>3 DEF Settle, CompleteInternal, FailInternal
  <2>3. jobs'[r.id].attempts = jobs[r.id].attempts
    <3>1. CASE CompleteInternal(r)
      <4> PICK end : end = IF RemoveOnComplete THEN "removed" ELSE "done"
        OBVIOUS
      <4>1. jobs'[r.id] = [jobs[r.id] EXCEPT !.status = end, !.age = 0]
        BY <1>1, <1>3, <3>1 DEF CompleteInternal
      <4> QED BY <1>1, <4>1 DEF Rows
    <3>2. CASE FailInternal(r)
      <4>1. \/ jobs'[r.id] = [jobs[r.id] EXCEPT !.status = "pending", !.age = 0,
                                                !.wait = Backoff[r.attempt]]
            \/ jobs'[r.id] = [jobs[r.id] EXCEPT !.status = "failed", !.age = 0]
        BY <1>1, <1>3, <3>2 DEF FailInternal
      <4> QED BY <1>1, <4>1 DEF Rows
    <3> QED BY <3>1, <3>2 DEF Settle
  <2>4. jobs'[r.id].maxAttempts = jobs[r.id].maxAttempts
    BY <1>1, SettleKeys DEF KeysKept, KeyKept
  <2>5. jobs[r.id].maxAttempts > 0
    BY <1>1, RowFields
  <2> QED BY <1>1, <1>3, <2>1, <2>2, <2>3, <2>4, <2>5, AcceptedAccounted
<1> QED BY <1>2, <1>3

(* A reclaimed row has outlived its timeout, so no run of it was fresh. *)
LEMMA RecoverAccounted ==
    ASSUME AInv, TypeOK', LongTimeouts, NEW older, NEW names,
           Recover(older, names),
           \/ \E n \in Names : /\ older = VisibilityTimeout[n] /\ names = {n}
                               /\ VisibilityTimeout[n] > 0
           \/ older \in ManualAges
    PROVE  ReportsNumbered' /\ \A i \in Ids' : Accounted(i)'
<1>1. /\ TypeOK /\ Ids' = Ids /\ Losses' = Losses
      /\ UNCHANGED <<runs, mode, frozen, settlements>>
  BY DEF Recover, AInv, FInv, IInv, Ids, budgets, Losses
<1>2. ASSUME NEW i \in Ids
      PROVE  Accounted(i)'
  <2>1. jobs[i] \in Rows /\ jobs[i].age \in Nat
    BY <1>1, Counters
  <2>2. CASE i \in Expired(older, names)
    <3>1. jobs'[i] = [jobs[i] EXCEPT !.status = "pending", !.age = 0]
      BY <2>2 DEF Recover, Reclaimed
    <3>2. /\ jobs'[i].attempts = jobs[i].attempts
          /\ jobs'[i].maxAttempts = jobs[i].maxAttempts
          /\ jobs'[i].status \in Unfinished /\ jobs[i].status \in Unfinished
      BY <2>1, <2>2, <3>1 DEF Rows, Expired, Unfinished
    <3>3. ASSUME NEW r \in runs, r.id = i, Fresh(r)
          PROVE  FALSE
      <4>1. /\ QueueOf[r.worker] \in Names /\ jobs[i].queue = QueueOf[r.worker]
            /\ jobs[i].queue \in names /\ jobs[i].age > older
        BY <1>1, <2>2, <3>3, Counters DEF Expired, Fresh
      <4>2. VisibilityTimeout[QueueOf[r.worker]] > 0 =>
              jobs[i].age <= LeaseInterval(QueueOf[r.worker])
        BY <3>3 DEF Fresh
      <4>3. /\ VisibilityTimeout[QueueOf[r.worker]] > 0
            /\ older \in Nat /\ LeaseInterval(QueueOf[r.worker]) \in Nat
            /\ LeaseInterval(QueueOf[r.worker]) <= older
        BY <4>1, Intervals
      <4> QED BY <2>1, <4>1, <4>2, <4>3
    <3> QED BY <1>1, <3>2, <3>3, StaysAccounted DEF AInv
  <2>3. CASE i \notin Expired(older, names)
    <3>1. jobs'[i] = jobs[i]
      BY <2>3 DEF Recover
    <3>2. \A r \in runs : r.id = i /\ Fresh(r) => r \in runs' /\ Fresh(r)'
      BY <1>1, <3>1 DEF Fresh, Holds
    <3> QED BY <1>1, <3>1, <3>2, StaysAccounted DEF AInv
  <2> QED BY <2>2, <2>3
<1> QED BY <1>1, <1>2 DEF AInv, ReportsNumbered

LEMMA HeartbeatAccounted ==
    ASSUME AInv, TypeOK', NEW s \in runs, HeartbeatInternal(s)
    PROVE  ReportsNumbered' /\ \A i \in Ids' : Accounted(i)'
<1>1. /\ TypeOK /\ Ids' = Ids /\ Losses' = Losses
      /\ UNCHANGED <<runs, mode, frozen, settlements>>
      /\ jobs \in [Ids -> Rows] /\ s.id \in Ids /\ jobs[s.id] \in Rows
  BY Shape DEF HeartbeatInternal, AInv, FInv, IInv, Ids, budgets, Losses
<1>2. ASSUME NEW i \in Ids
      PROVE  Accounted(i)'
  <2>1. /\ jobs'[i].attempts = jobs[i].attempts
        /\ jobs'[i].maxAttempts = jobs[i].maxAttempts
        /\ jobs'[i].status = jobs[i].status
        /\ jobs'[i].queue = jobs[i].queue
        /\ jobs'[i].age = jobs[i].age \/ jobs'[i].age = 0
    <3>1. jobs'[i] = jobs[i] \/ jobs'[i] = [jobs[i] EXCEPT !.age = 0]
      BY <1>1 DEF HeartbeatInternal
    <3> QED BY <1>1, <3>1, Counters DEF Rows
  <2>2. ASSUME NEW r \in runs, r.id = i, Fresh(r)
        PROVE  Fresh(r)'
    <3>1. LeaseInterval(QueueOf[r.worker]) \in Nat
      BY <1>1, Counters, OptionsAssumption DEF LeaseInterval
    <3> QED BY <1>1, <2>1, <2>2, <3>1 DEF Fresh, Holds
  <2> QED BY <1>1, <2>1, <2>2, StaysAccounted DEF AInv
<1> QED BY <1>1, <1>2 DEF AInv, ReportsNumbered

(* Time waits for the beats that are due, so a fresh run stays fresh. *)
LEMMA TickAccounted ==
    ASSUME AInv, TypeOK', Tick
    PROVE  ReportsNumbered' /\ \A i \in Ids' : Accounted(i)'
<1>1. /\ TypeOK /\ Ids' = Ids /\ Losses' = Losses
      /\ UNCHANGED <<runs, mode, frozen, settlements>>
  BY DEF Tick, AInv, FInv, IInv, Ids, budgets, Losses
<1>2. ASSUME NEW i \in Ids
      PROVE  Accounted(i)'
  <2> PICK wait : wait = IF jobs[i].wait > 0 THEN jobs[i].wait - 1 ELSE 0
    OBVIOUS
  <2> PICK age : age = IF jobs[i].status = "active" /\ jobs[i].age < AgeCap
                       THEN jobs[i].age + 1 ELSE jobs[i].age
    OBVIOUS
  <2>1. /\ jobs'[i].attempts = jobs[i].attempts
        /\ jobs'[i].maxAttempts = jobs[i].maxAttempts
        /\ jobs'[i].status = jobs[i].status
        /\ jobs'[i].queue = jobs[i].queue
        /\ jobs'[i].age = age
    <3>1. jobs'[i] = [jobs[i] EXCEPT !.wait = wait, !.age = age]
      BY DEF Tick
    <3> QED BY <1>1, <3>1, Counters DEF Rows
  <2>2. ASSUME NEW r \in runs, r.id = i, Fresh(r)
        PROVE  Fresh(r)'
    <3>1. /\ QueueOf[r.worker] \in Names /\ LeaseInterval(QueueOf[r.worker]) \in Nat
          /\ VisibilityTimeout[QueueOf[r.worker]] \in Nat /\ jobs[i].age \in Nat
      BY <1>1, Counters, OptionsAssumption DEF LeaseInterval
    <3>2. ASSUME VisibilityTimeout[QueueOf[r.worker]] > 0
          PROVE  age <= LeaseInterval(QueueOf[r.worker])
      <4>1. ~(jobs[i].age >= LeaseInterval(QueueOf[r.worker]))
        BY <2>2, <3>2 DEF Tick, HeartbeatDue, Fresh, Up
      <4>2. age = jobs[i].age \/ age = jobs[i].age + 1
        OBVIOUS
      <4> QED BY <3>1, <4>1, <4>2
    <3> QED BY <1>1, <2>1, <2>2, <3>2 DEF Fresh, Holds
  <2> QED BY <1>1, <2>1, <2>2, StaysAccounted DEF AInv
<1> QED BY <1>1, <1>2 DEF AInv, ReportsNumbered

LEMMA NextAccounted ==
    ASSUME LongTimeouts, \A m \in AttemptLimits : m > 0, AInv, [Next]_vars
    PROVE  AInv'
<1> DEFINE Goal == ReportsNumbered' /\ \A i \in Ids' : Accounted(i)'
<1> SUFFICES Goal
  BY NextFinal DEF AInv
<1>0. TypeOK /\ TypeOK' /\ crashes \in Nat /\ freezes \in Nat
  BY NextType, BoundsAssumption DEF AInv, FInv, IInv, TypeOK
<1>1. ASSUME NEW p \in Producers, NEW n \in Names, NEW k \in JobKeys,
             AddLookup(p, n, k)
      PROVE  Goal
  BY <1>0, <1>1, QuietAccounted DEF AddLookup, table, budgets, Losses
<1>2. ASSUME NEW p \in Producers, AddKeyed(p)
      PROVE  Goal
  BY <1>0, <1>2, InsertAccounted DEF AddKeyed
<1>3. ASSUME NEW n \in Names, AddPlain(n)
      PROVE  Goal
  BY <1>0, <1>3, InsertAccounted DEF AddPlain
<1>4. ASSUME NEW w \in Workers, Claim(w)
      PROVE  Goal
  BY <1>0, <1>4, ClaimAccounted
<1>5. ASSUME NEW w \in Workers, Reap(w)
      PROVE  Goal
  <2>1. QueueOf[w] \in Names
    BY OptionsAssumption
  <2> QED BY <1>0, <1>5, <2>1, RecoverAccounted DEF Reap
<1>6. ASSUME NEW w \in Workers, Process(w) \/ Stop(w)
      PROVE  Goal
  <2>1. mode \in [Workers -> {"down", "running", "stopped"}]
    BY <1>0 DEF TypeOK
  <2>2. \A r \in runs : mode[r.worker] # "down" => mode'[r.worker] # "down"
    BY <1>0, <1>6, <2>1, Counters DEF Process, Stop
  <2> QED BY <1>0, <1>6, <2>2, QuietAccounted
          DEF Process, Stop, table, budgets, Losses
<1>7. ASSUME NEW w \in Workers, Crash(w) \/ Freeze(w)
      PROVE  Goal
  <2>1. Losses' >= Losses + 1
    BY <1>0, <1>7 DEF Crash, Freeze, Losses
  <2> QED BY <1>0, <1>7, <2>1, QuietAccounted DEF Crash, Freeze, table
<1>8. ASSUME NEW w \in Workers, Thaw(w)
      PROVE  Goal
  BY <1>0, <1>8, QuietAccounted DEF Thaw, table, budgets, Losses
<1>9. ASSUME NEW r \in runs, Settle(r)
      PROVE  Goal
  BY <1>0, <1>9, SettleAccounted
<1>10. ASSUME NEW r \in runs, SettleThrows(r)
       PROVE  Goal
  <2>1. Losses' >= Losses + 1
    BY <1>0, <1>10 DEF SettleThrows, Losses
  <2> QED BY <1>0, <1>10, <2>1, QuietAccounted DEF SettleThrows, table
<1>11. ASSUME NEW r \in runs, HeartbeatInternal(r)
       PROVE  Goal
  BY <1>0, <1>11, HeartbeatAccounted
<1>12. CASE RecoverAll
  BY <1>0, <1>12, RecoverAccounted DEF RecoverAll
<1>13. CASE Tick
  BY <1>0, <1>13, TickAccounted
<1>14. CASE UNCHANGED vars
  BY <1>0, <1>14, QuietAccounted DEF vars, Losses
<1> QED BY <1>1, <1>2, <1>3, <1>4, <1>5, <1>6, <1>7, <1>8, <1>9, <1>10, <1>11,
           <1>12, <1>13, <1>14 DEF Next

(* Why the reports and the losses bound the attempts of an unfinished row:  *)
(* every report was about a different attempt below the limit.              *)
LEMMA WithinLimit ==
    ASSUME AInv, \A m \in AttemptLimits : m > 0
    PROVE  OnlyLossesExceedLimit
<1> SUFFICES ASSUME NEW i \in Ids
             PROVE  jobs[i].attempts <= jobs[i].maxAttempts + crashes + freezes
  BY DEF OnlyLossesExceedLimit
<1> PICK h : h = settlements[i]
  OBVIOUS
<1>1. /\ TypeOK /\ crashes \in Nat /\ freezes \in Nat /\ Losses \in Nat
      /\ jobs[i].attempts \in Nat /\ jobs[i].maxAttempts \in Nat
      /\ jobs[i].maxAttempts > 0 /\ h \in Seq(Settlement) /\ Len(h) \in Nat
      /\ Ongoing(i) \in {0, 1}
      /\ jobs[i].status \in Unfinished \/ jobs[i].status \in Finished
  <2>1. TypeOK
    BY DEF AInv, FInv, IInv
  <2>2. jobs[i].maxAttempts > 0
    BY <2>1, Counters, RowFields
  <2> QED BY <2>1, <2>2, Counters
<1>2. CASE jobs[i].status \in Unfinished
  <2>1. jobs[i].attempts <= Len(h) + Losses + 1
    BY <1>1, <1>2 DEF AInv, Accounted
  <2>2. Len(h) < jobs[i].maxAttempts
    <3>1. CASE Len(h) > 0
      <4>1. Len(h) \in DOMAIN h
        BY <1>1, <3>1
      <4>2. /\ h[Len(h)].attempt \in Nat /\ h[Len(h)].attempt >= Len(h)
            /\ h[Len(h)].attempt < jobs[i].maxAttempts
        BY <1>1, <1>2, <4>1, ReportTypes
           DEF AInv, FInv, IInv, ReportsNumbered, ReportsBehindRow
      <4> QED BY <1>1, <4>2
    <3> QED BY <1>1, <3>1
  <2> QED BY <1>1, <2>1, <2>2, SMTT(40) DEF Losses
<1>3. CASE jobs[i].status \in Finished
  <2>1. jobs[i].attempts <= jobs[i].maxAttempts + Losses
    BY <1>3 DEF AInv, Accounted
  <2> QED BY <1>1, <2>1 DEF Losses
<1> QED BY <1>1, <1>2, <1>3

(* With timeouts that the heartbeats can keep up with and limits of at      *)
(* least one attempt, a job is attempted more often than its limit only     *)
(* once for each crash, failed final write or stall, however many workers   *)
(* and reapers share its queue.                                             *)
THEOREM OnlyLossesExceed ==
    LongTimeouts /\ (\A m \in AttemptLimits : m > 0)
        => (Spec => []OnlyLossesExceedLimit)
<1> SUFFICES ASSUME LongTimeouts, \A m \in AttemptLimits : m > 0
             PROVE  Spec => []OnlyLossesExceedLimit
  OBVIOUS
<1>1. Init => AInv
  <2> SUFFICES ASSUME Init PROVE AInv
    OBVIOUS
  <2>1. FInv /\ Ids = {}
    BY InitRows DEF Init, Ids
  <2> QED BY <2>1 DEF AInv, ReportsNumbered
<1>2. AInv /\ [Next]_vars => AInv'
  BY NextAccounted
<1>3. AInv => OnlyLossesExceedLimit
  BY WithinLimit
<1> QED BY <1>1, <1>2, <1>3, PTL DEF Spec

-----------------------------------------------------------------------------
(* The loops of one worker, in the behaviours of MCWorkers.                 *)
-----------------------------------------------------------------------------
(* A set of naturals with a member has a least one. *)
LEMMA HasLeast ==
    ASSUME NEW S, S \subseteq Nat, S # {}
    PROVE  L!Least(S) \in S /\ \A x \in S : L!Least(S) <= x
<1>1. PICK m \in S : \A x \in S : ~(<<x, m>> \in OpToRel(<, Nat))
  BY NatLessThanWellFounded, WFMin
<1>2. \A x \in S : ~(x < m)
  BY <1>1 DEF OpToRel
<1>3. \A x \in S : m <= x
  BY <1>2
<1> QED
  BY <1>3 DEF L!Least

LEMMA LeastOfThree ==
    ASSUME NEW a \in Nat, NEW b \in Nat, NEW c \in Nat
    PROVE  /\ L!Least({a, b, c}) \in Nat
           /\ L!Least({a, b, c}) <= a
           /\ L!Least({a, b, c}) <= b
           /\ L!Least({a, b, c}) <= c
BY HasLeast, {a, b, c} \subseteq Nat

LEMMA LeastOfTwo ==
    ASSUME NEW a \in Nat, NEW b \in Nat
    PROVE  L!Least({a, b}) = IF a <= b THEN a ELSE b
<1>1. /\ L!Least({a, b}) \in {a, b}
      /\ L!Least({a, b}) <= a
      /\ L!Least({a, b}) <= b
  BY HasLeast, {a, b} \subseteq Nat
<1> QED
  BY <1>1

(* Both loops are instances of one core. *)
LEMMA OneCore ==
    /\ \A s, w : P!Younger(s, w) = L!Younger(s, w)
    /\ \A S : P!Least(S) = L!Least(S)
<1>1. \A S : P!Least(S) = L!Least(S)
  BY DEF P!Least, L!Least
<1> QED
  BY <1>1 DEF P!Younger, L!Younger, P!Least, L!Least

-----------------------------------------------------------------------------
(* Oldest first. *)
Ordered(s) == \A i, j \in 1..Len(s) : i <= j => s[j] <= s[i]

(* The recorded starts s end in the recent starts r, and everything the     *)
(* limiter recorded before them has left a window of length w.              *)
Remembers(s, r, w) ==
    /\ s \in Seq(Nat) /\ r \in Seq(Nat)
    /\ Len(r) <= Len(s)
    /\ Ordered(s)
    /\ \A i \in 1..Len(r) : r[i] = s[i + (Len(s) - Len(r))] /\ r[i] < w
    /\ \A i \in 1..(Len(s) - Len(r)) : w <= s[i]

(* The limiter's own cut of what it recorded is the true window. *)
LEMMA WindowIsRecent ==
    ASSUME NEW s, NEW r, NEW w \in Nat, Remembers(s, r, w)
    PROVE  L!Younger(s, w) = r
<1> DEFINE d == Len(s) - Len(r)
           kept == {i \in DOMAIN s : s[i] < w}
<1>1. /\ s \in Seq(Nat) /\ r \in Seq(Nat) /\ Len(s) \in Nat /\ Len(r) \in Nat
      /\ Len(r) <= Len(s) /\ DOMAIN s = 1..Len(s)
      /\ d \in Nat /\ d = Len(s) - Len(r)
      /\ \A i \in 1..Len(s) : s[i] \in Nat
  BY LenProperties, ElementOfSeq DEF Remembers
<1>2. kept = (d + 1)..Len(s)
  <2>1. \A i \in 1..Len(s) : i > d => s[i] < w
    <3>1. SUFFICES ASSUME NEW i \in 1..Len(s), i > d
                   PROVE  s[i] < w
      OBVIOUS
    <3>2. i - d \in 1..Len(r)
      BY <1>1, <3>1
    <3>3. r[i - d] = s[(i - d) + d] /\ r[i - d] < w
      BY <3>2 DEF Remembers
    <3>4. (i - d) + d = i
      BY <1>1
    <3> QED
      BY <3>3, <3>4
  <2>2. \A i \in 1..Len(s) : i <= d => ~(s[i] < w)
    BY <1>1 DEF Remembers
  <2> QED
    BY <1>1, <2>1, <2>2
<1>3. L!Younger(s, w) = IF kept = {} THEN << >>
                        ELSE SubSeq(s, L!Least(kept), Len(s))
  BY DEF L!Younger
<1>4. \A i \in 1..Len(r) : r[i] = s[i + d]
  BY DEF Remembers
<1> HIDE DEF d, kept
<1>5. CASE Len(r) = 0
  <2>1. kept = {}
    BY <1>1, <1>2, <1>5
  <2>2. r = << >>
    BY <1>1, <1>5, EmptySeq
  <2> QED
    BY <2>1, <2>2, <1>3
<1>6. CASE Len(r) # 0
  <2>1. d + 1 \in kept /\ kept \subseteq Nat
    BY <1>1, <1>2, <1>6
  <2>2. L!Least(kept) = d + 1
    <3>1. L!Least(kept) \in kept /\ L!Least(kept) <= d + 1
      BY <2>1, HasLeast
    <3> QED
      BY <3>1, <1>1, <1>2
  <2>3. L!Younger(s, w) = SubSeq(s, d + 1, Len(s))
    BY <2>1, <2>2, <1>3
  <2>4. /\ SubSeq(s, d + 1, Len(s)) \in Seq(Nat)
        /\ Len(SubSeq(s, d + 1, Len(s))) = Len(r)
        /\ \A i \in 1..Len(r) :
              SubSeq(s, d + 1, Len(s))[i] = s[(d + 1) + i - 1]
    <3>1. \A i \in (d + 1)..Len(s) : s[i] \in Nat
      BY <1>1
    <3>2. d + 1 \in Int /\ Len(s) \in Int
      BY <1>1
    <3>3. Len(s) - (d + 1) + 1 = Len(r) /\ d + 1 <= Len(s)
      BY <1>1, <1>6
    <3> QED
      BY <3>1, <3>2, <3>3, SubSeqProperties
  <2>5. \A i \in 1..Len(r) : SubSeq(s, d + 1, Len(s))[i] = r[i]
    <3>1. \A i \in 1..Len(r) : (d + 1) + i - 1 = i + d
      BY <1>1
    <3> QED
      BY <2>4, <3>1, <1>4
  <2> QED
    BY <1>1, <2>3, <2>4, <2>5, SeqEqual
<1> QED
  BY <1>5, <1>6
(* Whatever the age a limiter cuts at, it keeps the younger starts. *)
LEMMA CutRemembers ==
    ASSUME NEW s \in Seq(Nat), NEW w \in Nat, Ordered(s)
    PROVE  Remembers(s, L!Younger(s, w), w)
<1> DEFINE kept == {i \in DOMAIN s : s[i] < w}
           r    == L!Younger(s, w)
<1>1. /\ Len(s) \in Nat /\ DOMAIN s = 1..Len(s)
      /\ \A i \in 1..Len(s) : s[i] \in Nat
  BY LenProperties, ElementOfSeq
<1>2. r = IF kept = {} THEN << >> ELSE SubSeq(s, L!Least(kept), Len(s))
  BY DEF L!Younger
<1>3. /\ kept \subseteq 1..Len(s) /\ kept \subseteq Nat
      /\ \A i \in 1..Len(s) : i \in kept <=> s[i] < w
  BY <1>1
<1> HIDE DEF kept, r
<1>4. CASE kept = {}
  <2>1. r = << >> /\ r \in Seq(Nat) /\ Len(r) = 0
    BY <1>2, <1>4, EmptySeq
  <2>2. \A i \in 1..Len(s) : w <= s[i]
    BY <1>1, <1>3, <1>4
  <2> QED
    BY <1>1, <2>1, <2>2 DEF Remembers, r
<1>5. CASE kept # {}
  <2> DEFINE l == L!Least(kept)
  <2>1. l \in kept /\ l \in 1..Len(s) /\ \A i \in kept : l <= i
    BY <1>3, <1>5, HasLeast
  <2> HIDE DEF l
  <2>2. r = SubSeq(s, l, Len(s))
    BY <1>2, <1>5 DEF l
  <2>3. /\ r \in Seq(Nat)
        /\ Len(r) = Len(s) - l + 1
        /\ \A i \in 1..Len(r) : r[i] = s[l + i - 1]
    <3>1. \A i \in l..Len(s) : s[i] \in Nat
      BY <1>1, <2>1
    <3>2. l \in Int /\ Len(s) \in Int /\ l <= Len(s)
      BY <1>1, <2>1
    <3> QED
      BY <2>2, <3>1, <3>2, SubSeqProperties
  <2>4. \A i \in l..Len(s) : s[i] < w
    <3>1. s[l] < w
      BY <1>3, <2>1
    <3>2. \A i \in l..Len(s) : s[i] <= s[l] /\ s[i] \in Nat
      BY <1>1, <2>1 DEF Ordered
    <3> QED
      BY <1>1, <2>1, <3>1, <3>2
  <2>5. \A i \in 1..(l - 1) : w <= s[i]
    <3>1. SUFFICES ASSUME NEW i \in 1..(l - 1) PROVE w <= s[i]
      OBVIOUS
    <3>2. i \in 1..Len(s) /\ ~(l <= i)
      BY <1>1, <2>1
    <3>3. ~(s[i] < w)
      BY <1>3, <2>1, <3>2
    <3> QED
      BY <1>1, <3>2, <3>3
  <2>6. Len(s) - Len(r) = l - 1 /\ Len(r) <= Len(s)
    BY <1>1, <2>1, <2>3
  <2>7. \A i \in 1..Len(r) : r[i] = s[i + (Len(s) - Len(r))] /\ r[i] < w
    <3>1. SUFFICES ASSUME NEW i \in 1..Len(r)
                   PROVE  r[i] = s[i + (l - 1)] /\ r[i] < w
      BY <2>6
    <3>2. l + i - 1 = i + (l - 1) /\ l + i - 1 \in l..Len(s)
      BY <1>1, <2>1, <2>3
    <3> QED
      BY <2>3, <2>4, <3>2
  <2> QED
    BY <2>3, <2>5, <2>6, <2>7 DEF Remembers, r
<1> QED
  BY <1>4, <1>5

(* The window is remembered by itself: cutting it again changes nothing. *)
LEMMA WindowRemembersItself ==
    ASSUME NEW s, NEW r, NEW w \in Nat, Remembers(s, r, w)
    PROVE  Remembers(r, r, w)
<1>1. /\ Len(s) \in Nat /\ Len(r) \in Nat /\ Len(r) <= Len(s)
      /\ r \in Seq(Nat)
  BY LenProperties DEF Remembers
<1>2. Ordered(r)
  <2>1. SUFFICES ASSUME NEW i \in 1..Len(r), NEW j \in 1..Len(r), i <= j
                 PROVE  r[j] <= r[i]
    BY DEF Ordered
  <2> DEFINE d == Len(s) - Len(r)
  <2>2. i + d \in 1..Len(s) /\ j + d \in 1..Len(s) /\ i + d <= j + d
    BY <1>1, <2>1
  <2>3. s[j + d] <= s[i + d]
    BY <2>2 DEF Remembers, Ordered
  <2> QED
    BY <2>3 DEF Remembers
<1>3. Len(r) - Len(r) = 0 /\ \A i \in 1..Len(r) : i + (Len(r) - Len(r)) = i
  BY <1>1
<1>4. \A i \in 1..Len(r) : r[i] < w
  BY DEF Remembers
<1> QED
  BY <1>1, <1>2, <1>3, <1>4 DEF Remembers

(* New starts are the youngest of both lists. *)
LEMMA StartsAreRemembered ==
    ASSUME NEW s, NEW r, NEW w \in Nat \ {0}, NEW n \in Nat, Remembers(s, r, w)
    PROVE  /\ Remembers(s \o L!Zeros(n), r \o L!Zeros(n), w)
           /\ Len(r \o L!Zeros(n)) = Len(r) + n
<1> DEFINE z == L!Zeros(n)
           d == Len(s) - Len(r)
           S == s \o z
           R == r \o z
<1>1. /\ s \in Seq(Nat) /\ r \in Seq(Nat) /\ Len(s) \in Nat /\ Len(r) \in Nat
      /\ Len(r) <= Len(s) /\ d \in Nat /\ d = Len(s) - Len(r)
      /\ \A i \in 1..Len(s) : s[i] \in Nat
  BY LenProperties, ElementOfSeq DEF Remembers
<1>2. z \in Seq(Nat) /\ Len(z) = n /\ \A i \in 1..n : z[i] = 0
  BY DEF L!Zeros
<1>3. /\ Ordered(s)
      /\ \A i \in 1..Len(r) : r[i] = s[i + d] /\ r[i] < w
      /\ \A i \in 1..d : w <= s[i]
  BY DEF Remembers
<1> HIDE DEF z, d
<1>4. /\ S \in Seq(Nat) /\ Len(S) = Len(s) + n
      /\ \A i \in 1..(Len(s) + n) :
            S[i] = IF i <= Len(s) THEN s[i] ELSE z[i - Len(s)]
  BY <1>1, <1>2, ConcatProperties
<1>5. /\ R \in Seq(Nat) /\ Len(R) = Len(r) + n
      /\ \A i \in 1..(Len(r) + n) :
            R[i] = IF i <= Len(r) THEN r[i] ELSE z[i - Len(r)]
  BY <1>1, <1>2, ConcatProperties
<1> HIDE DEF S, R
<1>6. \A i \in 1..(Len(s) + n) : i > Len(s) => S[i] = 0
  <2>1. \A i \in 1..(Len(s) + n) : i > Len(s) => i - Len(s) \in 1..n
    BY <1>1
  <2> QED
    BY <1>1, <1>2, <1>4, <2>1
<1>7. \A i \in 1..(Len(r) + n) : i > Len(r) => R[i] = 0
  <2>1. \A i \in 1..(Len(r) + n) : i > Len(r) => i - Len(r) \in 1..n
    BY <1>1
  <2> QED
    BY <1>1, <1>2, <1>5, <2>1
<1>8. Ordered(S)
  <2>1. SUFFICES ASSUME NEW i \in 1..(Len(s) + n), NEW j \in 1..(Len(s) + n),
                        i <= j
                 PROVE  S[j] <= S[i]
    BY <1>4 DEF Ordered
  <2>2. CASE j <= Len(s)
    <3>1. i \in 1..Len(s) /\ j \in 1..Len(s)
      BY <1>1, <2>1, <2>2
    <3>2. S[i] = s[i] /\ S[j] = s[j]
      BY <1>1, <1>4, <3>1
    <3> QED
      BY <1>3, <2>1, <3>1, <3>2 DEF Ordered
  <2>3. CASE ~(j <= Len(s))
    <3>1. S[j] = 0
      BY <1>1, <1>6, <2>3
    <3>2. S[i] \in Nat
      BY <1>4, ElementOfSeq
    <3> QED
      BY <3>1, <3>2
  <2> QED
    BY <2>2, <2>3
<1>9. Len(S) - Len(R) = d /\ Len(R) <= Len(S)
  BY <1>1, <1>4, <1>5
<1>10. \A i \in 1..Len(R) : R[i] = S[i + d] /\ R[i] < w
  <2>1. SUFFICES ASSUME NEW i \in 1..(Len(r) + n)
                 PROVE  R[i] = S[i + d] /\ R[i] < w
    BY <1>5
  <2>2. i + d \in 1..(Len(s) + n) /\ (i <= Len(r) <=> i + d <= Len(s))
    BY <1>1, <2>1
  <2>3. CASE i <= Len(r)
    <3>1. i \in 1..Len(r) /\ i + d \in 1..Len(s)
      BY <1>1, <2>2, <2>3
    <3>2. R[i] = r[i]
      BY <1>5, <2>3
    <3>3. S[i + d] = s[i + d]
      BY <1>4, <2>2, <2>3
    <3> QED
      BY <1>3, <3>1, <3>2, <3>3
  <2>4. CASE ~(i <= Len(r))
    <3>1. R[i] = 0
      BY <1>1, <1>7, <2>4
    <3>2. S[i + d] = 0
      BY <1>1, <1>6, <2>2, <2>4, SMTT(40)
    <3> QED
      BY <3>1, <3>2
  <2> QED
    BY <2>3, <2>4
<1>11. \A i \in 1..d : w <= S[i]
  <2>1. \A i \in 1..d : i \in 1..Len(s) /\ i \in 1..(Len(s) + n) /\ i <= Len(s)
    BY <1>1
  <2> QED
    BY <1>3, <1>4, <2>1
<1>12. Remembers(S, R, w)
  BY <1>4, <1>5, <1>8, <1>9, <1>10, <1>11 DEF Remembers
<1> QED
  BY <1>5, <1>12 DEF S, R, z

LEMMA FunctionIsSeq ==
    ASSUME NEW n \in Nat, NEW f \in [1..n -> Nat]
    PROVE  f \in Seq(Nat) /\ Len(f) = n
<1>1. f \in Seq(Nat) /\ DOMAIN f = 1..n
  BY SeqDef
<1>2. Len(f) \in Nat /\ 1..Len(f) = 1..n
  BY <1>1, LenProperties
<1>3. \A i \in Int : i \in 1..Len(f) <=> i \in 1..n
  BY <1>2
<1>4. (Len(f) >= 1 => Len(f) \in 1..Len(f)) /\ (n >= 1 => n \in 1..n)
  BY <1>2
<1> QED
  BY <1>1, <1>2, <1>3, <1>4

LEMMA AppendIsStart ==
    ASSUME NEW s \in Seq(Nat)
    PROVE  Append(s, 0) = s \o L!Zeros(1)
<1>1. << 0 >> = L!Zeros(1)
  BY DEF L!Zeros
<1> QED
  BY <1>1, AppendIsConcat, ZenonT(60)

(* Time passes: the ages of the recorded starts stop at the window, those   *)
(* of the recent ones are forgotten there, and the two still agree.         *)
LEMMA AgeingIsRemembered ==
    ASSUME NEW s, NEW r, NEW w \in Nat, Remembers(s, r, w),
           NEW s2, s2 = [i \in DOMAIN s |-> L!Least({s[i] + 1, w})],
           NEW r2, r2 = L!Younger([i \in DOMAIN r |-> r[i] + 1], w)
    PROVE  Remembers(s2, r2, w) /\ Len(r2) <= Len(r)
<1> DEFINE a == [i \in DOMAIN r |-> r[i] + 1]
           d == Len(s) - Len(r)
           e == Len(a) - Len(r2)
<1>1. /\ s \in Seq(Nat) /\ r \in Seq(Nat) /\ Len(s) \in Nat /\ Len(r) \in Nat
      /\ DOMAIN s = 1..Len(s) /\ DOMAIN r = 1..Len(r)
      /\ Len(r) <= Len(s) /\ d \in Nat /\ d = Len(s) - Len(r)
      /\ \A i \in 1..Len(s) : s[i] \in Nat
      /\ \A i \in 1..Len(r) : r[i] \in Nat
  BY LenProperties, ElementOfSeq, SMTT(40) DEF Remembers
<1>2. /\ Ordered(s) /\ Ordered(r)
      /\ \A i \in 1..Len(r) : r[i] = s[i + d] /\ r[i] < w
      /\ \A i \in 1..d : w <= s[i]
  BY WindowRemembersItself DEF Remembers
<1>3. /\ a \in Seq(Nat) /\ Len(a) = Len(r)
      /\ \A i \in 1..Len(r) : a[i] = r[i] + 1
  BY <1>1
<1>4. Ordered(a)
  <2>1. SUFFICES ASSUME NEW i \in 1..Len(r), NEW j \in 1..Len(r), i <= j
                 PROVE  r[j] + 1 <= r[i] + 1
    BY <1>3 DEF Ordered
  <2>2. r[j] <= r[i]
    BY <1>2, <2>1 DEF Ordered
  <2> QED
    BY <1>1, <2>2
<1> HIDE DEF a, d
<1>5. Remembers(a, r2, w)
  BY <1>3, <1>4, CutRemembers DEF a
<1>6. /\ r2 \in Seq(Nat) /\ Len(r2) \in Nat /\ Len(r2) <= Len(r)
      /\ e \in Nat /\ e = Len(r) - Len(r2)
      /\ \A i \in 1..Len(r2) : r2[i] = a[i + e] /\ r2[i] < w
      /\ \A i \in 1..e : w <= a[i]
  BY <1>1, <1>3, <1>5, LenProperties DEF Remembers
<1> HIDE DEF e
<1>7. /\ s2 \in Seq(Nat) /\ Len(s2) = Len(s)
      /\ \A i \in 1..Len(s) : s2[i] = IF s[i] + 1 <= w THEN s[i] + 1 ELSE w
  <2>1. \A i \in 1..Len(s) :
           L!Least({s[i] + 1, w}) = IF s[i] + 1 <= w THEN s[i] + 1 ELSE w
    BY <1>1, LeastOfTwo, SMTT(40)
  <2>2. s2 = [i \in 1..Len(s) |-> IF s[i] + 1 <= w THEN s[i] + 1 ELSE w]
    BY <1>1, <2>1
  <2> DEFINE n == Len(s)
             f(i) == IF s[i] + 1 <= w THEN s[i] + 1 ELSE w
  <2>3. \A i \in 1..n : f(i) \in Nat
    BY <1>1
  <2>4. n \in Nat /\ s2 = [i \in 1..n |-> f(i)]
    BY <1>1, <2>2
  <2>5. s2 \in [1..n -> Nat]
    <3> HIDE DEF n, f
    <3> QED
      BY <2>3, <2>4
  <2>6. s2 \in Seq(Nat) /\ Len(s2) = n
    BY <2>4, <2>5, FunctionIsSeq
  <2> QED
    BY <2>2, <2>6
<1>8. Ordered(s2)
  <2>1. SUFFICES ASSUME NEW i \in 1..Len(s), NEW j \in 1..Len(s), i <= j
                 PROVE  s2[j] <= s2[i]
    BY <1>7 DEF Ordered
  <2>2. s[j] <= s[i] /\ s[i] \in Nat /\ s[j] \in Nat
    BY <1>1, <1>2, <2>1 DEF Ordered
  <2>3. /\ s2[i] = IF s[i] + 1 <= w THEN s[i] + 1 ELSE w
        /\ s2[j] = IF s[j] + 1 <= w THEN s[j] + 1 ELSE w
    BY <1>7
  <2> QED
    BY <2>2, <2>3
<1>9. \A i \in 1..Len(r) : i + d \in 1..Len(s) /\ s2[i + d] = r[i] + 1
  <2>1. SUFFICES ASSUME NEW i \in 1..Len(r)
                 PROVE  i + d \in 1..Len(s) /\ s2[i + d] = r[i] + 1
    OBVIOUS
  <2>2. i + d \in 1..Len(s)
    BY <1>1
  <2>3. r[i] = s[i + d] /\ r[i] < w /\ r[i] \in Nat
    BY <1>1, <1>2
  <2>4. s2[i + d] = IF s[i + d] + 1 <= w THEN s[i + d] + 1 ELSE w
    BY <1>7, <2>2
  <2> QED
    BY <2>2, <2>3, <2>4
<1>10. \A i \in 1..Len(r2) : r2[i] = s2[i + (d + e)]
  <2>1. SUFFICES ASSUME NEW i \in 1..Len(r2)
                 PROVE  r2[i] = s2[i + (d + e)]
    OBVIOUS
  <2>2. i + e \in 1..Len(r) /\ i + (d + e) = (i + e) + d
    BY <1>1, <1>6
  <2>3. r2[i] = r[i + e] + 1
    BY <1>3, <1>6, <2>2
  <2> QED
    BY <1>9, <2>2, <2>3
<1>11. \A i \in 1..(d + e) : w <= s2[i]
  <2>1. SUFFICES ASSUME NEW i \in 1..(d + e)
                 PROVE  w <= s2[i]
    OBVIOUS
  <2>2. CASE i <= d
    <3>1. i \in 1..d /\ i \in 1..Len(s)
      BY <1>1, <2>2
    <3>2. w <= s[i] /\ s[i] \in Nat
      BY <1>1, <1>2, <3>1
    <3>3. s2[i] = IF s[i] + 1 <= w THEN s[i] + 1 ELSE w
      BY <1>7, <3>1
    <3> QED
      BY <3>2, <3>3
  <2>3. CASE ~(i <= d)
    <3>1. i - d \in 1..e /\ i - d \in 1..Len(r) /\ (i - d) + d = i
      BY <1>1, <1>6, <2>3, SMTT(40)
    <3>2. w <= r[i - d] + 1
      BY <1>3, <1>6, <3>1
    <3>3. s2[(i - d) + d] = r[i - d] + 1
      BY <1>9, <3>1
    <3> QED
      BY <3>1, <3>2, <3>3
  <2> QED
    BY <2>2, <2>3
<1>12. Len(s2) - Len(r2) = d + e /\ Len(r2) <= Len(s2)
  BY <1>1, <1>6, <1>7
<1> QED
  BY <1>6, <1>7, <1>8, <1>10, <1>11, <1>12 DEF Remembers

-----------------------------------------------------------------------------
(* What the options assume, in the form the steps below need. *)
LEMMA Options ==
    /\ Slots \in Nat \ {0} /\ RateCount \in Nat /\ RateWindow \in Nat \ {0}
BY OptionsOfWorkers DEF L!WorkerAssumption

(* The limiter agrees with the true window, which is within the limit.      *)
WindowKept == RateCount > 0 => /\ Remembers(starts, recent, RateWindow)
                               /\ Len(recent) <= RateCount

(* Every job in flight runs or is about to leave, within the slots.         *)
SlotsKept ==
    /\ running \in BOOLEAN
    /\ due \in Nat /\ inFlight \in Nat /\ handlers \in Nat /\ finishing \in Nat
    /\ inFlight = handlers + finishing
    /\ inFlight <= Slots

(* A stop() of the SQLite loop resolves only when nothing is in flight, and *)
(* after it nothing is claimed.                                             *)
DrainKept ==
    /\ stopCalls \in [Stoppers -> {"none", "waiting", "resolved"}]
    /\ \A c \in Stoppers :
          stopCalls[c] = "resolved" => ~running /\ inFlight = 0

(* A claim is only on its way for a slot and a start that are still free,   *)
(* because no other kick() runs until it has been answered.                 *)
ClaimKept ==
    claim \in {"sent", "got"} =>
        /\ kicking = TRUE
        /\ inFlight < Slots
        /\ RateCount > 0 => Len(recent) < RateCount

SqliteInv == part = "sqlite" => WindowKept /\ SlotsKept /\ DrainKept

PostgresInv == part = "postgres" => WindowKept /\ SlotsKept /\ ClaimKept

(* The window the limiter computes, as either loop calls it. *)
LEMMA WindowIs ==
    ASSUME WindowKept, RateCount > 0
    PROVE  /\ L!InWindow(starts) = recent /\ P!InWindow(starts) = recent
           /\ recent \in Seq(Nat) /\ Len(recent) \in Nat
           /\ Remembers(recent, recent, RateWindow)
<1>1. Remembers(starts, recent, RateWindow) /\ RateWindow \in Nat
  BY Options DEF WindowKept
<1>2. L!Younger(starts, RateWindow) = recent
  BY <1>1, WindowIsRecent
<1>3. recent \in Seq(Nat) /\ Len(recent) \in Nat
  BY <1>1, LenProperties DEF Remembers
<1> QED
  BY <1>1, <1>2, <1>3, OneCore, WindowRemembersItself DEF L!InWindow, P!InWindow

(* kick() of the SQLite loop, called with busy jobs in flight: it starts n  *)
(* handlers, and neither the slots nor the window are exceeded.             *)
LEMMA SqliteKick ==
    ASSUME WindowKept, running \in BOOLEAN, handlers \in Nat,
           NEW avail \in Nat, NEW busy \in Nat, busy <= Slots, NEW armed,
           L!Kick(avail, busy, armed)
    PROVE  /\ WindowKept' /\ due' \in Nat
           /\ \E n \in Nat : /\ inFlight' = busy + n /\ busy + n <= Slots
                             /\ handlers' = handlers + n
                             /\ ~running => n = 0
<1> DEFINE kept  == L!InWindow(starts)
           spare == Slots - busy
           room  == IF RateCount = 0 THEN spare
                    ELSE IF L!RateFull(kept) THEN 0 ELSE RateCount - Len(kept)
           n     == L!Least({spare, room, avail})
           begun == IF RateCount = 0 THEN kept ELSE kept \o L!Zeros(n)
<1>1. CASE ~running
  <2>1. due' = avail /\ inFlight' = busy /\ handlers' = handlers
        /\ starts' = starts /\ recent' = recent
    BY <1>1 DEF L!Kick, L!rate
  <2>2. WindowKept'
    BY <2>1 DEF WindowKept
  <2>3. inFlight' = busy + 0 /\ busy + 0 <= Slots /\ handlers' = handlers + 0
    BY <2>1
  <2> QED
    BY <2>1, <2>2, <2>3
<1>2. CASE running
  <2>1. /\ due' = avail - n /\ inFlight' = busy + n /\ handlers' = handlers + n
        /\ starts' = IF spare = 0 THEN starts ELSE begun
        /\ recent' = recent \o L!Zeros(n)
    BY <1>2 DEF L!Kick
  <2>2. spare \in Nat /\ room \in Nat
    <3>1. spare \in Nat
      BY Options
    <3>2. CASE RateCount = 0
      BY <3>1, <3>2
    <3>3. CASE RateCount > 0
      <4>1. Len(kept) \in Nat
        BY <3>3, WindowIs
      <4>2. L!RateFull(kept) <=> Len(kept) >= RateCount
        BY <3>3 DEF L!RateFull
      <4> QED
        BY <3>3, <4>1, <4>2, Options
    <3> QED
      BY <3>1, <3>2, <3>3, Options
  <2>3. n \in Nat /\ n <= spare /\ n <= room /\ n <= avail
    BY <2>2, LeastOfThree
  <2>4. due' \in Nat /\ busy + n <= Slots
    <3> HIDE DEF n, room
    <3> QED
      BY <2>1, <2>2, <2>3, Options
  <2>5. ASSUME RateCount > 0
        PROVE  /\ Remembers(starts', recent', RateWindow)
               /\ Len(recent') <= RateCount
    <3>1. /\ kept = recent /\ Len(recent) \in Nat
          /\ Remembers(recent, recent, RateWindow)
          /\ Remembers(starts, recent, RateWindow) /\ Len(recent) <= RateCount
      BY <2>5, WindowIs DEF WindowKept
    <3>2. room = RateCount - Len(recent)
      <4>1. L!RateFull(kept) <=> Len(recent) >= RateCount
        BY <2>5, <3>1 DEF L!RateFull
      <4> QED
        BY <2>5, <3>1, <4>1, Options
    <3>3. /\ Len(recent') = Len(recent) + n
          /\ Remembers(starts \o L!Zeros(n), recent', RateWindow)
          /\ Remembers(recent \o L!Zeros(n), recent', RateWindow)
      <4> HIDE DEF n
      <4> QED
        BY <2>1, <2>3, <3>1, StartsAreRemembered, Options
    <3>4. Len(recent') <= RateCount
      <4> HIDE DEF n, room
      <4> QED
        BY <2>3, <3>1, <3>2, <3>3, Options
    <3>5. CASE spare = 0
      <4>1. n = 0 /\ starts' = starts /\ starts \in Seq(Nat)
        BY <2>1, <2>3, <3>1, <3>5 DEF Remembers
      <4>2. L!Zeros(0) \in [1..0 -> Nat]
        BY DEF L!Zeros
      <4>3. L!Zeros(0) = << >>
        BY <4>2, FunctionIsSeq, EmptySeq
      <4>4. starts \o L!Zeros(n) = starts
        BY <4>1, <4>3, ConcatEmptySeq
      <4> QED
        BY <3>3, <3>4, <4>1, <4>4
    <3>6. CASE spare # 0
      <4>1. starts' = recent \o L!Zeros(n)
        <5> HIDE DEF n
        <5> QED
          BY <2>1, <2>5, <3>1, <3>6
      <4> QED
        BY <3>3, <3>4, <4>1
    <3> QED
      BY <3>5, <3>6
  <2> HIDE DEF n
  <2> QED
    BY <1>2, <2>1, <2>3, <2>4, <2>5 DEF WindowKept
<1> QED
  BY <1>1, <1>2

LEMMA WindowUnchanged ==
    ASSUME WindowKept, starts' = starts, recent' = recent
    PROVE  WindowKept'
BY DEF WindowKept

(* A tick of either loop. *)
LEMMA TickKeepsWindow ==
    ASSUME WindowKept, L!Tick \/ P!Tick
    PROVE  /\ WindowKept'
           /\ RateCount > 0 => Len(recent') <= Len(recent)
<1>1. /\ starts' = [i \in DOMAIN starts |-> L!Least({starts[i] + 1, RateWindow})]
      /\ recent' = L!Younger([i \in DOMAIN recent |-> recent[i] + 1], RateWindow)
  BY OneCore DEF L!Tick, P!Tick
<1>2. ASSUME RateCount > 0
      PROVE  /\ Remembers(starts', recent', RateWindow)
             /\ Len(recent') <= Len(recent) /\ Len(recent') <= RateCount
  <2>1. Remembers(starts, recent, RateWindow) /\ Len(recent) <= RateCount
    BY <1>2 DEF WindowKept
  <2>2. Remembers(starts', recent', RateWindow) /\ Len(recent') <= Len(recent)
    BY <1>1, <2>1, AgeingIsRemembered, Options
  <2>3. Len(recent) \in Nat /\ Len(recent') \in Nat
    BY <2>1, <2>2, LenProperties DEF Remembers
  <2> QED
    BY <2>1, <2>2, <2>3, Options
<1> QED
  BY <1>2 DEF WindowKept

(* One step of the SQLite loop. *)
LEMMA SqliteStep ==
    ASSUME WindowKept, SlotsKept, DrainKept, L!Next
    PROVE  WindowKept' /\ SlotsKept' /\ DrainKept'
<1> USE DEF SlotsKept
<1>1. CASE L!Construct \/ L!PollFires
  <2>1. /\ \E armed : L!Kick(due, inFlight, armed)
        /\ UNCHANGED <<finishing, running, stopCalls>>
    BY <1>1 DEF L!Construct, L!PollFires, L!stop
  <2>2. /\ WindowKept' /\ due' \in Nat
        /\ \E n \in Nat : /\ inFlight' = inFlight + n /\ inFlight + n <= Slots
                          /\ handlers' = handlers + n
                          /\ ~running => n = 0
    BY <2>1, SqliteKick
  <2> QED
    BY <2>1, <2>2 DEF DrainKept
<1>2. CASE L!AddHere
  <2>1. /\ L!Kick(due + 1, inFlight, task)
        /\ UNCHANGED <<finishing, running, stopCalls>>
    BY <1>2 DEF L!AddHere, L!stop
  <2>2. /\ WindowKept' /\ due' \in Nat
        /\ \E n \in Nat : /\ inFlight' = inFlight + n /\ inFlight + n <= Slots
                          /\ handlers' = handlers + n
                          /\ ~running => n = 0
    BY <2>1, SqliteKick
  <2> QED
    BY <2>1, <2>2 DEF DrainKept
<1>3. CASE L!Settle
  <2>1. /\ handlers > 0 /\ handlers' = handlers - 1 /\ finishing' = finishing + 1
        /\ UNCHANGED <<due, inFlight, running, stopCalls, starts, recent>>
    BY <1>3 DEF L!Settle, L!env, L!stop, L!rate
  <2> QED
    BY <2>1, WindowUnchanged DEF DrainKept
<1>4. CASE L!Finally
  <2>1. /\ finishing > 0 /\ finishing' = finishing - 1
        /\ L!Kick(due, inFlight - 1, task)
        /\ L!CheckDrained
        /\ UNCHANGED running
    BY <1>4 DEF L!Finally
  <2>2. inFlight - 1 \in Nat /\ inFlight - 1 <= Slots
    BY <2>1, Options
  <2>3. /\ WindowKept' /\ due' \in Nat
        /\ \E n \in Nat : /\ inFlight' = inFlight - 1 + n
                          /\ inFlight - 1 + n <= Slots
                          /\ handlers' = handlers + n
                          /\ ~running => n = 0
    BY <2>1, <2>2, SqliteKick
  <2>4. SlotsKept'
    BY <2>1, <2>3
  <2>5. /\ stopCalls' \in [Stoppers -> {"none", "waiting", "resolved"}]
        /\ \A c \in Stoppers : stopCalls'[c] = "resolved" =>
              stopCalls[c] = "resolved" \/ (~running /\ inFlight = 1)
    BY <2>1 DEF L!CheckDrained, DrainKept
  <2>6. ASSUME NEW c \in Stoppers, stopCalls'[c] = "resolved"
        PROVE  ~running' /\ inFlight' = 0
    <3>1. stopCalls[c] # "resolved"
      BY <2>1 DEF DrainKept
    <3>2. ~running /\ inFlight = 1
      BY <2>5, <2>6, <3>1
    <3> QED
      BY <2>1, <2>3, <3>2
  <2> QED
    BY <2>3, <2>4, <2>5, <2>6 DEF DrainKept
<1>5. CASE L!Environment
  <2>1. CASE L!Appear
    BY <2>1, WindowUnchanged DEF L!Appear, L!jobs, L!stop, L!rate, DrainKept
  <2>2. CASE L!TakenElsewhere
    BY <2>2, WindowUnchanged
    DEF L!TakenElsewhere, L!jobs, L!stop, L!rate, DrainKept
  <2>3. CASE L!Tick
    <3>1. WindowKept'
      BY <2>3, TickKeepsWindow
    <3>2. UNCHANGED <<due, inFlight, handlers, finishing, running, stopCalls>>
      BY <2>3 DEF L!Tick, L!env, L!jobs, L!stop
    <3> QED
      BY <3>1, <3>2 DEF DrainKept
  <2>4. ASSUME NEW c \in Stoppers, L!Stop(c)
        PROVE  WindowKept' /\ SlotsKept' /\ DrainKept'
    <3>1. /\ running' = FALSE
          /\ UNCHANGED <<due, inFlight, handlers, finishing, starts, recent>>
      BY <2>4 DEF L!Stop, L!env, L!jobs, L!rate
    <3>2. stopCalls' = [stopCalls EXCEPT ![c] = IF inFlight = 0 THEN "resolved"
                                                ELSE "waiting"]
      BY <2>4 DEF L!Stop
    <3>3. DrainKept'
      BY <3>1, <3>2 DEF DrainKept
    <3> QED
      BY <3>1, <3>3, WindowUnchanged
  <2> QED
    BY <1>5, <2>1, <2>2, <2>3, <2>4 DEF L!Environment
<1> QED
  BY <1>1, <1>2, <1>3, <1>4, <1>5 DEF L!Next

(* kick() of the Postgres loop, called with busy jobs in flight: it sends a *)
(* claim only for a free slot and a free start.                             *)
LEMMA PostgresKick ==
    ASSUME WindowKept, running \in BOOLEAN, NEW busy \in Nat, busy <= inFlight,
           inFlight \in Nat, ClaimKept, NEW armed, P!Kick(busy, armed)
    PROVE  /\ WindowKept' /\ recent' = recent
           /\ claim' \in {"sent", "got"} =>
                /\ kicking' = TRUE
                /\ busy < Slots
                /\ RateCount > 0 => Len(recent) < RateCount
<1>1. CASE running /\ ~kicking
  <2>1. /\ starts' = IF busy < Slots THEN P!InWindow(starts) ELSE starts
        /\ recent' = recent
        /\ P!Loop(busy, P!InWindow(starts), FALSE, armed)
    BY <1>1 DEF P!Kick
  <2>2. WindowKept'
    BY <2>1, WindowIs DEF WindowKept
  <2>3. claim' \in {"sent", "got"} =>
           kicking' = TRUE /\ busy < Slots /\ ~P!RateFull(P!InWindow(starts))
    BY <2>1 DEF P!Loop
  <2>4. ASSUME RateCount > 0, ~P!RateFull(P!InWindow(starts))
        PROVE  Len(recent) < RateCount
    <3>1. ~(Len(recent) >= RateCount) /\ Len(recent) \in Nat
      BY <2>4, WindowIs DEF P!RateFull
    <3> QED
      BY <3>1, Options
  <2> QED
    BY <2>1, <2>2, <2>3, <2>4
<1>2. CASE ~(running /\ ~kicking)
  <2>1. starts' = starts /\ recent' = recent /\ claim' = claim
        /\ kicking' = kicking
    BY <1>2 DEF P!Kick, P!kick, P!rate
  <2>2. WindowKept'
    BY <2>1, WindowUnchanged
  <2> QED
    BY <2>1, <2>2, Options DEF ClaimKept
<1> QED
  BY <1>1, <1>2

(* The claimed job starts: its slot and its start were kept free for it.    *)
LEMMA ClaimedJobStarts ==
    ASSUME WindowKept, SlotsKept, ClaimKept, P!ClaimReturnsJob
    PROVE  WindowKept' /\ SlotsKept' /\ ClaimKept'
<1> DEFINE begun == IF RateCount = 0 THEN starts ELSE Append(starts, 0)
           again == running /\ inFlight + 1 < Slots
           next  == P!InWindow(begun)
<1>1. /\ claim = "got"
      /\ inFlight' = inFlight + 1 /\ handlers' = handlers + 1
      /\ recent' = Append(recent, 0)
      /\ starts' = IF again THEN next ELSE begun
      /\ P!Loop(inFlight + 1, next, TRUE, task)
      /\ UNCHANGED <<due, finishing, running>>
  BY DEF P!ClaimReturnsJob, P!env, P!stop
<1>2. /\ inFlight < Slots
      /\ RateCount > 0 => Len(recent) < RateCount
  BY <1>1 DEF ClaimKept
<1>3. SlotsKept'
  BY <1>1, <1>2, Options DEF SlotsKept
<1>4. ASSUME RateCount > 0
      PROVE  /\ Remembers(begun, recent', RateWindow)
             /\ next = recent' /\ Remembers(recent', recent', RateWindow)
             /\ Len(recent') \in Nat /\ Len(recent') <= RateCount
  <2>1. Remembers(starts, recent, RateWindow)
    BY <1>4 DEF WindowKept
  <2>2. begun = starts \o L!Zeros(1) /\ recent' = recent \o L!Zeros(1)
    <3>1. starts \in Seq(Nat) /\ recent \in Seq(Nat)
      BY <2>1 DEF Remembers
    <3>2. begun = Append(starts, 0)
      BY <1>4
    <3> HIDE DEF begun
    <3> QED
      BY <1>1, <3>1, <3>2, AppendIsStart
  <2>3. Remembers(begun, recent', RateWindow) /\ Len(recent') = Len(recent) + 1
    <3> HIDE DEF begun
    <3>1. 1 \in Nat
      OBVIOUS
    <3> QED
      BY <2>1, <2>2, <3>1, StartsAreRemembered, Options
  <2>4. L!Younger(begun, RateWindow) = recent'
        /\ Remembers(recent', recent', RateWindow)
    BY <2>3, WindowIsRecent, WindowRemembersItself, Options
  <2>5. next = recent'
    BY <2>4, OneCore DEF P!InWindow
  <2>6. Len(recent) \in Nat /\ Len(recent') \in Nat
    BY <2>1, <2>3, LenProperties DEF Remembers
  <2> QED
    BY <1>2, <1>4, <2>3, <2>4, <2>5, <2>6, Options
<1>5. WindowKept'
  BY <1>1, <1>4 DEF WindowKept
<1>6. ClaimKept'
  <2>1. claim' \in {"sent", "got"} =>
           kicking' = TRUE /\ inFlight + 1 < Slots /\ ~P!RateFull(next)
    BY <1>1 DEF P!Loop
  <2>2. ASSUME RateCount > 0, ~P!RateFull(next)
        PROVE  Len(recent') < RateCount
    <3>1. ~(Len(recent') >= RateCount)
      BY <1>4, <2>2 DEF P!RateFull
    <3> QED
      BY <1>4, <2>2, <3>1, Options
  <2> QED
    BY <1>1, <2>1, <2>2 DEF ClaimKept
<1> QED
  BY <1>3, <1>5, <1>6

(* One step of the Postgres loop. *)
LEMMA PostgresStep ==
    ASSUME WindowKept, SlotsKept, ClaimKept, P!Next
    PROVE  WindowKept' /\ SlotsKept' /\ ClaimKept'
<1>1. CASE P!ServerClaims
  <2>1. /\ claim = "sent" /\ due' \in Nat
        /\ UNCHANGED <<inFlight, handlers, finishing, running, starts, recent, kicking>>
    BY <1>1 DEF P!ServerClaims, P!jobs, P!stop, P!rate, SlotsKept
  <2> QED
    BY <2>1, WindowUnchanged DEF SlotsKept, ClaimKept
<1>2. CASE P!ClaimReturnsJob
  BY <1>2, ClaimedJobStarts
<1>3. CASE P!ClaimReturnsNothing
  <2>1. /\ claim' = "none"
        /\ UNCHANGED <<due, inFlight, handlers, finishing, running, starts, recent>>
    BY <1>3 DEF P!ClaimReturnsNothing, P!env, P!jobs, P!stop, P!rate
  <2> QED
    BY <2>1, WindowUnchanged DEF SlotsKept, ClaimKept
<1>4. CASE P!AddInserts
  <2>1. /\ due' = due + 1
        /\ UNCHANGED <<inFlight, handlers, finishing, running, starts, recent,
                       kicking, claim>>
    BY <1>4 DEF P!AddInserts, P!jobs, P!stop, P!rate, P!kick
  <2> QED
    BY <2>1, WindowUnchanged DEF SlotsKept, ClaimKept
<1>5. CASE P!AddKicks \/ P!PollFires
  <2>1. /\ \E armed : P!Kick(inFlight, armed)
        /\ UNCHANGED <<due, inFlight, handlers, finishing, running>>
    BY <1>5 DEF P!AddKicks, P!PollFires, P!env, P!jobs, P!stop
  <2>2. /\ WindowKept' /\ recent' = recent
        /\ claim' \in {"sent", "got"} =>
             /\ kicking' = TRUE
             /\ inFlight < Slots
             /\ RateCount > 0 => Len(recent) < RateCount
    <3>1. running \in BOOLEAN /\ inFlight \in Nat /\ inFlight <= inFlight
      BY DEF SlotsKept
    <3> QED
      BY <2>1, <3>1, PostgresKick
  <2> QED
    BY <2>1, <2>2 DEF SlotsKept, ClaimKept
<1>6. CASE P!Settle
  <2>1. /\ handlers > 0 /\ handlers' = handlers - 1 /\ finishing' = finishing + 1
        /\ UNCHANGED <<due, inFlight, running, starts, recent, kicking, claim>>
    BY <1>6 DEF P!Settle, P!env, P!stop, P!rate, P!kick
  <2> QED
    BY <2>1, WindowUnchanged DEF SlotsKept, ClaimKept
<1>7. CASE P!Finally
  <2>1. /\ finishing > 0 /\ finishing' = finishing - 1
        /\ inFlight' = inFlight - 1
        /\ P!Kick(inFlight - 1, task)
        /\ UNCHANGED <<due, handlers, running>>
    BY <1>7 DEF P!Finally, P!env
  <2>2. inFlight - 1 \in Nat /\ inFlight - 1 <= inFlight
    BY <2>1 DEF SlotsKept
  <2>3. /\ WindowKept' /\ recent' = recent
        /\ claim' \in {"sent", "got"} =>
             /\ kicking' = TRUE
             /\ inFlight - 1 < Slots
             /\ RateCount > 0 => Len(recent) < RateCount
    BY <2>1, <2>2, PostgresKick DEF SlotsKept
  <2> QED
    BY <2>1, <2>2, <2>3, Options DEF SlotsKept, ClaimKept
<1>8. CASE P!Environment
  <2>0. UNCHANGED <<kicking, claim>>
    BY <1>8 DEF P!Environment, P!kick
  <2>1. CASE P!Appear \/ P!TakenElsewhere
    BY <2>0, <2>1, WindowUnchanged
    DEF P!Appear, P!TakenElsewhere, P!jobs, P!stop, P!rate, SlotsKept, ClaimKept
  <2>2. CASE P!Tick
    <3>1. WindowKept' /\ (RateCount > 0 => Len(recent') <= Len(recent))
      BY <2>2, TickKeepsWindow
    <3>2. UNCHANGED <<due, inFlight, handlers, finishing, running>>
      BY <2>2 DEF P!Tick, P!env, P!jobs, P!stop
    <3>3. ASSUME RateCount > 0, Len(recent) < RateCount
          PROVE  Len(recent') < RateCount
      <4>1. Len(recent) \in Nat /\ Len(recent') \in Nat
        BY <3>1, <3>3, LenProperties DEF WindowKept, Remembers
      <4> QED
        BY <3>1, <3>3, <4>1, Options
    <3> QED
      BY <2>0, <3>1, <3>2, <3>3 DEF SlotsKept, ClaimKept
  <2>3. CASE \E c \in Stoppers : P!Stop(c)
    <3>1. /\ running' = FALSE
          /\ UNCHANGED <<due, inFlight, handlers, finishing, starts, recent>>
      BY <2>3 DEF P!Stop, P!env, P!jobs, P!rate
    <3> QED
      BY <2>0, <3>1, WindowUnchanged DEF SlotsKept, ClaimKept
  <2> QED
    BY <1>8, <2>1, <2>2, <2>3 DEF P!Environment
<1> QED
  BY <1>1, <1>2, <1>3, <1>4, <1>5, <1>6, <1>7, <1>8 DEF P!Next

-----------------------------------------------------------------------------
LEMMA LoopsStart == MCInit => SqliteInv /\ PostgresInv
<1> SUFFICES ASSUME MCInit PROVE SqliteInv /\ PostgresInv
  OBVIOUS
<1>1. Remembers(<< >>, << >>, RateWindow) /\ Len(<< >>) = 0
  <2>1. << >> \in Seq(Nat) /\ Len(<< >>) = 0
    BY EmptySeq
  <2> QED
    BY <2>1 DEF Remembers, Ordered
<1>2. starts = << >> /\ recent = << >> => WindowKept
  BY <1>1, Options DEF WindowKept
<1>3. ASSUME part = "sqlite" PROVE WindowKept /\ SlotsKept /\ DrainKept
  <2>1. L!CoreInit /\ SqliteJobs \in Nat
    BY <1>3, OptionsOfWorkers DEF MCInit, L!Init, L!WorkerAssumption
  <2> QED
    BY <1>2, <2>1, Options DEF L!CoreInit, SlotsKept, DrainKept
<1>4. ASSUME part = "postgres" PROVE WindowKept /\ SlotsKept /\ ClaimKept
  <2>1. P!CoreInit /\ kicking = TRUE /\ PostgresJobs \in Nat
    BY <1>4, OptionsOfWorkers DEF MCInit, P!Init, P!WorkerAssumption
  <2>2. inFlight < Slots /\ (RateCount > 0 => Len(recent) < RateCount)
    BY <1>1, <2>1, Options DEF P!CoreInit
  <2> QED
    BY <1>2, <2>1, <2>2, Options DEF P!CoreInit, SlotsKept, ClaimKept
<1> QED
  BY <1>3, <1>4 DEF SqliteInv, PostgresInv

LEMMA LoopsStep ==
    SqliteInv /\ PostgresInv /\ [MCNext]_mcVars => (SqliteInv /\ PostgresInv)'
<1> SUFFICES ASSUME SqliteInv, PostgresInv, [MCNext]_mcVars
             PROVE  (SqliteInv /\ PostgresInv)'
  OBVIOUS
<1>1. part' = part
  BY DEF MCNext, mcVars
<1>2. CASE UNCHANGED loopVars
  BY <1>1, <1>2, WindowUnchanged
  DEF loopVars, coreVars, pgOnly, SqliteInv, PostgresInv, SlotsKept, DrainKept,
      ClaimKept
<1>3. CASE part = "sqlite" /\ L!Next
  BY <1>1, <1>3, SqliteStep DEF SqliteInv, PostgresInv
<1>4. CASE part = "postgres" /\ P!Next
  BY <1>1, <1>4, PostgresStep DEF SqliteInv, PostgresInv
<1> QED
  BY <1>2, <1>3, <1>4 DEF MCNext, mcVars

LEMMA LoopsKeep == MCSpec => [](SqliteInv /\ PostgresInv)
BY LoopsStart, LoopsStep, PTL DEF MCSpec

(* stop() and close() of the SQLite worker, "stop claiming new jobs and     *)
(* wait for in-flight ones to finish": once a call has resolved, no handler *)
(* of the worker runs, however many callers stop it, while adds, polls, the *)
(* rate limiter and other workers go on.                                    *)
THEOREM StopWaitsForHandlers == MCSpec => []StopDrains
<1>1. SqliteInv => StopDrains
  BY DEF SqliteInv, StopDrains, L!StopDrains, DrainKept, SlotsKept
<1> QED
  BY <1>1, LoopsKeep, PTL

(* concurrency and rateLimit of process(), "at most count jobs per windowMs *)
(* (sliding window)": neither loop runs more handlers than its slots, nor   *)
(* starts more in any window than the limit, although the limiter forgets   *)
(* starts, and although the Postgres loop checks before an await and starts *)
(* the job after it.                                                        *)
THEOREM LoopsKeepTheirLimits == MCSpec => []LimitsHold
<1>1. SqliteInv /\ PostgresInv => LimitsHold
  BY DEF SqliteInv, PostgresInv, LimitsHold, WindowKept, SlotsKept,
         L!RateLimited, P!RateLimited, P!SlotsSuffice
<1> QED
  BY <1>1, LoopsKeep, PTL
=============================================================================
