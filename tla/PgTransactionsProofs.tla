------------------------ MODULE PgTransactionsProofs ------------------------
(***************************************************************************)
(* The Postgres driver comes to rest after its calls, whichever of them    *)
(* overlap (Resting), and its transactions are all or nothing when calls   *)
(* are awaited in turn.                                                    *)
(*                                                                         *)
(* First the driver's own bookkeeping: one call of transactionAsync() at a *)
(* time holds a client, it is the first of the queue, its client is the    *)
(* one that is not in the pool, and the depth counts the calls that have   *)
(* entered and not settled.                                                *)
(***************************************************************************)
EXTENDS PgTransactions, SequenceTheorems, FiniteSetTheorems, WellFoundedInduction, TLAPS

Ats == {"idle", "queued", "entering", "running", "caught", "leaving", "done", "failed"}

Saves == Seq([sp : Nat, work : SUBSET Nat])

Sessions == [open : BOOLEAN, aborted : BOOLEAN, dead : BOOLEAN, work : SUBSET Nat,
             saves : Saves]

FlowStates == [at : Ats, top : BOOLEAN, client : Clients \cup {NoClient}, sp : Nat,
               attempt : Nat, entered : BOOLEAN, poisoned : BOOLEAN, error : Errors]

Dead == [Ended EXCEPT !.dead = TRUE]

DriverTyped ==
    /\ session \in [Clients -> Sessions] /\ free \subseteq Clients
    /\ txClient \in Clients \cup {NoClient}
    /\ depth \in Nat /\ tail \in Seq(Flows) /\ flow \in [Flows -> FlowStates]

(* A call that has taken a client from the pool and not put it back. *)
Holds(f) == flow[f].top /\ flow[f].at \in {"entering", "running", "caught", "leaving"}

Entered == {f \in Flows : flow[f].entered /\ ~Settled(f)}

(* One call holds a client at a time. *)
OneHolder ==
    /\ free = Clients \ {txClient}
    /\ \A f \in Flows : Holds(f) =>
          /\ txClient \in Clients /\ flow[f].client = txClient
          /\ tail # << >> /\ Head(tail) = f
    /\ txClient # NoClient => \E f \in Flows : Holds(f)

(* The queue holds calls that have not settled, each once. *)
Lined ==
    /\ \A i \in 1..Len(tail) : flow[tail[i]].top /\ ~Settled(tail[i])
    /\ \A i, j \in 1..Len(tail) : tail[i] = tail[j] => i = j

(* What goes back to the pool is fresh, or replaced. *)
Clean ==
    /\ \A c \in free : session[c] = Fresh
    /\ \A f \in Flows : Holds(f) /\ flow[f].at = "leaving" =>
          flow[f].poisoned \/ session[txClient] \in {Fresh, Dead}

Counts ==
    /\ IsFiniteSet(Flows) /\ depth = Cardinality(Entered)
    /\ \A f \in Flows : /\ flow[f].at \in {"queued", "entering"} => ~flow[f].entered
                        /\ flow[f].at \in {"running", "caught"} => flow[f].entered
                        /\ flow[f].at \in {"entering", "running", "caught"} =>
                              flow[f].client \in Clients

(* A call within a callback is made, and awaited, while that runs. *)
Awaited ==
    \A f \in Flows : Outer[f] # Top /\ ~Settled(f) => flow[Outer[f]].at = "running"

Resting == /\ PgTxAssumption
           /\ DriverTyped /\ OneHolder /\ Lined /\ Clean /\ Counts /\ Awaited

-----------------------------------------------------------------------------
LEMMA FreshIsSession == /\ Fresh \in Sessions /\ ~Fresh.open /\ ~Fresh.dead
                        /\ Dead \in Sessions /\ ~Dead.open /\ Dead.dead
<1>1. << >> \in Saves
  BY DEF Saves
<1> QED
  BY <1>1 DEF Fresh, Ended, Dead, Sessions

LEMMA IdleIsFlowState == Idle \in FlowStates
BY DEF Idle, FlowStates, Ats, Errors

(* Any step of the flow f that only sets its own record. *)
LEMMA FlowSet ==
    ASSUME DriverTyped, NEW f \in Flows, NEW r \in FlowStates,
           flow' = [flow EXCEPT ![f] = r]
    PROVE  /\ flow' \in [Flows -> FlowStates] /\ flow'[f] = r
           /\ \A g \in Flows : g # f =>
                 /\ flow'[g] = flow[g]
                 /\ Settled(g)' <=> Settled(g)
                 /\ Holds(g)' <=> Holds(g)
           /\ Settled(f)' <=> r.at \in {"idle", "done", "failed"}
           /\ Entered' = IF r.entered /\ r.at \notin {"idle", "done", "failed"}
                         THEN Entered \cup {f} ELSE Entered \ {f}
<1>1. /\ flow' \in [Flows -> FlowStates] /\ flow'[f] = r
      /\ \A g \in Flows : g # f => flow'[g] = flow[g]
  BY DEF DriverTyped
<1> QED
  BY <1>1 DEF Settled, Holds, Entered

(* The holder is unique. *)
LEMMA HolderUnique ==
    ASSUME OneHolder, NEW f \in Flows, NEW g \in Flows, Holds(f), Holds(g)
    PROVE  f = g
BY DEF OneHolder

(* The callback of f is done with, one way or another. *)
LEMMA Continues ==
    ASSUME Resting, NEW f \in Flows, NEW r \in FlowStates,
           flow' = [flow EXCEPT ![f] = r],
           flow[f].at \in {"running", "caught"}, r.at \in {"caught", "leaving"},
           \A g \in Inner(f) : Settled(g),
           r.top = flow[f].top, r.client = flow[f].client, r.entered = flow[f].entered,
           session' \in [Clients -> Sessions],
           \A c \in Clients : \/ session'[c] = session[c] \/ session[c].open
                              \/ flow[f].top /\ c = flow[f].client,
           flow[f].top /\ r.at = "leaving" =>
               r.poisoned \/ session'[flow[f].client] \in {Fresh, Dead},
           UNCHANGED <<free, txClient, depth, tail>>
    PROVE  Resting'
<1> USE DEF Resting
<1>1. /\ flow' \in [Flows -> FlowStates] /\ flow'[f] = r
      /\ \A g \in Flows : g # f =>
            /\ flow'[g] = flow[g] /\ (Settled(g)' <=> Settled(g))
            /\ Holds(g)' <=> Holds(g)
      /\ ~Settled(f)' /\ ~Settled(f) /\ (Holds(f)' <=> Holds(f))
      /\ Entered' = Entered
  <2>1. ~Settled(f) /\ flow[f].entered
    BY DEF Settled, Counts
  <2>2. f \in Entered
    BY <2>1 DEF Entered
  <2>3. r.entered /\ r.at \notin {"idle", "done", "failed"} /\ Entered \cup {f} = Entered
    BY <2>1, <2>2
  <2>4. Entered' = Entered
    BY <2>3, FlowSet
  <2>5. Holds(f)' <=> Holds(f)
    <3>1. flow'[f] = r
      BY FlowSet
    <3> QED
      BY <3>1 DEF Holds
  <2> QED
    BY <2>1, <2>3, <2>4, <2>5, FlowSet
<1>2. DriverTyped'
  BY <1>1 DEF DriverTyped
<1>3. OneHolder'
  <2>1. \A g \in Flows : Holds(g)' => Holds(g) /\ flow'[g].client = flow[g].client
    BY <1>1
  <2>2. \A g \in Flows : Holds(g) => Holds(g)'
    BY <1>1
  <2> QED
    BY <2>1, <2>2 DEF OneHolder
<1>4. Lined'
  <2>1. \A g \in Flows : (Settled(g)' <=> Settled(g)) /\ flow'[g].top = flow[g].top
    BY <1>1
  <2>2. \A i \in 1..Len(tail) : tail[i] \in Flows
    BY ElementOfSeq DEF DriverTyped
  <2> QED
    BY <2>1, <2>2 DEF Lined
<1>5. Clean'
  <2>1. \A c \in free : session'[c] = Fresh
    <3>1. \A c \in free : c \in Clients /\ c # txClient /\ session[c] = Fresh /\ ~session[c].open
      BY FreshIsSession DEF OneHolder, Clean
    <3>2. flow[f].top => flow[f].client = txClient
      BY DEF OneHolder, Holds
    <3> QED
      BY <3>1, <3>2
  <2>2. ASSUME NEW g \in Flows, Holds(g)', flow'[g].at = "leaving"
        PROVE  flow'[g].poisoned \/ session'[txClient] \in {Fresh, Dead}
    <3>1. CASE g = f
      BY <1>1, <2>2, <3>1 DEF OneHolder, Holds
    <3>2. CASE g # f
      <4>1. Holds(g) /\ flow[g] = flow'[g] /\ txClient \in Clients
        BY <1>1, <2>2, <3>2 DEF OneHolder
      <4>2. ~flow[f].top
        <5>1. ~Holds(f)
          BY <3>2, <4>1, HolderUnique
        <5> QED
          BY <5>1 DEF Holds
      <4>3. flow[g].poisoned \/ session[txClient] \in {Fresh, Dead}
        BY <2>2, <4>1 DEF Clean
      <4> QED
        BY <4>1, <4>2, <4>3, FreshIsSession
    <3> QED
      BY <3>1, <3>2
  <2> QED
    BY <2>1, <2>2 DEF Clean
<1>6. Counts'
  BY <1>1 DEF Counts
<1>7. Awaited'
  <2>1. \A g \in Flows : Outer[g] # Top /\ ~Settled(g)' => Outer[g] \in Flows /\ Outer[g] # f
    BY <1>1 DEF Inner, PgTxAssumption, Awaited
  <2>2. \A g \in Flows : Outer[g] # Top /\ ~Settled(g)' => flow[Outer[g]].at = "running"
    BY <1>1 DEF Awaited
  <2> QED
    BY <1>1, <2>1, <2>2 DEF Awaited
<1> QED
  BY <1>2, <1>3, <1>4, <1>5, <1>6, <1>7

(* A step of the server's, and of queries that are not one of a flow's.     *)
LEMMA ServerSteps ==
    ASSUME Resting, session' \in [Clients -> Sessions],
           \A c \in Clients : \/ session'[c] = session[c] \/ session[c].open
                              \/ c \notin free /\ session'[c] = Dead,
           UNCHANGED <<free, txClient, depth, tail, flow>>
    PROVE  Resting'
<1> USE DEF Resting
<1>1. \A f \in Flows : (Holds(f)' <=> Holds(f)) /\ (Settled(f)' <=> Settled(f))
  BY DEF Holds, Settled
<1>2. Entered' = Entered
  BY DEF Entered, Settled
<1>3. DriverTyped' /\ OneHolder' /\ Lined' /\ Counts' /\ Awaited'
  <2>1. DriverTyped'
    BY DEF DriverTyped
  <2>2. OneHolder'
    BY <1>1 DEF OneHolder
  <2>3. Lined'
    BY DEF Lined, Settled
  <2>4. Counts'
    BY <1>2 DEF Counts
  <2>5. Awaited'
    BY DEF Awaited, Settled
  <2> QED
    BY <2>1, <2>2, <2>3, <2>4, <2>5
<1>4. Clean'
  <2>1. \A c \in free : session'[c] = Fresh
    BY FreshIsSession DEF OneHolder, Clean
  <2>2. ASSUME NEW f \in Flows, Holds(f), flow[f].at = "leaving"
        PROVE  flow[f].poisoned \/ session'[txClient] \in {Fresh, Dead}
    <3>1. txClient \in Clients
      BY <2>2 DEF OneHolder
    <3>2. flow[f].poisoned \/ session[txClient] \in {Fresh, Dead}
      BY <2>2 DEF Clean
    <3> QED
      BY <3>1, <3>2, FreshIsSession
  <2> QED
    BY <1>1, <2>1, <2>2 DEF Clean
<1> QED
  BY <1>3, <1>4

(* No flow holds a client while the first of the queue has none. *)
LEMMA NoneHolds ==
    ASSUME Resting, NEW f \in Flows, tail # << >>, Head(tail) = f, flow[f].at = "queued"
    PROVE  /\ \A g \in Flows : ~Holds(g)
           /\ txClient = NoClient /\ free = Clients
BY DEF Resting, OneHolder, Holds, PgTxAssumption

(* A flow that has not settled is in the tail only if it is at the place    *)
(* where it queued.                                                         *)
LEMMA TailOfQueue ==
    ASSUME Resting, tail # << >>
    PROVE  /\ Tail(tail) \in Seq(Flows) /\ Len(Tail(tail)) = Len(tail) - 1
           /\ \A i \in 1..Len(Tail(tail)) :
                 /\ i + 1 \in 1..Len(tail) /\ Tail(tail)[i] = tail[i + 1]
                 /\ tail[i + 1] # Head(tail)
           /\ Head(tail) = tail[1] /\ 1 \in 1..Len(tail) /\ Head(tail) \in Flows
<1>1. tail \in Seq(Flows)
  BY DEF Resting, DriverTyped
<1>2. /\ Tail(tail) \in Seq(Flows) /\ Len(Tail(tail)) = Len(tail) - 1
      /\ Len(tail) \in Nat /\ Len(tail) >= 1
      /\ \A i \in 1..Len(Tail(tail)) : Tail(tail)[i] = tail[i + 1]
      /\ Head(tail) = tail[1] /\ Head(tail) \in Flows
  BY <1>1
<1>3. \A i \in 1..Len(Tail(tail)) : i + 1 \in 1..Len(tail) /\ i + 1 # 1
  BY <1>2
<1>4. 1 \in 1..Len(tail)
  BY <1>2
<1>5. \A i, j \in 1..Len(tail) : tail[i] = tail[j] => i = j
  BY DEF Resting, Lined
<1> QED
  BY <1>2, <1>3, <1>4, <1>5

LEMMA Nested ==
    ASSUME Resting, NEW f \in Flows, flow[f].at = "idle",
           Outer[f] # Top => flow[Outer[f]].at = "running", Nests(f),
           UNCHANGED <<free, txClient, depth>>
    PROVE  Resting'
<1> USE DEF Resting
<1> DEFINE c == txClient
           ok == c # NoClient /\ ~session[c].dead /\ session[c].open /\ ~session[c].aborted
           r == [Idle EXCEPT !.at = IF ok THEN "entering" ELSE "leaving", !.client = c,
                             !.sp = depth, !.error = IF ok THEN "none" ELSE "other"]
<1>1. /\ r \in FlowStates /\ r.at \in {"entering", "leaving"} /\ ~r.top /\ ~r.entered
      /\ r.at = "entering" => r.client \in Clients
  BY DEF Idle, FlowStates, Ats, Errors, DriverTyped
<1>2. flow' = [flow EXCEPT ![f] = r]
  BY DEF Nests
<1>3. /\ session' \in [Clients -> Sessions]
      /\ \A d \in Clients : session'[d] = session[d] \/ session[d].open
  <2>1. CASE c = NoClient
    BY <2>1 DEF Nests, DriverTyped
  <2>2. CASE c # NoClient
    <3>1. c \in Clients /\ session[c] \in Sessions
      BY <2>2 DEF DriverTyped
    <3>2. Saved(session[c], depth) \in Sessions
      <4>1. [sp |-> depth, work |-> session[c].work] \in [sp : Nat, work : SUBSET Nat]
        BY <3>1 DEF DriverTyped, Sessions
      <4>2. Append(session[c].saves, [sp |-> depth, work |-> session[c].work]) \in Saves
        BY <3>1, <4>1 DEF Sessions, Saves
      <4> QED
        BY <3>1, <4>2 DEF Saved, Sessions
    <3>3. Aborted(session[c]) \in Sessions /\ (Aborted(session[c]) = session[c] \/ session[c].open)
      BY <3>1 DEF Aborted, Sessions
    <3>4. session' = [session EXCEPT ![c] = IF ok THEN Saved(@, depth) ELSE Aborted(@)]
      BY <2>2 DEF Nests
    <3> QED
      BY <3>1, <3>2, <3>3, <3>4 DEF DriverTyped
  <2> QED
    BY <2>1, <2>2
<1>4. tail' = tail
  BY DEF Nests
<1> HIDE DEF r
<1>5. /\ flow' \in [Flows -> FlowStates] /\ flow'[f] = r
      /\ \A g \in Flows : g # f =>
            /\ flow'[g] = flow[g] /\ (Settled(g)' <=> Settled(g))
            /\ Holds(g)' <=> Holds(g)
      /\ Settled(f) /\ ~Settled(f)' /\ ~Holds(f) /\ ~Holds(f)'
      /\ Entered' = Entered
  <2>1. Settled(f) /\ ~Holds(f) /\ f \notin Entered /\ Entered \ {f} = Entered
    BY DEF Settled, Holds, Entered
  <2>2. flow'[f] = r /\ ~Settled(f)' /\ Entered' = Entered \ {f}
    BY <1>1, <1>2, FlowSet
  <2>3. ~Holds(f)'
    BY <1>1, <2>2 DEF Holds
  <2> QED
    BY <1>1, <1>2, <2>1, <2>2, <2>3, FlowSet
<1>6. DriverTyped'
  BY <1>3, <1>4, <1>5 DEF DriverTyped
<1>7. OneHolder'
  BY <1>4, <1>5 DEF OneHolder
<1>8. Lined'
  <2>1. \A i \in 1..Len(tail) : tail[i] \in Flows /\ tail[i] # f
    BY <1>5, ElementOfSeq DEF DriverTyped, Lined
  <2> QED
    BY <1>4, <1>5, <2>1 DEF Lined
<1>9. Clean'
  <2>1. \A d \in free : session'[d] = Fresh
    BY <1>3, FreshIsSession DEF OneHolder, Clean
  <2>2. ASSUME NEW g \in Flows, Holds(g)', flow'[g].at = "leaving"
        PROVE  flow'[g].poisoned \/ session'[txClient] \in {Fresh, Dead}
    <3>1. Holds(g) /\ flow[g] = flow'[g] /\ txClient \in Clients
      BY <1>5, <2>2 DEF OneHolder
    <3> QED
      BY <1>3, <2>2, <3>1, FreshIsSession DEF Clean
  <2> QED
    BY <2>1, <2>2 DEF Clean
<1>10. Counts'
  BY <1>1, <1>5 DEF Counts
<1>11. Awaited'
  <2>1. \A g \in Flows : Outer[g] # Top /\ ~Settled(g)' =>
           Outer[g] # f /\ Outer[g] \in Flows /\ flow[Outer[g]].at = "running"
    BY <1>5 DEF Awaited, PgTxAssumption
  <2> QED
    BY <1>5, <2>1 DEF Awaited
<1> QED
  BY <1>6, <1>7, <1>8, <1>9, <1>10, <1>11

LEMMA QueuesUp ==
    ASSUME Resting, NEW f \in Flows, flow[f].at = "idle",
           Outer[f] # Top => flow[Outer[f]].at = "running", Queues(f),
           UNCHANGED <<free, txClient, depth>>
    PROVE  Resting'
<1> USE DEF Resting
<1> DEFINE r == [Idle EXCEPT !.at = "queued", !.top = TRUE]
<1>1. r \in FlowStates /\ r.at = "queued" /\ r.top /\ ~r.entered
  BY DEF Idle, FlowStates, Ats, Errors
<1>2. flow' = [flow EXCEPT ![f] = r] /\ tail' = Append(tail, f) /\ session' = session
  BY DEF Queues
<1> HIDE DEF r
<1>3. /\ flow' \in [Flows -> FlowStates] /\ flow'[f] = r
      /\ \A g \in Flows : g # f =>
            /\ flow'[g] = flow[g] /\ (Settled(g)' <=> Settled(g))
            /\ Holds(g)' <=> Holds(g)
      /\ Settled(f) /\ ~Settled(f)' /\ ~Holds(f) /\ ~Holds(f)'
      /\ Entered' = Entered
  <2>1. Settled(f) /\ ~Holds(f) /\ f \notin Entered /\ Entered \ {f} = Entered
    BY DEF Settled, Holds, Entered
  <2>2. flow'[f] = r /\ ~Settled(f)' /\ Entered' = Entered \ {f}
    BY <1>1, <1>2, FlowSet
  <2>3. ~Holds(f)'
    BY <1>1, <2>2 DEF Holds
  <2> QED
    BY <1>1, <1>2, <2>1, <2>2, <2>3, FlowSet
<1>4. /\ tail' \in Seq(Flows) /\ Len(tail') = Len(tail) + 1 /\ Len(tail) \in Nat
      /\ \A i \in 1..Len(tail) : tail'[i] = tail[i] /\ tail[i] \in Flows /\ tail[i] # f
      /\ tail'[Len(tail) + 1] = f
      /\ tail # << >> => tail' # << >> /\ Head(tail') = Head(tail)
  <2>1. tail \in Seq(Flows)
    BY DEF DriverTyped
  <2>2. \A i \in 1..Len(tail) : tail[i] \in Flows /\ tail[i] # f
    BY <1>3, <2>1, ElementOfSeq DEF Lined
  <2> QED
    BY <1>2, <2>1, <2>2, AppendProperties
<1>5. DriverTyped'
  BY <1>2, <1>3, <1>4 DEF DriverTyped
<1>6. OneHolder'
  BY <1>3, <1>4 DEF OneHolder
<1>7. Lined'
  <2>1. \A i \in 1..Len(tail') : i \in 1..Len(tail) \/ i = Len(tail) + 1
    BY <1>4
  <2>2. flow'[f].top /\ ~Settled(f)'
    BY <1>1, <1>3
  <2> QED
    BY <1>3, <1>4, <2>1, <2>2 DEF Lined
<1>8. Clean'
  BY <1>2, <1>3 DEF Clean
<1>9. Counts'
  BY <1>1, <1>3 DEF Counts
<1>10. Awaited'
  <2>1. \A g \in Flows : Outer[g] # Top /\ ~Settled(g)' =>
           Outer[g] # f /\ Outer[g] \in Flows /\ flow[Outer[g]].at = "running"
    BY <1>3 DEF Awaited, PgTxAssumption
  <2> QED
    BY <1>3, <2>1 DEF Awaited
<1> QED
  BY <1>5, <1>6, <1>7, <1>8, <1>9, <1>10

LEMMA Connected ==
    ASSUME Resting, NEW f \in Flows, Connects(f)
    PROVE  Resting'
<1> USE DEF Resting
<1>1. PICK c \in free :
         /\ free' = free \ {c} /\ txClient' = c
         /\ session' = [session EXCEPT ![c] = Begun(@)]
         /\ flow' = [flow EXCEPT ![f].at = "entering", ![f].client = c, ![f].sp = 0]
  BY DEF Connects
<1> DEFINE r == [flow[f] EXCEPT !.at = "entering", !.client = c, !.sp = 0]
<1>2. /\ tail # << >> /\ Head(tail) = f /\ flow[f].at = "queued"
      /\ UNCHANGED <<depth, tail>>
  BY DEF Connects
<1>3. /\ \A g \in Flows : ~Holds(g)
      /\ txClient = NoClient /\ free = Clients /\ c \in Clients
  BY <1>2, NoneHolds
<1>4. flow[f].top /\ ~Settled(f) /\ ~flow[f].entered
  BY <1>2, TailOfQueue DEF Lined, Counts
<1>5. r \in FlowStates /\ r.at = "entering" /\ r.client = c /\ r.top /\ ~r.entered
  BY <1>3, <1>4 DEF FlowStates, Ats, DriverTyped
<1>6. flow' = [flow EXCEPT ![f] = r]
  BY <1>1
<1> HIDE DEF r
<1>7. /\ flow' \in [Flows -> FlowStates] /\ flow'[f] = r
      /\ \A g \in Flows : g # f => flow'[g] = flow[g] /\ ~Holds(g)'
      /\ \A g \in Flows : Settled(g)' <=> Settled(g)
      /\ Entered' = Entered
  <2>1. f \notin Entered /\ Entered \ {f} = Entered
    BY <1>4 DEF Entered
  <2>2. ~Settled(f)' /\ Entered' = Entered \ {f}
    BY <1>5, <1>6, FlowSet
  <2> QED
    BY <1>3, <1>4, <1>5, <1>6, <2>1, <2>2, FlowSet
<1>8. DriverTyped'
  <2>1. Begun(session[c]) \in Sessions
    BY <1>3 DEF DriverTyped, Sessions, Begun
  <2> QED
    BY <1>1, <1>2, <1>3, <1>7, <2>1 DEF DriverTyped
<1>9. OneHolder'
  <2>1. Holds(f)'
    BY <1>5, <1>7 DEF Holds
  <2> QED
    BY <1>1, <1>2, <1>3, <1>5, <1>7, <2>1 DEF OneHolder
<1>10. Lined'
  <2>1. \A i \in 1..Len(tail) : tail[i] \in Flows
    BY ElementOfSeq DEF DriverTyped
  <2>2. \A g \in Flows : flow[g].top => flow'[g].top
    BY <1>4, <1>5, <1>7
  <2> QED
    BY <1>2, <1>7, <2>1, <2>2 DEF Lined
<1>11. Clean'
  <2>1. \A d \in free' : session'[d] = Fresh
    BY <1>1, <1>3 DEF Clean, DriverTyped
  <2> QED
    BY <1>5, <1>7, <2>1 DEF Clean
<1>12. Counts'
  BY <1>2, <1>3, <1>5, <1>7 DEF Counts
<1>13. Awaited'
  <2>1. \A g \in Flows : Outer[g] # Top /\ ~Settled(g)' =>
           Outer[g] # f /\ Outer[g] \in Flows /\ flow[Outer[g]].at = "running"
    BY <1>2, <1>7 DEF Awaited, PgTxAssumption
  <2> QED
    BY <1>7, <2>1 DEF Awaited
<1> QED
  BY <1>8, <1>9, <1>10, <1>11, <1>12, <1>13

LEMMA Entering ==
    ASSUME Resting, NEW f \in Flows, Enters(f)
    PROVE  Resting'
<1> USE DEF Resting
<1> DEFINE dead == session[flow[f].client].dead
           r == IF dead THEN [flow[f] EXCEPT !.at = "leaving", !.poisoned = TRUE, !.error = "other"]
                ELSE [flow[f] EXCEPT !.at = "running", !.entered = TRUE]
<1>1. /\ flow[f].at = "entering" /\ UNCHANGED <<session, free, txClient, tail>>
      /\ depth' = IF dead THEN depth ELSE depth + 1
  BY DEF Enters
<1>2. ~flow[f].entered /\ flow[f].client \in Clients /\ ~Settled(f) /\ f \notin Entered
  BY <1>1 DEF Counts, Settled, Entered
<1>3. /\ r \in FlowStates /\ r.client = flow[f].client /\ r.top = flow[f].top
      /\ dead => r.at = "leaving" /\ r.poisoned /\ ~r.entered
      /\ ~dead => r.at = "running" /\ r.entered
  BY <1>2 DEF FlowStates, Ats, Errors, DriverTyped
<1>4. flow' = [flow EXCEPT ![f] = r]
  BY DEF Enters
<1> HIDE DEF r, dead
<1>5. /\ flow' \in [Flows -> FlowStates] /\ flow'[f] = r
      /\ \A g \in Flows : g # f => flow'[g] = flow[g]
      /\ \A g \in Flows : (Settled(g)' <=> Settled(g)) /\ (Holds(g)' <=> Holds(g))
      /\ Entered' = IF dead THEN Entered ELSE Entered \cup {f}
  <2>1. /\ flow'[f] = r /\ ~Settled(f)'
        /\ Entered' = IF r.entered THEN Entered \cup {f} ELSE Entered \ {f}
    BY <1>3, <1>4, FlowSet
  <2>2. Holds(f)' <=> Holds(f)
    BY <1>1, <1>3, <2>1 DEF Holds
  <2>3. Entered \ {f} = Entered
    BY <1>2
  <2> QED
    BY <1>2, <1>3, <1>4, <2>1, <2>2, <2>3, FlowSet
<1>6. DriverTyped'
  BY <1>1, <1>5 DEF DriverTyped
<1>7. OneHolder'
  BY <1>1, <1>3, <1>5 DEF OneHolder
<1>8. Lined'
  <2>1. \A i \in 1..Len(tail) : tail[i] \in Flows
    BY ElementOfSeq DEF DriverTyped
  <2>2. \A g \in Flows : flow'[g].top = flow[g].top
    <3>1. r.top = flow[f].top
      BY <1>3
    <3> QED
      BY <1>5, <3>1
  <2> QED
    BY <1>1, <1>5, <2>1, <2>2 DEF Lined
<1>9. Clean'
  BY <1>1, <1>3, <1>5 DEF Clean
<1>10. Counts'
  <2>1. IsFiniteSet(Entered)
    BY FS_Subset DEF Counts, Entered
  <2>2. Cardinality(Entered \cup {f}) = Cardinality(Entered) + 1
    BY <1>2, <2>1, FS_AddElement
  <2>3. depth' = Cardinality(Entered')
    BY <1>1, <1>5, <2>2 DEF Counts
  <2> QED
    BY <1>2, <1>3, <1>5, <2>3 DEF Counts
<1>11. Awaited'
  <2>1. \A g \in Flows : Outer[g] # Top /\ ~Settled(g)' =>
           Outer[g] # f /\ Outer[g] \in Flows /\ flow[Outer[g]].at = "running"
    BY <1>1, <1>5 DEF Awaited, PgTxAssumption
  <2> QED
    BY <1>5, <2>1 DEF Awaited
<1> QED
  BY <1>6, <1>7, <1>8, <1>9, <1>10, <1>11

(* The call f settles, or queues once more, with its own calls reset.       *)
LEMMA Settling ==
    ASSUME Resting, NEW f \in Flows, flow[f].at = "leaving",
           flow' \in [Flows -> FlowStates],
           flow'[f].at \in {"done", "failed", "queued"},
           flow'[f].at = "queued" => flow[f].top /\ flow'[f].top /\ ~flow'[f].entered,
           \A g \in Flows : g # f =>
               flow'[g] = flow[g] \/ (Settled(g) /\ flow'[g] = Idle),
           tail' = IF flow[f].top /\ flow'[f].at # "queued" THEN Tail(tail) ELSE tail,
           Puts(f)
    PROVE  Resting'
<1> USE DEF Resting
<1>1. /\ \A g \in Flows : g # f => (Settled(g)' <=> Settled(g)) /\ (Holds(g)' <=> Holds(g))
      /\ Settled(f)' <=> flow'[f].at # "queued"
      /\ ~Settled(f) /\ ~Holds(f)'
      /\ Entered' = Entered \ {f}
  <2>1. ASSUME NEW g \in Flows, g # f
        PROVE  /\ Settled(g)' <=> Settled(g)
               /\ Holds(g)' <=> Holds(g)
               /\ g \in Entered' <=> g \in Entered
    BY <2>1 DEF Settled, Holds, Idle, Entered
  <2>2. Settled(f)' <=> flow'[f].at # "queued"
    BY DEF Settled
  <2>3. ~Settled(f) /\ ~Holds(f)'
    BY DEF Settled, Holds
  <2>4. f \notin Entered'
    BY <2>2 DEF Entered
  <2>5. Entered \subseteq Flows /\ Entered' \subseteq Flows
    BY DEF Entered
  <2> QED
    BY <2>1, <2>2, <2>3, <2>4, <2>5
<1>2. depth' = IF flow[f].entered THEN depth - 1 ELSE depth
  BY DEF Puts
<1>3. depth' = Cardinality(Entered') /\ depth' \in Nat
  <2>1. IsFiniteSet(Entered)
    BY FS_Subset DEF Counts, Entered
  <2>2. IsFiniteSet(Entered') /\ Cardinality(Entered') \in Nat
    BY <1>1, <2>1, FS_RemoveElement, FS_CardinalityType
  <2>3. CASE flow[f].entered
    <3>1. f \in Entered
      BY <1>1, <2>3 DEF Entered
    <3>2. Cardinality(Entered \ {f}) = Cardinality(Entered) - 1
      BY <2>1, <3>1, FS_RemoveElement
    <3> QED
      BY <1>1, <1>2, <2>2, <2>3, <3>2 DEF Counts
  <2>4. CASE ~flow[f].entered
    <3>1. Entered \ {f} = Entered
      BY <2>4 DEF Entered
    <3> QED
      BY <1>1, <1>2, <2>2, <2>4, <3>1 DEF Counts
  <2> QED
    BY <2>3, <2>4
<1>4. Counts' /\ Awaited'
  <2>1. Counts'
    BY <1>1, <1>3 DEF Counts, Idle
  <2>2. ASSUME NEW g \in Flows, Outer[g] # Top, ~Settled(g)'
        PROVE  flow'[Outer[g]].at = "running"
    <3>1. Outer[g] \in Flows
      BY <2>2 DEF PgTxAssumption
    <3>2. flow[Outer[g]].at = "running"
      BY <1>1, <2>2 DEF Awaited
    <3>3. Outer[g] # f /\ ~Settled(Outer[g])
      BY <3>2 DEF Settled
    <3> QED
      BY <3>1, <3>2, <3>3
  <2> QED
    BY <2>1, <2>2 DEF Awaited
<1>5. CASE flow[f].top
  <2> DEFINE c == flow[f].client
  <2>1. /\ Holds(f) /\ c = txClient /\ c \in Clients /\ tail # << >> /\ Head(tail) = f
        /\ \A g \in Flows : ~Holds(g)'
    <3>1. Holds(f)
      BY <1>5 DEF Holds
    <3> QED
      BY <1>1, <3>1 DEF OneHolder
  <2>2. /\ txClient' = NoClient /\ free' = Clients
        /\ session' = IF flow[f].poisoned \/ session[c].dead
                      THEN [session EXCEPT ![c] = Fresh] ELSE session
    BY <1>5, <2>1 DEF Puts, GivesBack, OneHolder
  <2>3. \A d \in Clients : session'[d] = Fresh
    <3>1. \A d \in Clients : d # c => session'[d] = Fresh
      BY <2>1, <2>2 DEF OneHolder, Clean, DriverTyped
    <3>2. session'[c] = Fresh
      <4>1. flow[f].poisoned \/ session[c] \in {Fresh, Dead}
        BY <2>1 DEF Clean
      <4>2. Dead.dead
        BY FreshIsSession DEF Dead, Ended, Fresh
      <4> QED
        BY <2>1, <2>2, <4>1, <4>2 DEF DriverTyped
    <3> QED
      BY <3>1, <3>2
  <2>4. session' \in [Clients -> Sessions]
    BY <2>1, <2>2, FreshIsSession DEF DriverTyped
  <2>5. tail' \in Seq(Flows) /\ Lined'
    <3>1. \A g \in Flows : g # f /\ flow[g].top /\ ~Settled(g) => flow'[g].top /\ ~Settled(g)'
      BY <1>1
    <3>2. \A i \in 1..Len(tail) : tail[i] \in Flows
      BY ElementOfSeq DEF DriverTyped
    <3>3. CASE flow'[f].at = "queued"
      <4>1. \A g \in Flows : flow[g].top /\ ~Settled(g) => flow'[g].top /\ ~Settled(g)'
        BY <1>1, <3>1, <3>3
      <4>2. tail' = tail
        BY <3>3
      <4> QED
        BY <3>2, <4>1, <4>2 DEF Lined, DriverTyped, Settled
    <3>4. CASE flow'[f].at # "queued"
      <4>1. tail' = Tail(tail)
        BY <1>5, <3>4
      <4>2. \A i \in 1..Len(tail') :
               /\ i + 1 \in 1..Len(tail) /\ tail'[i] = tail[i + 1] /\ tail'[i] # f
        BY <2>1, <4>1, TailOfQueue
      <4>3. \A i \in 1..Len(tail') : flow'[tail'[i]].top /\ ~Settled(tail[i])'
        <5> TAKE i \in 1..Len(tail')
        <5>1. /\ tail'[i] \in Flows /\ tail'[i] # f
              /\ flow[tail[i + 1]].top /\ ~Settled(tail[i + 1])
          BY <3>2, <4>2, ZenonT(60) DEF Lined
        <5>2. \E g \in Flows : /\ g = tail'[i] /\ g # f /\ flow[g].top /\ ~Settled(g)
          BY <4>2, <5>1
        <5> QED
          BY <3>1, <5>2 DEF Settled
      <4>4. \A i, j \in 1..Len(tail') : tail'[i] = tail'[j] => i = j
        <5> TAKE i, j \in 1..Len(tail')
        <5> HAVE tail'[i] = tail'[j]
        <5>1. i + 1 = j + 1
          BY <4>2 DEF Lined
        <5> QED
          BY <5>1
      <4>5. tail' \in Seq(Flows)
        BY <2>1, <4>1, TailOfQueue
      <4> QED
        BY <4>3, <4>4, <4>5 DEF Lined
    <3> QED
      BY <3>3, <3>4
  <2>6. DriverTyped'
    BY <1>3, <2>2, <2>4, <2>5 DEF DriverTyped
  <2>7. OneHolder'
    BY <2>1, <2>2 DEF OneHolder, PgTxAssumption
  <2>8. Clean'
    BY <2>1, <2>2, <2>3 DEF Clean
  <2> QED
    BY <1>4, <2>5, <2>6, <2>7, <2>8
<1>6. CASE ~flow[f].top
  <2>1. UNCHANGED <<txClient, free, session, tail>> /\ ~Holds(f) /\ flow'[f].at # "queued"
    BY <1>6 DEF Puts, GivesBack, Holds
  <2>2. \A g \in Flows : Holds(g)' => g # f /\ Holds(g) /\ flow'[g] = flow[g]
    BY <1>1 DEF Holds, Settled
  <2>3. \A g \in Flows : Holds(g) => Holds(g)'
    BY <1>1, <2>1
  <2>4. DriverTyped'
    BY <1>3, <2>1 DEF DriverTyped
  <2>5. OneHolder'
    BY <2>1, <2>2, <2>3 DEF OneHolder
  <2>6. Lined'
    <3>1. \A i \in 1..Len(tail) : tail[i] \in Flows
      BY ElementOfSeq DEF DriverTyped
    <3>2. \A g \in Flows : flow[g].top /\ ~Settled(g) => flow'[g].top /\ ~Settled(g)'
      BY <1>1, <1>6
    <3> QED
      BY <2>1, <3>1, <3>2 DEF Lined
  <2>7. Clean'
    BY <2>1, <2>2 DEF Clean
  <2> QED
    BY <1>4, <2>4, <2>5, <2>6, <2>7
<1> QED
  BY <1>5, <1>6

-----------------------------------------------------------------------------
LEMMA BoundedMax ==
    ASSUME NEW S, NEW b \in Nat, S \subseteq 0..b, 0 \in S
    PROVE  Max(S) \in S /\ \A x \in S : x <= Max(S)
<1> DEFINE T == {b - x : x \in S}
<1>1. T \subseteq Nat /\ T # {}
  <2>1. \A x \in S : b - x \in Nat
    OBVIOUS
  <2> QED
    BY <2>1
<1>2. PICK t \in T : \A u \in T : ~(<<u, t>> \in OpToRel(<, Nat))
  BY <1>1, NatLessThanWellFounded, WFMin
<1>3. PICK m \in S : t = b - m
  OBVIOUS
<1>4. \A x \in S : m >= x
  <2> TAKE x \in S
  <2>1. b - x \in T /\ ~(b - x < t)
    BY <1>1, <1>2 DEF OpToRel
  <2> QED
    BY <1>3, <2>1
<1> QED
  BY <1>4 DEF Max

(* The last savepoint of a name. *)
LEMMA LastSaveFound ==
    ASSUME NEW s \in Sessions, NEW sp
    PROVE  /\ LastSave(s, sp) \in 0..Len(s.saves)
           /\ \A i \in 1..Len(s.saves) : s.saves[i].sp = sp => i <= LastSave(s, sp)
           /\ LastSave(s, sp) > 0 => s.saves[LastSave(s, sp)].sp = sp
           /\ s.saves \in Seq([sp : Nat, work : SUBSET Nat]) /\ Len(s.saves) \in Nat
<1> DEFINE here == {0} \cup {i \in DOMAIN s.saves : s.saves[i].sp = sp}
<1>1. s.saves \in Seq([sp : Nat, work : SUBSET Nat]) /\ DOMAIN s.saves = 1..Len(s.saves)
      /\ Len(s.saves) \in Nat
  BY DEF Sessions, Saves
<1>2. here \subseteq 0..Len(s.saves) /\ 0 \in here
  BY <1>1
<1>3. Max(here) \in here /\ \A i \in here : i <= Max(here)
  <2> HIDE DEF here
  <2> QED
    BY <1>1, <1>2, BoundedMax
<1> QED
  BY <1>1, <1>2, <1>3 DEF LastSave

(* What the server makes of a session is one. *)
LEMMA StaysSession ==
    ASSUME NEW s \in Sessions, NEW sp \in Nat
    PROVE  /\ Aborted(s) \in Sessions /\ (Aborted(s) = s \/ s.open)
           /\ Has(s, sp) => /\ Released(s, sp) \in Sessions
                            /\ RolledBackTo(s, sp) \in Sessions
<1>1. Aborted(s) \in Sessions /\ (Aborted(s) = s \/ s.open)
  BY DEF Aborted, Sessions
<1>2. ASSUME Has(s, sp)
      PROVE  Released(s, sp) \in Sessions /\ RolledBackTo(s, sp) \in Sessions
  <2> DEFINE last == LastSave(s, sp)
  <2>1. /\ last \in 1..Len(s.saves) /\ Len(s.saves) \in Nat
        /\ s.saves \in Seq([sp : Nat, work : SUBSET Nat])
    BY <1>2, LastSaveFound DEF Has
  <2> HIDE DEF last
  <2>2. /\ \A i \in 1..(last - 1) : s.saves[i] \in [sp : Nat, work : SUBSET Nat]
        /\ \A i \in 1..last : s.saves[i] \in [sp : Nat, work : SUBSET Nat]
    <3>1. \A i \in 1..Len(s.saves) : s.saves[i] \in [sp : Nat, work : SUBSET Nat]
      BY <2>1, ElementOfSeq
    <3>2. \A i \in 1..last : i \in 1..Len(s.saves)
      BY <2>1
    <3>3. \A i \in 1..(last - 1) : i \in 1..Len(s.saves)
      BY <2>1
    <3> QED
      BY <3>1, <3>2, <3>3
  <2>3. SubSeq(s.saves, 1, last - 1) \in Saves /\ SubSeq(s.saves, 1, last) \in Saves
    BY <2>1, <2>2, SubSeqProperties DEF Saves
  <2>4. s.saves[last].work \in SUBSET Nat
    BY <2>1, <2>2
  <2> QED
    BY <2>3, <2>4 DEF Released, RolledBackTo, Sessions, last
<1> QED
  BY <1>1, <1>2

LEMMA RestingInit ==
    ASSUME PgTxAssumption, PgTxInit
    PROVE  Resting
<1>1. /\ session = [c \in Clients |-> Fresh] /\ free = Clients /\ txClient = NoClient
      /\ depth = 0 /\ tail = << >> /\ flow = [f \in Flows |-> Idle]
  BY DEF PgTxInit
<1>2. \A f \in Flows : flow[f] = Idle /\ Settled(f) /\ ~Holds(f)
  BY <1>1 DEF Settled, Holds, Idle
<1>3. DriverTyped
  BY <1>1, FreshIsSession, IdleIsFlowState DEF DriverTyped
<1>4. OneHolder
  BY <1>1, <1>2 DEF OneHolder, PgTxAssumption
<1>5. Lined
  BY <1>1 DEF Lined
<1>6. Clean
  BY <1>1, <1>2 DEF Clean
<1>7. Counts
  <2>1. Entered = {}
    BY <1>2 DEF Entered
  <2> QED
    BY <1>1, <1>2, <2>1, FS_EmptySet DEF Counts, PgTxAssumption, Idle
<1>8. Awaited
  BY <1>2 DEF Awaited
<1> QED
  BY <1>3, <1>4, <1>5, <1>6, <1>7, <1>8 DEF Resting

(* The steps of the callback's end: what it leaves of the client. *)
LEMMA CallbackEnds ==
    ASSUME Resting, NEW f \in Flows,
           Throws(f) \/ Commits(f) \/ CommitFails(f) \/ Releases(f) \/ RollsBack(f)
           \/ WriteFails(f)
    PROVE  Resting'
<1> DEFINE c == flow[f].client
<1>1. /\ flow[f].at \in {"running", "caught"} /\ flow[f] \in FlowStates
      /\ \A g \in Inner(f) : Settled(g)
  <2>1. \/ flow[f].at = "running" /\ (\A g \in Inner(f) : Settled(g))
        \/ flow[f].at = "caught"
    BY DEF Throws, Commits, CommitFails, Releases, RollsBack, WriteFails, Runs
  <2>2. flow[f].at = "caught" => \A g \in Inner(f) : Settled(g)
    BY DEF Resting, Awaited, Inner, PgTxAssumption
  <2> QED
    BY <2>1, <2>2 DEF Resting, DriverTyped
<1>2. c \in Clients /\ session[c] \in Sessions /\ flow[f].sp \in Nat
  BY <1>1 DEF Resting, Counts, DriverTyped, FlowStates
<1>3. session \in [Clients -> Sessions] /\ flow \in [Flows -> FlowStates]
  BY DEF Resting, DriverTyped
<1>4. ASSUME NEW error \in Errors
      PROVE  LET r == [flow[f] EXCEPT !.at = "caught", !.error = error]
             IN r \in FlowStates /\ r.at = "caught" /\ r.top = flow[f].top
                /\ r.client = flow[f].client /\ r.entered = flow[f].entered
                /\ Catches(f, error) = [flow EXCEPT ![f] = r]
  BY <1>1, <1>3 DEF FlowStates, Ats, Catches
<1>5. ASSUME NEW p \in BOOLEAN
      PROVE  LET r == [flow[f] EXCEPT !.at = "leaving", !.poisoned = p]
             IN r \in FlowStates /\ r.at = "leaving" /\ r.top = flow[f].top /\ r.poisoned = p
                /\ r.client = flow[f].client /\ r.entered = flow[f].entered
                /\ [flow EXCEPT ![f].at = "leaving", ![f].poisoned = p]
                       = [flow EXCEPT ![f] = r]
  BY <1>1, <1>3 DEF FlowStates, Ats
<1>6. LET r == [flow[f] EXCEPT !.at = "leaving"]
      IN r \in FlowStates /\ r.at = "leaving" /\ r.top = flow[f].top
         /\ r.client = flow[f].client /\ r.entered = flow[f].entered
         /\ Goes(f, "leaving") = [flow EXCEPT ![f] = r]
  BY <1>1, <1>3 DEF FlowStates, Ats, Goes
<1>7. /\ Aborted(session[c]) \in Sessions
      /\ Aborted(session[c]) = session[c] \/ session[c].open
  BY <1>2, StaysSession
(* A flow that catches an error. *)
<1>8. ASSUME NEW error \in Errors, flow' = Catches(f, error),
             session' \in [Clients -> Sessions],
             \A d \in Clients : session'[d] # session[d] /\ ~session[d].open => flow[f].top /\ d = c,
             UNCHANGED <<free, txClient, depth, tail>>
      PROVE  Resting'
  <2> DEFINE r == [flow[f] EXCEPT !.at = "caught", !.error = error]
  <2>1. r \in FlowStates /\ r.at = "caught" /\ r.top = flow[f].top
        /\ r.client = flow[f].client /\ r.entered = flow[f].entered
        /\ flow' = [flow EXCEPT ![f] = r]
    BY <1>4, <1>8
  <2> HIDE DEF r
  <2> QED
    BY <1>1, <1>8, <2>1, Continues
<1>9. CASE Throws(f)
  BY <1>3, <1>8, <1>9 DEF Throws, Errors
<1>10. CASE Commits(f)
  <2>1. CASE session[c].dead
    BY <1>3, <1>8, <1>10, <2>1 DEF Commits, Errors
  <2>2. CASE ~session[c].dead
    <3> DEFINE r == [flow[f] EXCEPT !.at = "leaving"]
    <3>1. r \in FlowStates /\ r.at = "leaving" /\ r.top = flow[f].top
          /\ r.client = flow[f].client /\ r.entered = flow[f].entered
          /\ flow' = [flow EXCEPT ![f] = r]
          /\ flow[f].top /\ session' = [session EXCEPT ![c] = Fresh]
          /\ UNCHANGED <<free, txClient, depth, tail>>
      BY <1>6, <1>10, <2>2 DEF Commits, Ended
    <3> HIDE DEF r
    <3>2. /\ session' \in [Clients -> Sessions] /\ session'[c] = Fresh
          /\ \A d \in Clients : d # c => session'[d] = session[d]
      BY <1>2, <1>3, <3>1, FreshIsSession
    <3> QED
      BY <1>1, <3>1, <3>2, Continues
  <2> QED
    BY <2>1, <2>2
<1>11. CASE CommitFails(f)
  <2>1. PICK error \in {"transient", "other"}, s \in {Fresh, Dead} :
           flow' = Catches(f, error) /\ session' = [session EXCEPT ![c] = s]
    BY <1>11 DEF CommitFails, Dead, Ended
  <2>2. /\ session' \in [Clients -> Sessions] /\ flow[f].top
        /\ \A d \in Clients : d # c => session'[d] = session[d]
        /\ UNCHANGED <<free, txClient, depth, tail>>
    BY <1>2, <1>3, <1>11, <2>1, FreshIsSession DEF CommitFails
  <2> QED
    BY <1>8, <2>1, <2>2 DEF Errors
<1>12. CASE Releases(f)
  <2> DEFINE ok == Has(session[c], flow[f].sp) /\ ~session[c].aborted
  <2>1. /\ session' = [session EXCEPT ![c] = IF ok THEN Released(@, flow[f].sp) ELSE Aborted(@)]
        /\ flow' = IF ok THEN Goes(f, "leaving") ELSE Catches(f, "other")
        /\ ~flow[f].top /\ UNCHANGED <<free, txClient, depth, tail>>
    BY <1>12 DEF Releases
  <2>2. ok => Released(session[c], flow[f].sp) \in Sessions /\ session[c].open
    BY <1>2, StaysSession DEF Has
  <2> HIDE DEF ok
  <2>3. /\ session' \in [Clients -> Sessions]
        /\ \A d \in Clients : session'[d] = session[d] \/ session[d].open
    BY <1>2, <1>3, <1>7, <2>1, <2>2
  <2>4. CASE ~ok
    BY <1>8, <2>1, <2>3, <2>4 DEF Errors
  <2>5. CASE ok
    <3> DEFINE r == [flow[f] EXCEPT !.at = "leaving"]
    <3>1. r \in FlowStates /\ r.at = "leaving" /\ r.top = flow[f].top
          /\ r.client = flow[f].client /\ r.entered = flow[f].entered
          /\ flow' = [flow EXCEPT ![f] = r]
      BY <1>6, <2>1, <2>5
    <3> HIDE DEF r
    <3> QED
      BY <1>1, <2>1, <2>3, <3>1, Continues
  <2> QED
    BY <2>4, <2>5
<1>13. CASE RollsBack(f)
  <2> DEFINE ok == IF flow[f].top THEN ~session[c].dead ELSE Has(session[c], flow[f].sp)
             s == IF ~ok THEN Aborted(session[c])
                  ELSE IF flow[f].top THEN Ended ELSE RolledBackTo(session[c], flow[f].sp)
             r == [flow[f] EXCEPT !.at = "leaving", !.poisoned = ~ok]
  <2>2. /\ session' = [session EXCEPT ![c] = s]
        /\ flow' = [flow EXCEPT ![f].at = "leaving", ![f].poisoned = ~ok]
        /\ UNCHANGED <<free, txClient, depth, tail>>
    BY <1>13 DEF RollsBack
  <2>3. /\ s \in Sessions
        /\ s = session[c] \/ session[c].open \/ flow[f].top
        /\ (ok /\ flow[f].top) => s = Fresh
    BY <1>2, <1>7, StaysSession, FreshIsSession DEF Has, Ended
  <2>4. r \in FlowStates /\ r.at = "leaving" /\ r.top = flow[f].top /\ r.poisoned = ~ok
        /\ r.client = flow[f].client /\ r.entered = flow[f].entered
        /\ flow' = [flow EXCEPT ![f] = r]
    <3> HIDE DEF ok
    <3>1. (~ok) \in BOOLEAN
      OBVIOUS
    <3> QED
      BY <1>5, <2>2, <3>1
  <2> HIDE DEF ok, s, r
  <2>5. /\ session' \in [Clients -> Sessions] /\ session'[c] = s
        /\ \A d \in Clients : session'[d] # session[d] /\ ~session[d].open => flow[f].top /\ d = c
    BY <1>2, <1>3, <2>2, <2>3
  <2>6. flow[f].top /\ r.at = "leaving" => r.poisoned \/ session'[flow[f].client] \in {Fresh, Dead}
    BY <2>3, <2>4, <2>5
  <2> QED
    BY <1>1, <2>2, <2>4, <2>5, <2>6, Continues
<1>14. CASE WriteFails(f)
  <2>1. PICK error \in Errors : flow' = Catches(f, error)
    BY <1>14 DEF WriteFails, Errors
  <2>2. /\ session' = IF txClient = NoClient THEN session
                      ELSE [session EXCEPT ![txClient] = Aborted(@)]
        /\ UNCHANGED <<free, txClient, depth, tail>>
    BY <1>14 DEF WriteFails
  <2>3. txClient # NoClient =>
           /\ txClient \in Clients /\ Aborted(session[txClient]) \in Sessions
           /\ Aborted(session[txClient]) = session[txClient] \/ session[txClient].open
    <3>1. txClient # NoClient => txClient \in Clients /\ session[txClient] \in Sessions
      BY DEF Resting, DriverTyped
    <3>2. 0 \in Nat
      OBVIOUS
    <3> QED
      BY <3>1, <3>2, StaysSession
  <2>4. /\ session' \in [Clients -> Sessions]
        /\ \A d \in Clients : session'[d] = session[d] \/ session[d].open
    BY <1>3, <2>2, <2>3
  <2> QED
    BY <1>8, <2>1, <2>2, <2>4
<1> QED
  BY <1>9, <1>10, <1>11, <1>12, <1>13, <1>14

LEMMA CallSettles ==
    ASSUME Resting, NEW f \in Flows, Succeeds(f) \/ Fails(f) \/ Retries(f)
    PROVE  Resting'
<1>1. /\ flow[f].at = "leaving" /\ Puts(f) /\ flow[f] \in FlowStates
      /\ flow \in [Flows -> FlowStates]
  BY DEF Succeeds, Fails, Retries, Resting, DriverTyped
<1>2. CASE Succeeds(f) \/ Fails(f)
  <2>1. PICK step \in {"done", "failed"} : flow' = Goes(f, step)
    BY <1>2 DEF Succeeds, Fails
  <2>2. /\ flow' \in [Flows -> FlowStates] /\ flow'[f].at = step
        /\ \A g \in Flows : g # f => flow'[g] = flow[g]
    BY <1>1, <2>1 DEF Goes, FlowStates, Ats
  <2>3. tail' = IF flow[f].top THEN Tail(tail) ELSE tail
    BY <1>2 DEF Succeeds, Fails, LeavesQueue
  <2> QED
    BY <1>1, <2>2, <2>3, Settling
<1>3. CASE Retries(f)
  <2> DEFINE r == [Idle EXCEPT !.at = "queued", !.top = TRUE, !.attempt = flow[f].attempt + 1]
  <2>1. r \in FlowStates /\ r.at = "queued" /\ r.top /\ ~r.entered
    <3>1. flow[f].attempt + 1 \in Nat
      BY <1>1 DEF FlowStates
    <3> QED
      BY <3>1 DEF Idle, FlowStates, Ats, Errors
  <2>2. /\ flow' = [g \in Flows |-> IF g = f THEN r
                                    ELSE IF Outer[g] = f THEN Idle ELSE flow[g]]
        /\ tail' = tail /\ flow[f].top
    BY <1>3 DEF Retries, Again
  <2> HIDE DEF r
  <2>3. \A g \in Flows : Outer[g] = f => Settled(g)
    BY <1>1 DEF Resting, Awaited, PgTxAssumption
  <2>4. flow' \in [Flows -> FlowStates]
    BY <1>1, <2>1, <2>2, IdleIsFlowState
  <2>5. /\ flow'[f] = r
        /\ \A g \in Flows : g # f => flow'[g] = flow[g] \/ (Settled(g) /\ flow'[g] = Idle)
    BY <2>2, <2>3
  <2> QED
    BY <1>1, <2>1, <2>2, <2>4, <2>5, Settling
<1> QED
  BY <1>2, <1>3

LEMMA ConnectRefused ==
    ASSUME Resting, NEW f \in Flows, ConnectFails(f)
    PROVE  Resting'
<1> USE DEF Resting
<1>1. /\ tail # << >> /\ Head(tail) = f /\ flow[f].at = "queued"
      /\ flow' = Goes(f, "failed") /\ tail' = Tail(tail)
      /\ UNCHANGED <<session, free, txClient, depth>>
  BY DEF ConnectFails
<1>2. /\ \A g \in Flows : ~Holds(g)
      /\ ~flow[f].entered /\ ~Settled(f)
  BY <1>1, NoneHolds DEF Counts, Settled
<1>3. /\ flow' \in [Flows -> FlowStates] /\ flow'[f] = [flow[f] EXCEPT !.at = "failed"]
      /\ flow'[f].at = "failed" /\ flow'[f].entered = flow[f].entered
      /\ \A g \in Flows : g # f => flow'[g] = flow[g]
  <2>1. flow[f] \in FlowStates /\ flow \in [Flows -> FlowStates]
    BY DEF DriverTyped
  <2>2. flow' = [flow EXCEPT ![f].at = "failed"]
    BY <1>1 DEF Goes
  <2>3. flow'[f] = [flow[f] EXCEPT !.at = "failed"] /\ flow'[f].at = "failed"
    BY <2>1, <2>2 DEF FlowStates
  <2>4. flow'[f] \in FlowStates /\ flow'[f].entered = flow[f].entered
    BY <2>1, <2>3 DEF FlowStates, Ats
  <2>5. \A g \in Flows : g # f => flow'[g] = flow[g]
    BY <2>1, <2>2
  <2>6. flow' \in [Flows -> FlowStates]
    <3>1. DOMAIN flow' = Flows /\ \A g \in Flows : flow'[g] \in FlowStates
      BY <2>1, <2>2, <2>4, <2>5
    <3> QED
      BY <2>1, <2>2, <3>1
  <2> QED
    BY <2>3, <2>4, <2>5, <2>6
<1>4. /\ \A g \in Flows : ~Holds(g)'
      /\ \A g \in Flows : g # f => (Settled(g)' <=> Settled(g))
      /\ Settled(f)'
      /\ Entered' = Entered
  <2>1. \A g \in Flows : ~Holds(g)' /\ (g # f => (Settled(g)' <=> Settled(g)))
    BY <1>2, <1>3 DEF Holds, Settled
  <2>2. Settled(f)'
    BY <1>3 DEF Settled
  <2>3. \A g \in Flows : g \in Entered' <=> g \in Entered
    BY <1>2, <1>3, <2>1 DEF Entered
  <2> QED
    BY <2>1, <2>2, <2>3 DEF Entered
<1>5. DriverTyped' /\ OneHolder'
  <2>1. tail' \in Seq(Flows)
    BY <1>1, TailOfQueue
  <2>2. DriverTyped'
    BY <1>1, <1>3, <2>1 DEF DriverTyped
  <2>3. OneHolder'
    BY <1>1, <1>2, <1>4 DEF OneHolder
  <2> QED
    BY <2>2, <2>3
<1>6. Lined'
  <2>1. \A i \in 1..Len(tail) : tail[i] \in Flows
    BY ElementOfSeq DEF DriverTyped
  <2>2. \A i \in 1..Len(tail') :
           /\ i + 1 \in 1..Len(tail) /\ tail'[i] = tail[i + 1] /\ tail'[i] # f
    BY <1>1, TailOfQueue
  <2>3. \A i \in 1..Len(tail') : flow'[tail'[i]].top /\ ~Settled(tail[i])'
    <3> TAKE i \in 1..Len(tail')
    <3>1. /\ tail'[i] \in Flows /\ tail'[i] # f
          /\ flow[tail[i + 1]].top /\ ~Settled(tail[i + 1])
      BY <2>1, <2>2 DEF Lined
    <3>2. \E g \in Flows : /\ g = tail'[i] /\ g # f /\ flow[g].top /\ ~Settled(g)
      BY <2>2, <3>1
    <3> QED
      BY <1>3, <3>2 DEF Settled
  <2>4. \A i, j \in 1..Len(tail') : tail'[i] = tail'[j] => i = j
    <3> TAKE i, j \in 1..Len(tail')
    <3> HAVE tail'[i] = tail'[j]
    <3>1. i + 1 = j + 1
      BY <2>2 DEF Lined
    <3> QED
      BY <3>1
  <2> QED
    BY <2>3, <2>4 DEF Lined
<1>7. Clean'
  BY <1>1, <1>4 DEF Clean
<1>8. Counts'
  <2>1. flow'[f].at \notin {"queued", "entering", "running", "caught"}
    BY <1>3
  <2> QED
    BY <1>1, <1>3, <1>4, <2>1 DEF Counts
<1>9. Awaited'
  <2>1. \A g \in Flows : Outer[g] # Top /\ ~Settled(g)' =>
           Outer[g] # f /\ Outer[g] \in Flows /\ flow[Outer[g]].at = "running"
    BY <1>1, <1>4 DEF Awaited, PgTxAssumption
  <2> QED
    BY <1>3, <2>1 DEF Awaited
<1> QED
  BY <1>5, <1>6, <1>7, <1>8, <1>9

(* A write or a lost connection. *)
LEMMA ServerActs ==
    ASSUME Resting,
           \/ PlainWrite \/ \E f \in Flows : Write(f)
           \/ \E c \in Clients : Dies(c),
           used \in Nat
    PROVE  Resting'
<1>1. session \in [Clients -> Sessions]
  BY DEF Resting, DriverTyped
<1>2. CASE PlainWrite \/ \E f \in Flows : Write(f)
  <2>1. /\ \/ session' = session
           \/ /\ txClient # NoClient /\ session[txClient].open
              /\ session' = [session EXCEPT ![txClient].work = @ \cup {used + 1}]
        /\ UNCHANGED <<free, txClient, depth, tail, flow>>
    BY <1>2 DEF PlainWrite, Write, Stores
  <2>2. /\ session' \in [Clients -> Sessions]
        /\ \A d \in Clients : session'[d] = session[d] \/ session[d].open
    <3>1. CASE session' = session
      BY <1>1, <3>1
    <3>2. CASE session' # session
      <4> DEFINE s == [session[txClient] EXCEPT !.work = @ \cup {used + 1}]
      <4>1. /\ txClient \in Clients /\ session[txClient].open
            /\ session' = [session EXCEPT ![txClient] = s]
        BY <2>1, <3>2 DEF Resting, DriverTyped
      <4>2. s \in Sessions
        <5>1. session[txClient] \in Sessions /\ used + 1 \in Nat
          BY <1>1, <4>1
        <5> QED
          BY <5>1 DEF Sessions
      <4> HIDE DEF s
      <4> QED
        BY <1>1, <4>1, <4>2
    <3> QED
      BY <3>1, <3>2
  <2> QED
    BY <2>1, <2>2, ServerSteps
<1>3. CASE \E c \in Clients : Dies(c)
  <2>1. PICK c \in Clients : Dies(c)
    BY <1>3
  <2>2. /\ c \notin free /\ session' = [session EXCEPT ![c] = Dead]
        /\ UNCHANGED <<free, txClient, depth, tail, flow>>
    BY <2>1 DEF Dies, Dead
  <2>3. /\ session' \in [Clients -> Sessions]
        /\ \A d \in Clients : session'[d] = session[d] \/ (d \notin free /\ session'[d] = Dead)
    BY <1>1, <2>2, FreshIsSession
  <2> QED
    BY <2>2, <2>3, ServerSteps
<1> QED
  BY <1>2, <1>3

LEMMA RestingStep ==
    ASSUME Resting, used \in Nat, [PgTxNext]_pgtxVars
    PROVE  Resting' /\ used' \in Nat
<1>1. used' \in Nat
  <2>1. ASSUME NEW f \in Flows, Steps(f)
        PROVE  used' = used
    BY <2>1 DEF Steps, Connects, Enters, Commits, Releases, Throws, RollsBack, Succeeds, Fails,
                Retries
  <2>2. ASSUME NEW f \in Flows, Call(f) \/ ConnectFails(f) \/ CommitFails(f) \/ WriteFails(f)
        PROVE  used' = used
    BY <2>2 DEF Call, ConnectFails, CommitFails, WriteFails
  <2>3. PlainWrite \/ (\E f \in Flows : Write(f)) => used' = used + 1
    BY DEF PlainWrite, Write, Stores
  <2>4. (\E c \in Clients : Dies(c)) \/ UNCHANGED pgtxVars => used' = used
    BY DEF Dies, pgtxVars
  <2> QED
    BY <2>1, <2>2, <2>3, <2>4 DEF PgTxNext
<1>2. Resting'
  <2>1. CASE UNCHANGED pgtxVars
    <3>1. UNCHANGED <<session, free, txClient, depth, tail, flow>>
      BY <2>1 DEF pgtxVars
    <3>2. session' \in [Clients -> Sessions]
      BY <3>1 DEF Resting, DriverTyped
    <3> QED
      BY <3>1, <3>2, ServerSteps
  <2>2. CASE PlainWrite \/ (\E c \in Clients : Dies(c)) \/ \E f \in Flows : Write(f)
    BY <2>2, ServerActs
  <2>3. ASSUME NEW f \in Flows, Call(f)
        PROVE  Resting'
    <3>1. /\ flow[f].at = "idle" /\ (Outer[f] # Top => flow[Outer[f]].at = "running")
          /\ UNCHANGED <<free, txClient, depth>> /\ (Nests(f) \/ Queues(f))
      BY <2>3 DEF Call, Runs
    <3> QED
      BY <3>1, Nested, QueuesUp
  <2>4. ASSUME NEW f \in Flows,
               ConnectFails(f) \/ CommitFails(f) \/ WriteFails(f) \/ Steps(f)
        PROVE  Resting'
    <3>1. \/ ConnectFails(f) \/ Connects(f) \/ Enters(f)
          \/ Throws(f) \/ Commits(f) \/ CommitFails(f) \/ Releases(f) \/ RollsBack(f)
          \/ WriteFails(f)
          \/ Succeeds(f) \/ Fails(f) \/ Retries(f)
      BY <2>4 DEF Steps
    <3> QED
      BY <3>1, ConnectRefused, Connected, Entering, CallbackEnds, CallSettles
  <2> QED
    BY <2>1, <2>2, <2>3, <2>4 DEF PgTxNext
<1> QED
  BY <1>1, <1>2

LEMMA RestingRests ==
    ASSUME Resting
    PROVE  ComesToRest
<1>1. \A c \in free : session[c] = Fresh
  BY DEF Resting, Clean
<1>2. ASSUME \A f \in Flows : Settled(f)
      PROVE  depth = 0 /\ txClient = NoClient /\ tail = << >> /\ free = Clients
  <2>1. depth = 0
    <3>1. Entered = {}
      BY <1>2 DEF Entered
    <3> QED
      BY <3>1, FS_EmptySet DEF Resting, Counts
  <2>2. txClient = NoClient
    BY <1>2 DEF Resting, OneHolder, Holds, Settled
  <2>3. free = Clients
    BY <2>2 DEF Resting, OneHolder, PgTxAssumption
  <2>4. tail = << >>
    <3>1. tail # << >> => /\ 1 \in 1..Len(tail) /\ tail[1] \in Flows
      BY TailOfQueue
    <3> QED
      BY <1>2, <3>1 DEF Resting, Lined
  <2> QED
    BY <2>1, <2>2, <2>3, <2>4
<1> QED
  BY <1>1, <1>2 DEF ComesToRest

(* The driver comes to rest once its calls have settled, and what it puts   *)
(* back into the pool is usable, whichever calls overlap.                   *)
THEOREM DriverComesToRest == PgTxAssumption => (PgTxSpec => []ComesToRest)
<1> SUFFICES ASSUME PgTxAssumption PROVE PgTxSpec => []ComesToRest
  OBVIOUS
<1> DEFINE Inv == Resting /\ used \in Nat
<1>1. PgTxInit => Inv
  BY RestingInit DEF PgTxInit
<1>2. Inv /\ [PgTxNext]_pgtxVars => Inv'
  BY RestingStep
<1>3. Inv => ComesToRest
  BY RestingRests
<1> QED
  BY <1>1, <1>2, <1>3, PTL DEF PgTxSpec

-----------------------------------------------------------------------------
(* Transactions are all or nothing where the program awaits its calls in    *)
(* turn.  The calls that have a client then are a chain, each made by the   *)
(* callback of the one before, and the name of a savepoint is its place in  *)
(* that chain.                                                              *)
Active(f) == flow[f].at \in {"entering", "running", "caught", "leaving"}

Chain ==
    /\ \A f \in Flows : Active(f) =>
          /\ flow[f].client = txClient /\ txClient \in Clients
          /\ IF flow[f].entered THEN flow[f].sp < depth ELSE flow[f].sp = depth
          /\ flow[f].top <=> Outer[f] = Top
          /\ flow[f].top <=> flow[f].sp = 0
          /\ ~flow[f].top => flow[Outer[f]].sp + 1 = flow[f].sp
    /\ \A f, g \in Flows : Active(f) /\ Active(g) /\ flow[f].sp = flow[g].sp => f = g
    /\ \A k \in 0..(depth - 1) : \E f \in Flows : Active(f) /\ flow[f].sp = k
    /\ \A f \in Flows : flow[f].at = "queued" => Outer[f] = Top
    /\ \A f \in Flows : /\ flow[f].at = "caught" => flow[f].error # "none"
                        /\ flow[f].at \in {"queued", "entering", "running"} =>
                              flow[f].error = "none"

(* The session of the transaction that is open. *)
Current == IF txClient = NoClient THEN Fresh ELSE session[txClient]

(* It is open while the outermost callback runs, unless its connection is   *)
(* lost, and an error that aborts it is caught before anything else is      *)
(* asked of it.                                                             *)
Opened ==
    /\ Current.open \/ Current \in {Fresh, Dead}
    /\ \A f \in Flows : flow[f].at \in {"entering", "running"} => Current.open \/ Current.dead
    /\ Current.aborted => \E f \in Flows : flow[f].at = "caught"
    /\ ~(Current.open /\ Current.dead)

(* The call f has a savepoint. *)
Saving(f) == ~flow[f].top /\ flow[f].at \in {"entering", "running", "caught"}

SaveOf(f) == LastSave(Current, flow[f].sp)

(* It holds what was written before it, and nothing the call has written. *)
Secured ==
    \A f \in Flows : Saving(f) =>
       /\ \A i \in 1..SaveOf(f) : mine[f] \cap Current.saves[i].work = {}
       /\ Current.dead \/ /\ SaveOf(f) > 0
                          /\ \A o \in Flows : Active(o) /\ flow[o].sp < flow[f].sp =>
                                /\ mine[o] \subseteq Current.saves[SaveOf(f)].work
                                /\ ~flow[o].top => SaveOf(o) < SaveOf(f)

(* What a callback has written is in the transaction, what is undone is not *)
(* and is in no savepoint either.                                           *)
Written ==
    \A f \in Flows :
       /\ flow[f].at = "running" \/ (flow[f].at = "leaving" /\ ~flow[f].top
                                     /\ flow[f].error = "none") =>
             Current.dead \/ mine[f] \subseteq Current.work
       /\ flow[f].at = "leaving" /\ ~flow[f].top =>
             /\ \A i \in 1..Len(Current.saves) : mine[f] \cap Current.saves[i].work = {}
             /\ flow[f].error # "none" => mine[f] \cap Current.work = {}
       /\ flow[f].at \in {"idle", "queued", "entering"} => mine[f] = {}

Undone ==
    /\ refused \cap Current.work = {}
    /\ \A i \in 1..Len(Current.saves) : refused \cap Current.saves[i].work = {}

(* What is committed. *)
Durable ==
    /\ \A f \in Flows : ~Settled(f) =>
          IF flow[f].top /\ flow[f].at = "leaving" /\ flow[f].error = "none"
          THEN mine[f] \subseteq stored ELSE mine[f] \cap stored \subseteq doubt
    /\ PgAllOrNothing

(* Writes are numbered as they come. *)
Numbered ==
    /\ used \in Nat /\ mine \in [Flows -> SUBSET (1..used)]
    /\ stored \subseteq 1..used /\ refused \subseteq 1..used
    /\ Current.work \subseteq 1..used
    /\ \A i \in 1..Len(Current.saves) : Current.saves[i].work \subseteq 1..used

PgData == Opened /\ Secured /\ Written /\ Undone /\ Durable /\ Numbered

PgInv == Resting /\ Chain /\ PgData

-----------------------------------------------------------------------------
LEMMA ActiveOnes ==
    ASSUME Resting, NEW f \in Flows
    PROVE  /\ Active(f) => ~Settled(f) /\ flow[f].at # "queued"
           /\ ~Settled(f) /\ flow[f].at # "queued" => Active(f)
           /\ Active(f) /\ flow[f].top <=> Holds(f)
           /\ flow[f] \in FlowStates /\ flow[f].sp \in Nat /\ depth \in Nat
           /\ Outer[f] # Top => Outer[f] \in Flows
BY DEF Resting, DriverTyped, FlowStates, Ats, Active, Settled, Holds, PgTxAssumption

(* A call whose callback awaits nothing is the last of the chain. *)
LEMMA Innermost ==
    ASSUME Resting, Chain, NEW f \in Flows, Active(f), \A g \in Inner(f) : Settled(g)
    PROVE  /\ flow[f].sp = IF flow[f].entered THEN depth - 1 ELSE depth
           /\ \A g \in Flows : Active(g) /\ g # f =>
                 flow[g].at = "running" /\ flow[g].sp < flow[f].sp
<1>1. /\ depth \in Nat /\ \A g \in Flows : flow[g].sp \in Nat
      /\ \A g \in Flows : Active(g) => ~Settled(g)
  BY ActiveOnes
(* No call is made by the callback of f. *)
<1>2. ASSUME NEW g \in Flows, Active(g), flow[g].sp = flow[f].sp + 1
      PROVE  FALSE
  <2>1. ~flow[g].top /\ Outer[g] # Top /\ flow[Outer[g]].sp = flow[f].sp
    <3>1. ~flow[g].top /\ Outer[g] # Top /\ flow[Outer[g]].sp + 1 = flow[g].sp
      BY <1>1, <1>2 DEF Chain
    <3>2. Outer[g] \in Flows
      BY <3>1, ActiveOnes
    <3> QED
      BY <1>1, <1>2, <3>1, <3>2
  <2>2. Outer[g] \in Flows /\ flow[Outer[g]].at = "running"
    BY <1>1, <1>2, <2>1, ActiveOnes DEF Resting, Awaited
  <2>3. Outer[g] = f
    BY <2>1, <2>2 DEF Chain, Active
  <2> QED
    BY <1>1, <1>2, <2>3 DEF Inner
<1>3. flow[f].sp = IF flow[f].entered THEN depth - 1 ELSE depth
  <2>1. CASE flow[f].entered /\ flow[f].sp # depth - 1
    <3>1. flow[f].sp + 1 \in 0..(depth - 1)
      BY <1>1, <2>1 DEF Chain
    <3>2. PICK g \in Flows : Active(g) /\ flow[g].sp = flow[f].sp + 1
      BY <3>1 DEF Chain
    <3> QED
      BY <1>2, <3>2
  <2> QED
    BY <2>1 DEF Chain
<1>4. ASSUME NEW g \in Flows, Active(g), g # f
      PROVE  flow[g].at = "running" /\ flow[g].sp < flow[f].sp
  <2>1. flow[g].sp # flow[f].sp
    BY <1>4 DEF Chain
  <2>2. flow[g].sp < flow[f].sp
    <3>1. CASE flow[g].entered
      BY <1>1, <1>3, <1>4, <2>1, <3>1 DEF Chain
    <3>2. CASE ~flow[g].entered
      <4>1. flow[g].sp = depth
        BY <1>4, <3>2 DEF Chain
      <4>2. flow[g].sp = flow[f].sp + 1
        BY <1>1, <1>3, <2>1, <4>1
      <4> QED
        BY <1>2, <1>4, <4>2
    <3> QED
      BY <3>1, <3>2
  <2>3. PICK x \in Flows : Active(x) /\ flow[x].sp = flow[g].sp + 1
    <3>1. CASE flow[g].sp + 1 = flow[f].sp
      BY <3>1
    <3>2. CASE flow[g].sp + 1 # flow[f].sp
      <4>1. flow[g].sp + 1 \in 0..(depth - 1)
        BY <1>1, <1>3, <2>2, <3>2
      <4> QED
        BY <4>1 DEF Chain
    <3> QED
      BY <3>1, <3>2
  <2>4. ~flow[x].top /\ Outer[x] # Top /\ flow[Outer[x]].sp = flow[g].sp
    <3>1. ~flow[x].top /\ Outer[x] # Top /\ flow[Outer[x]].sp + 1 = flow[x].sp
      BY <1>1, <2>3 DEF Chain
    <3>2. Outer[x] \in Flows
      BY <3>1, ActiveOnes
    <3> QED
      BY <1>1, <2>3, <3>1, <3>2
  <2>5. Outer[x] \in Flows /\ flow[Outer[x]].at = "running"
    BY <1>1, <2>3, <2>4, ActiveOnes DEF Resting, Awaited
  <2>6. Outer[x] = g
    BY <1>4, <2>4, <2>5 DEF Chain, Active
  <2> QED
    BY <2>2, <2>5, <2>6
<1> QED
  BY <1>3, <1>4

(* The first of the chain holds the client. *)
LEMMA ChainHasHolder ==
    ASSUME Resting, Chain
    PROVE  /\ \A f \in Flows : Active(f) => \E h \in Flows : Holds(h)
           /\ depth > 0 => \E h \in Flows : Holds(h)
<1>1. /\ depth \in Nat /\ \A g \in Flows : flow[g].sp \in Nat
  BY ActiveOnes DEF Resting, DriverTyped
<1>2. depth > 0 => \E h \in Flows : Holds(h)
  <2>1. depth > 0 => 0 \in 0..(depth - 1)
    BY <1>1
  <2>2. depth > 0 => \E h \in Flows : Active(h) /\ flow[h].sp = 0
    BY <2>1 DEF Chain
  <2> QED
    BY <2>2, ActiveOnes DEF Chain
<1>3. ASSUME NEW f \in Flows, Active(f)
      PROVE  \E h \in Flows : Holds(h)
  <2>1. CASE depth = 0
    BY <1>1, <1>3, <2>1, ActiveOnes DEF Chain
  <2> QED
    BY <1>1, <1>2, <2>1
<1> QED
  BY <1>2, <1>3

(* The chain keeps its form where a call goes on with what it is. *)
LEMMA ChainGoesOn ==
    ASSUME Resting, Chain, NEW f \in Flows, NEW r \in FlowStates, Active(f),
           flow' = [flow EXCEPT ![f] = r],
           r.at \in {"caught", "leaving"}, r.top = flow[f].top, r.client = flow[f].client,
           r.sp = flow[f].sp, r.entered = flow[f].entered,
           r.at = "caught" => r.error # "none",
           UNCHANGED <<txClient, depth>>
    PROVE  Chain'
<1>1. /\ flow'[f] = r /\ \A g \in Flows : g # f => flow'[g] = flow[g]
      /\ \A g \in Flows : /\ flow'[g].sp = flow[g].sp /\ flow'[g].top = flow[g].top
                          /\ flow'[g].client = flow[g].client
                          /\ flow'[g].entered = flow[g].entered
  BY DEF Resting, DriverTyped
<1>2. \A g \in Flows : Active(g)' <=> Active(g)
  BY <1>1 DEF Active
<1>3. \A g \in Flows : Outer[g] # Top => Outer[g] \in Flows
  BY ActiveOnes
<1>4. \A g \in Flows : Active(g)' =>
          /\ flow'[g].client = txClient /\ txClient \in Clients
          /\ IF flow'[g].entered THEN flow'[g].sp < depth ELSE flow'[g].sp = depth
          /\ flow'[g].top <=> Outer[g] = Top
          /\ flow'[g].top <=> flow'[g].sp = 0
          /\ ~flow'[g].top => flow'[Outer[g]].sp + 1 = flow'[g].sp
  BY <1>1, <1>2, <1>3 DEF Chain
<1>5. \A g \in Flows : /\ flow'[g].at = "queued" => Outer[g] = Top
                       /\ flow'[g].at = "caught" => flow'[g].error # "none"
                       /\ flow'[g].at \in {"queued", "entering", "running"} =>
                             flow'[g].error = "none"
  BY <1>1 DEF Chain
<1>6. \A g, x \in Flows : Active(g)' /\ Active(x)' /\ flow'[g].sp = flow'[x].sp => g = x
  BY <1>1, <1>2 DEF Chain
<1>7. \A k \in 0..(depth - 1) : \E g \in Flows : Active(g)' /\ flow'[g].sp = k
  BY <1>1, <1>2 DEF Chain
<1> QED
  BY <1>4, <1>5, <1>6, <1>7 DEF Chain

LEMMA ChainEnters ==
    ASSUME Resting, Chain, NEW f \in Flows, Enters(f)
    PROVE  Chain'
<1> DEFINE dead == session[flow[f].client].dead
           r == IF dead THEN [flow[f] EXCEPT !.at = "leaving", !.poisoned = TRUE, !.error = "other"]
                ELSE [flow[f] EXCEPT !.at = "running", !.entered = TRUE]
<1>1. /\ flow[f].at = "entering" /\ flow' = [flow EXCEPT ![f] = r]
      /\ depth' = IF dead THEN depth ELSE depth + 1
      /\ txClient' = txClient /\ Active(f) /\ ~flow[f].entered /\ flow[f].sp = depth
  <2>1. flow' = [flow EXCEPT ![f] = r]
    BY DEF Enters
  <2>2. /\ flow[f].at = "entering" /\ txClient' = txClient
        /\ depth' = IF dead THEN depth ELSE depth + 1
    BY DEF Enters
  <2>3. Active(f) /\ ~flow[f].entered
    BY <2>2 DEF Active, Resting, Counts
  <2>4. flow[f].sp = depth
    BY <2>3 DEF Chain
  <2> QED
    BY <2>1, <2>2, <2>3, <2>4
<1>2. /\ r.top = flow[f].top /\ r.client = flow[f].client /\ r.sp = flow[f].sp
      /\ dead => r.at = "leaving" /\ ~r.entered
      /\ ~dead => r.at = "running" /\ r.entered /\ r.error = flow[f].error
  BY <1>1, ActiveOnes DEF FlowStates
<1> HIDE DEF r, dead
<1>3. /\ flow'[f] = r /\ \A g \in Flows : g # f => flow'[g] = flow[g]
      /\ \A g \in Flows : /\ flow'[g].sp = flow[g].sp /\ flow'[g].top = flow[g].top
                          /\ flow'[g].client = flow[g].client
                          /\ Active(g)' <=> Active(g)
                          /\ depth \in Nat /\ flow[g].sp \in Nat
  <2>1. flow'[f] = r /\ \A g \in Flows : g # f => flow'[g] = flow[g]
    BY <1>1 DEF Resting, DriverTyped
  <2>2. Active(f)' <=> Active(f)
    BY <1>1, <1>2, <2>1 DEF Active
  <2> QED
    BY <1>2, <2>1, <2>2, ActiveOnes DEF Active
<1>4. \A g \in Flows : Active(g)' =>
          /\ flow'[g].client = txClient' /\ txClient' \in Clients
          /\ flow'[g].top <=> Outer[g] = Top
          /\ flow'[g].top <=> flow'[g].sp = 0
          /\ ~flow'[g].top => flow'[Outer[g]].sp + 1 = flow'[g].sp
  BY <1>1, <1>3, ActiveOnes DEF Chain
<1>5. \A g \in Flows : Active(g)' =>
          IF flow'[g].entered THEN flow'[g].sp < depth' ELSE flow'[g].sp = depth'
  <2> TAKE g \in Flows
  <2> HAVE Active(g)'
  <2>1. CASE g = f
    BY <1>1, <1>2, <1>3, <2>1
  <2>2. CASE g # f
    <3>1. flow'[g] = flow[g] /\ Active(g) /\ flow[g].sp # depth
      BY <1>1, <1>3, <2>2 DEF Chain
    <3>2. flow[g].entered /\ flow[g].sp < depth
      BY <3>1 DEF Chain
    <3> QED
      BY <1>1, <1>3, <3>1, <3>2
  <2> QED
    BY <2>1, <2>2
<1>6. \A g \in Flows : /\ flow'[g].at = "queued" => Outer[g] = Top
                       /\ flow'[g].at = "caught" => flow'[g].error # "none"
                       /\ flow'[g].at \in {"queued", "entering", "running"} =>
                             flow'[g].error = "none"
  BY <1>1, <1>2, <1>3 DEF Chain
<1>7. \A g, x \in Flows : Active(g)' /\ Active(x)' /\ flow'[g].sp = flow'[x].sp => g = x
  BY <1>3 DEF Chain
<1>8. \A k \in 0..(depth' - 1) : \E g \in Flows : Active(g)' /\ flow'[g].sp = k
  <2> TAKE k \in 0..(depth' - 1)
  <2>1. CASE k = depth
    BY <1>1, <1>3, <2>1
  <2>2. CASE k # depth
    <3>1. k \in 0..(depth - 1)
      BY <1>1, <1>3, <2>2
    <3> QED
      BY <1>3, <3>1 DEF Chain
  <2> QED
    BY <2>1, <2>2
<1> QED
  BY <1>4, <1>5, <1>6, <1>7, <1>8 DEF Chain

LEMMA CallIsMade ==
    ASSUME Resting, Chain, ~Overlaps, NEW f \in Flows, Call(f)
    PROVE  /\ flow[f].at = "idle"
           /\ \/ Outer[f] = Top /\ depth = 0 /\ Queues(f)
              \/ /\ Outer[f] \in Flows /\ Runs(Outer[f]) /\ Active(Outer[f]) /\ depth > 0
                 /\ flow[Outer[f]].sp = depth - 1 /\ Nests(f)
                 /\ \A g \in Flows : Active(g) => flow[g].at = "running" /\ flow[g].sp < depth
           /\ UNCHANGED <<stored, free, txClient, depth, used, faults, mine, promised,
                          refused, doubt>>
<1>1. /\ flow[f].at = "idle" /\ depth \in Nat
      /\ IF Outer[f] = Top THEN depth = 0 ELSE Runs(Outer[f])
      /\ IF depth > 0 THEN Nests(f) ELSE Queues(f)
      /\ UNCHANGED <<stored, free, txClient, depth, used, faults, mine, promised,
                     refused, doubt>>
  BY ActiveOnes DEF Call, History
<1>2. CASE Outer[f] # Top
  <2>1. /\ Outer[f] \in Flows /\ Active(Outer[f]) /\ flow[Outer[f]].at = "running"
        /\ \A g \in Inner(Outer[f]) : Settled(g)
    BY <1>1, <1>2, ActiveOnes DEF Runs, Active
  <2>2. flow[Outer[f]].entered
    BY <2>1 DEF Resting, Counts
  <2>3. /\ flow[Outer[f]].sp = depth - 1 /\ flow[Outer[f]].sp \in Nat
        /\ \A g \in Flows : Active(g) /\ g # Outer[f] =>
              flow[g].at = "running" /\ flow[g].sp < flow[Outer[f]].sp
    BY <2>1, <2>2, Innermost, ActiveOnes
  <2>4. \A g \in Flows : Active(g) => flow[g].at = "running" /\ flow[g].sp < depth
    BY <1>1, <2>1, <2>3, ActiveOnes
  <2> QED
    BY <1>1, <1>2, <2>1, <2>3, <2>4
<1> QED
  BY <1>1, <1>2

LEMMA ChainCalls ==
    ASSUME Resting, Chain, ~Overlaps, NEW f \in Flows, Call(f)
    PROVE  Chain'
<1>1. flow[f].at = "idle" /\ UNCHANGED <<txClient, depth>>
  BY CallIsMade
<1>2. CASE Outer[f] = Top
  <2> DEFINE r == [Idle EXCEPT !.at = "queued", !.top = TRUE]
  <2>1. flow' = [flow EXCEPT ![f] = r]
    <3>1. Top \notin Flows
      BY DEF Resting, PgTxAssumption
    <3>2. Queues(f)
      BY <1>2, <3>1, CallIsMade
    <3> QED
      BY <3>2 DEF Queues
  <2>2. r.at = "queued" /\ r.error = "none"
    BY DEF Idle
  <2> HIDE DEF r
  <2>3. flow'[f] = r /\ \A g \in Flows : g # f => flow'[g] = flow[g]
    BY <2>1 DEF Resting, DriverTyped
  <2>4. \A g \in Flows : (Active(g)' <=> Active(g)) /\ (Active(g) => g # f)
    BY <1>1, <2>2, <2>3 DEF Active
  <2>5. \A g \in Flows : Active(g) /\ ~flow[g].top =>
            /\ Outer[g] \in Flows /\ flow'[Outer[g]] = flow[Outer[g]]
    <3> TAKE g \in Flows
    <3> HAVE Active(g) /\ ~flow[g].top
    <3>1. Outer[g] \in Flows /\ flow[Outer[g]].at = "running"
      BY ActiveOnes DEF Resting, Awaited, Chain
    <3> QED
      BY <1>1, <2>3, <3>1
  <2>6. \A g \in Flows : Active(g)' =>
          /\ flow'[g].client = txClient /\ txClient \in Clients
          /\ IF flow'[g].entered THEN flow'[g].sp < depth ELSE flow'[g].sp = depth
          /\ flow'[g].top <=> Outer[g] = Top
          /\ flow'[g].top <=> flow'[g].sp = 0
          /\ ~flow'[g].top => flow'[Outer[g]].sp + 1 = flow'[g].sp
    BY <2>3, <2>4, <2>5 DEF Chain
  <2>7. \A g \in Flows : /\ flow'[g].at = "queued" => Outer[g] = Top
                         /\ flow'[g].at = "caught" => flow'[g].error # "none"
                         /\ flow'[g].at \in {"queued", "entering", "running"} =>
                               flow'[g].error = "none"
    BY <1>2, <2>2, <2>3 DEF Chain
  <2>8. \A g, x \in Flows : Active(g)' /\ Active(x)' /\ flow'[g].sp = flow'[x].sp => g = x
    BY <2>3, <2>4 DEF Chain
  <2>9. \A k \in 0..(depth - 1) : \E g \in Flows : Active(g)' /\ flow'[g].sp = k
    BY <2>3, <2>4 DEF Chain
  <2> QED
    BY <1>1, <2>6, <2>7, <2>8, <2>9 DEF Chain
<1>3. CASE Outer[f] # Top
  <2>1. /\ Outer[f] \in Flows /\ Active(Outer[f]) /\ flow[Outer[f]].at = "running" /\ depth > 0
        /\ flow[Outer[f]].sp = depth - 1 /\ Nests(f) /\ depth \in Nat
        /\ \A g \in Flows : Active(g) => flow[g].sp < depth
    BY <1>3, CallIsMade, ActiveOnes DEF Runs
  <2>2. PICK r \in FlowStates :
           /\ flow' = [flow EXCEPT ![f] = r]
           /\ r.at \in {"entering", "leaving"} /\ ~r.top /\ r.client = txClient
           /\ r.sp = depth /\ ~r.entered /\ (r.at = "entering" => r.error = "none")
    <3> DEFINE ok == txClient # NoClient /\ ~session[txClient].dead /\ session[txClient].open
                     /\ ~session[txClient].aborted
               r == [Idle EXCEPT !.at = IF ok THEN "entering" ELSE "leaving",
                                 !.client = txClient, !.sp = depth,
                                 !.error = IF ok THEN "none" ELSE "other"]
    <3>1. txClient \in Clients \cup {NoClient}
      BY DEF Resting, DriverTyped
    <3>2. r \in FlowStates /\ r.at \in {"entering", "leaving"} /\ ~r.top /\ r.client = txClient
          /\ r.sp = depth /\ ~r.entered /\ (r.at = "entering" => r.error = "none")
      BY <2>1, <3>1 DEF Idle, FlowStates, Ats, Errors
    <3>3. flow' = [flow EXCEPT ![f] = r]
      BY <2>1 DEF Nests
    <3> HIDE DEF r
    <3> QED
      BY <3>2, <3>3
  <2>3. flow'[f] = r /\ \A g \in Flows : g # f => flow'[g] = flow[g]
    BY <2>2 DEF Resting, DriverTyped
  <2>4. \A g \in Flows : /\ Active(g)' <=> Active(g) \/ g = f
                         /\ Active(g) => g # f
    BY <1>1, <2>2, <2>3 DEF Active
  <2>5. \A g \in Flows : Active(g)' /\ ~flow'[g].top =>
            /\ Outer[g] \in Flows /\ Outer[g] # f /\ flow'[Outer[g]] = flow[Outer[g]]
    <3> TAKE g \in Flows
    <3> HAVE Active(g)' /\ ~flow'[g].top
    <3>1. CASE g = f
      BY <1>1, <2>1, <2>3, <3>1
    <3>2. CASE g # f
      <4>1. Outer[g] \in Flows /\ flow[Outer[g]].at = "running"
        BY <2>3, <2>4, <3>2, ActiveOnes DEF Resting, Awaited, Chain
      <4> QED
        BY <1>1, <2>3, <4>1
    <3> QED
      BY <3>1, <3>2
  <2>6. \A g \in Flows : Active(g)' =>
          /\ flow'[g].client = txClient /\ txClient \in Clients
          /\ IF flow'[g].entered THEN flow'[g].sp < depth ELSE flow'[g].sp = depth
          /\ flow'[g].top <=> Outer[g] = Top
          /\ flow'[g].top <=> flow'[g].sp = 0
          /\ ~flow'[g].top => flow'[Outer[g]].sp + 1 = flow'[g].sp
    <3> TAKE g \in Flows
    <3> HAVE Active(g)'
    <3>1. CASE g = f
      <4>1. txClient \in Clients
        BY <2>1 DEF Chain
      <4> QED
        BY <1>1, <1>3, <2>1, <2>2, <2>3, <3>1, <4>1
    <3>2. CASE g # f
      BY <2>3, <2>4, <2>5, <3>2 DEF Chain
    <3> QED
      BY <3>1, <3>2
  <2>7. \A g \in Flows : /\ flow'[g].at = "queued" => Outer[g] = Top
                         /\ flow'[g].at = "caught" => flow'[g].error # "none"
                         /\ flow'[g].at \in {"queued", "entering", "running"} =>
                               flow'[g].error = "none"
    BY <2>2, <2>3 DEF Chain
  <2>8. \A g, x \in Flows : Active(g)' /\ Active(x)' /\ flow'[g].sp = flow'[x].sp => g = x
    <3>1. flow'[f].sp = depth
      BY <2>2, <2>3
    <3>2. \A g \in Flows : Active(g) => flow'[g].sp = flow[g].sp /\ flow[g].sp # depth
      BY <2>1, <2>3, <2>4, ActiveOnes
    <3> QED
      BY <2>4, <3>1, <3>2 DEF Chain
  <2>9. \A k \in 0..(depth - 1) : \E g \in Flows : Active(g)' /\ flow'[g].sp = k
    BY <2>3, <2>4 DEF Chain
  <2> QED
    BY <1>1, <2>6, <2>7, <2>8, <2>9 DEF Chain
<1> QED
  BY <1>2, <1>3

(* While no call holds a client there is no chain. *)
LEMMA NoChain ==
    ASSUME Resting, Chain, \A h \in Flows : ~Holds(h)
    PROVE  (\A g \in Flows : ~Active(g)) /\ depth = 0
BY ChainHasHolder DEF Resting, DriverTyped

LEMMA ChainConnects ==
    ASSUME Resting, Chain, NEW f \in Flows, Connects(f)
    PROVE  Chain'
<1>1. /\ tail # << >> /\ Head(tail) = f /\ flow[f].at = "queued" /\ depth' = depth
  BY DEF Connects
<1>2. /\ \A g \in Flows : ~Active(g)
      /\ depth = 0
  BY <1>1, NoneHolds, NoChain
<1>3. PICK c \in free :
         /\ txClient' = c
         /\ flow' = [flow EXCEPT ![f].at = "entering", ![f].client = c, ![f].sp = 0]
  BY DEF Connects
<1>4. c \in Clients
  BY DEF Resting, DriverTyped
<1>5. flow[f].top /\ ~flow[f].entered
  BY <1>1, TailOfQueue DEF Resting, Lined, Counts
<1>6. Outer[f] = Top /\ flow[f].error = "none"
  BY <1>1 DEF Chain
<1>7. /\ flow'[f] = [flow[f] EXCEPT !.at = "entering", !.client = c, !.sp = 0]
      /\ \A g \in Flows : g # f => flow'[g] = flow[g]
  BY <1>3 DEF Resting, DriverTyped
<1>8. /\ flow'[f].at = "entering" /\ flow'[f].client = c /\ flow'[f].sp = 0 /\ flow'[f].top
      /\ ~flow'[f].entered /\ flow'[f].error = "none"
  BY <1>5, <1>6, <1>7, ActiveOnes DEF FlowStates
<1>9. \A g \in Flows : Active(g)' <=> g = f
  BY <1>2, <1>7, <1>8 DEF Active
<1>10. \A g \in Flows : Active(g)' =>
          /\ flow'[g].client = txClient' /\ txClient' \in Clients
          /\ IF flow'[g].entered THEN flow'[g].sp < depth' ELSE flow'[g].sp = depth'
          /\ flow'[g].top <=> Outer[g] = Top
          /\ flow'[g].top <=> flow'[g].sp = 0
          /\ ~flow'[g].top => flow'[Outer[g]].sp + 1 = flow'[g].sp
  BY <1>1, <1>2, <1>3, <1>4, <1>6, <1>8, <1>9
<1>11. \A g \in Flows : /\ flow'[g].at = "queued" => Outer[g] = Top
                        /\ flow'[g].at = "caught" => flow'[g].error # "none"
                        /\ flow'[g].at \in {"queued", "entering", "running"} =>
                             flow'[g].error = "none"
  BY <1>7, <1>8, ZenonT(60) DEF Chain
<1>12. \A k \in 0..(depth' - 1) : \E g \in Flows : Active(g)' /\ flow'[g].sp = k
  BY <1>1, <1>2
<1> QED
  BY <1>9, <1>10, <1>11, <1>12 DEF Chain

LEMMA ChainRefused ==
    ASSUME Resting, Chain, NEW f \in Flows, ConnectFails(f)
    PROVE  Chain'
<1>1. /\ tail # << >> /\ Head(tail) = f /\ flow[f].at = "queued" /\ depth' = depth
      /\ txClient' = txClient /\ flow' = [flow EXCEPT ![f].at = "failed"]
  BY DEF ConnectFails, Goes
<1>2. /\ \A g \in Flows : ~Active(g)
      /\ depth = 0
  BY <1>1, NoneHolds, NoChain
<1>3. flow'[f].at = "failed" /\ \A g \in Flows : g # f => flow'[g] = flow[g]
  BY <1>1, ActiveOnes DEF Resting, DriverTyped, FlowStates
<1>4. \A g \in Flows : ~Active(g)'
  BY <1>2, <1>3 DEF Active
<1>5. \A g \in Flows : /\ flow'[g].at = "queued" => Outer[g] = Top
                       /\ flow'[g].at = "caught" => flow'[g].error # "none"
                       /\ flow'[g].at \in {"queued", "entering", "running"} =>
                             flow'[g].error = "none"
  BY <1>3 DEF Chain
<1>6. \A k \in 0..(depth' - 1) : FALSE
  BY <1>1, <1>2
<1> QED
  BY <1>1, <1>2, <1>4, <1>5, <1>6 DEF Chain

(* The call at the end of the chain settles. *)
LEMMA LastOfChain ==
    ASSUME Resting, Chain, NEW f \in Flows, flow[f].at \in {"caught", "leaving"}
    PROVE  /\ Active(f) /\ \A g \in Inner(f) : Settled(g)
           /\ flow[f].sp = IF flow[f].entered THEN depth - 1 ELSE depth
           /\ \A g \in Flows : Active(g) /\ g # f =>
                 flow[g].at = "running" /\ flow[g].sp < flow[f].sp
           /\ flow[f].top => (\A g \in Flows : Active(g) => g = f)
           /\ flow[f].client = txClient /\ txClient \in Clients
<1>1. Active(f) /\ \A g \in Inner(f) : Settled(g)
  BY ActiveOnes DEF Active, Inner, Resting, Awaited, PgTxAssumption
<1>2. /\ flow[f].sp = IF flow[f].entered THEN depth - 1 ELSE depth
      /\ \A g \in Flows : Active(g) /\ g # f =>
                 flow[g].at = "running" /\ flow[g].sp < flow[f].sp
  BY <1>1, Innermost
<1>3. flow[f].client = txClient /\ txClient \in Clients /\ (flow[f].top => flow[f].sp = 0)
  BY <1>1 DEF Chain
<1>4. \A g \in Flows : flow[g].sp \in Nat
  BY ActiveOnes
<1> QED
  BY <1>1, <1>2, <1>3, <1>4

LEMMA ChainSettles ==
    ASSUME Resting, Chain, NEW f \in Flows, flow[f].at = "leaving",
           flow'[f].at \in {"done", "failed", "queued"},
           flow'[f].at = "queued" => flow[f].top /\ flow'[f].error = "none",
           \A g \in Flows : g # f =>
               flow'[g] = flow[g] \/ (Settled(g) /\ flow'[g] = Idle),
           Puts(f)
    PROVE  Chain'
<1>1. /\ Active(f) /\ \A g \in Inner(f) : Settled(g)
      /\ flow[f].sp = IF flow[f].entered THEN depth - 1 ELSE depth
      /\ \A g \in Flows : Active(g) /\ g # f =>
            flow[g].at = "running" /\ flow[g].sp < flow[f].sp
      /\ flow[f].top => (\A g \in Flows : Active(g) => g = f)
  BY LastOfChain
<1>2. \A g \in Flows : /\ Active(g)' <=> Active(g) /\ g # f
                       /\ Active(g)' => flow'[g] = flow[g]
  BY ActiveOnes DEF Active, Idle
<1>3. /\ depth \in Nat /\ \A g \in Flows : flow[g].sp \in Nat
      /\ depth' = IF flow[f].entered THEN depth - 1 ELSE depth
  BY ActiveOnes DEF Puts
<1>4. depth' = flow[f].sp
  BY <1>1, <1>3
<1>5. ~flow[f].top => txClient' = txClient
  BY DEF Puts, GivesBack
<1>6. \A g \in Flows : Active(g)' =>
          /\ flow'[g].client = txClient' /\ txClient' \in Clients
          /\ IF flow'[g].entered THEN flow'[g].sp < depth' ELSE flow'[g].sp = depth'
          /\ flow'[g].top <=> Outer[g] = Top
          /\ flow'[g].top <=> flow'[g].sp = 0
          /\ ~flow'[g].top => flow'[Outer[g]].sp + 1 = flow'[g].sp
  <2> TAKE g \in Flows
  <2> HAVE Active(g)'
  <2>1. Active(g) /\ g # f /\ flow'[g] = flow[g] /\ ~flow[f].top /\ flow[g].sp < flow[f].sp
        /\ flow[g].entered
    BY <1>1, <1>2 DEF Resting, Counts
  <2>2. ~flow[g].top => Outer[g] \in Flows /\ Active(Outer[g]) /\ Outer[g] # f
    <3>1. ~flow[g].top => Outer[g] \in Flows /\ flow[Outer[g]].at = "running"
      BY <2>1, ActiveOnes DEF Resting, Awaited, Chain
    <3> QED
      BY <3>1 DEF Active
  <2>3. ~flow[g].top => flow'[Outer[g]] = flow[Outer[g]]
    BY <1>2, <2>2
  <2> QED
    BY <1>4, <1>5, <2>1, <2>2, <2>3 DEF Chain
<1>7. \A g \in Flows : /\ flow'[g].at = "queued" => Outer[g] = Top
                       /\ flow'[g].at = "caught" => flow'[g].error # "none"
                       /\ flow'[g].at \in {"queued", "entering", "running"} =>
                             flow'[g].error = "none"
  <2> TAKE g \in Flows
  <2>1. CASE g = f
    BY <1>1, <2>1 DEF Chain
  <2>2. CASE g # f
    BY <2>2 DEF Chain, Idle
  <2> QED
    BY <2>1, <2>2
<1>8. \A g, x \in Flows : Active(g)' /\ Active(x)' /\ flow'[g].sp = flow'[x].sp => g = x
  BY <1>2 DEF Chain
<1>9. \A k \in 0..(depth' - 1) : \E g \in Flows : Active(g)' /\ flow'[g].sp = k
  <2> TAKE k \in 0..(depth' - 1)
  <2>1. k \in 0..(depth - 1) /\ k # flow[f].sp
    BY <1>1, <1>3, <1>4
  <2>2. PICK g \in Flows : Active(g) /\ flow[g].sp = k
    BY <2>1 DEF Chain
  <2> QED
    BY <1>2, <2>1, <2>2
<1> QED
  BY <1>6, <1>7, <1>8, <1>9 DEF Chain

LEMMA ChainStep ==
    ASSUME Resting, Chain, ~Overlaps, [PgTxNext]_pgtxVars
    PROVE  Chain'
<1>1. CASE UNCHANGED <<flow, txClient, depth>>
  BY <1>1 DEF Chain, Active
<1>2. ASSUME NEW f \in Flows, Call(f) \/ ConnectFails(f) \/ Connects(f) \/ Enters(f)
      PROVE  Chain'
  BY <1>2, ChainCalls, ChainRefused, ChainConnects, ChainEnters
<1>3. ASSUME NEW f \in Flows,
             Throws(f) \/ Commits(f) \/ CommitFails(f) \/ Releases(f) \/ RollsBack(f)
             \/ WriteFails(f)
      PROVE  Chain'
  <2>1. /\ flow[f].at \in {"running", "caught"} /\ flow[f] \in FlowStates
        /\ flow \in [Flows -> FlowStates] /\ Active(f)
    BY <1>3, ActiveOnes DEF Resting, DriverTyped, Throws, Commits, CommitFails, Releases,
       RollsBack, WriteFails, Runs, Active
  <2>2. UNCHANGED <<txClient, depth>>
    BY <1>3 DEF Throws, Commits, CommitFails, Releases, RollsBack, WriteFails
  <2>3. ASSUME NEW error \in Errors, error # "none", flow' = Catches(f, error)
        PROVE  Chain'
    <3> DEFINE r == [flow[f] EXCEPT !.at = "caught", !.error = error]
    <3>1. r \in FlowStates /\ r.at = "caught" /\ r.top = flow[f].top /\ r.error # "none"
          /\ r.client = flow[f].client /\ r.entered = flow[f].entered /\ r.sp = flow[f].sp
          /\ flow' = [flow EXCEPT ![f] = r]
      BY <2>1, <2>3 DEF FlowStates, Ats, Catches
    <3> HIDE DEF r
    <3> QED
      BY <2>1, <2>2, <3>1, ChainGoesOn
  <2>4. ASSUME flow' = Goes(f, "leaving")
        PROVE  Chain'
    <3> DEFINE r == [flow[f] EXCEPT !.at = "leaving"]
    <3>1. r \in FlowStates /\ r.at = "leaving" /\ r.top = flow[f].top
          /\ r.client = flow[f].client /\ r.entered = flow[f].entered /\ r.sp = flow[f].sp
          /\ flow' = [flow EXCEPT ![f] = r]
      BY <2>1, <2>4 DEF FlowStates, Ats, Goes
    <3> HIDE DEF r
    <3> QED
      BY <2>1, <2>2, <3>1, ChainGoesOn
  <2>5. ASSUME NEW p \in BOOLEAN, flow' = [flow EXCEPT ![f].at = "leaving", ![f].poisoned = p]
        PROVE  Chain'
    <3> DEFINE r == [flow[f] EXCEPT !.at = "leaving", !.poisoned = p]
    <3>1. r \in FlowStates /\ r.at = "leaving" /\ r.top = flow[f].top
          /\ r.client = flow[f].client /\ r.entered = flow[f].entered /\ r.sp = flow[f].sp
          /\ flow' = [flow EXCEPT ![f] = r]
      BY <2>1, <2>5 DEF FlowStates, Ats
    <3> HIDE DEF r
    <3> QED
      BY <2>1, <2>2, <3>1, ChainGoesOn
  <2>6. \/ \E error \in Errors : error # "none" /\ flow' = Catches(f, error)
        \/ flow' = Goes(f, "leaving")
        \/ \E p \in BOOLEAN : flow' = [flow EXCEPT ![f].at = "leaving", ![f].poisoned = p]
    <3>1. CASE Throws(f) \/ WriteFails(f)
      BY <3>1 DEF Throws, WriteFails, Errors
    <3>2. CASE Commits(f) \/ Releases(f)
      BY <3>2 DEF Commits, Releases, Errors
    <3>3. CASE CommitFails(f)
      BY <3>3 DEF CommitFails, Errors
    <3>4. CASE RollsBack(f)
      <4> DEFINE ok == IF flow[f].top THEN ~session[flow[f].client].dead
                       ELSE Has(session[flow[f].client], flow[f].sp)
      <4>1. flow' = [flow EXCEPT ![f].at = "leaving", ![f].poisoned = ~ok]
        BY <3>4 DEF RollsBack
      <4> HIDE DEF ok
      <4>2. (~ok) \in BOOLEAN
        OBVIOUS
      <4> QED
        BY <4>1, <4>2
    <3> QED
      BY <1>3, <3>1, <3>2, <3>3, <3>4
  <2> QED
    BY <2>3, <2>4, <2>5, <2>6
<1>4. ASSUME NEW f \in Flows, Succeeds(f) \/ Fails(f) \/ Retries(f)
      PROVE  Chain'
  <2>1. /\ flow[f].at = "leaving" /\ Puts(f) /\ flow[f] \in FlowStates
        /\ flow \in [Flows -> FlowStates]
    BY <1>4 DEF Succeeds, Fails, Retries, Resting, DriverTyped
  <2>2. CASE Succeeds(f) \/ Fails(f)
    <3>1. PICK step \in {"done", "failed"} : flow' = Goes(f, step)
      BY <2>2 DEF Succeeds, Fails
    <3>2. /\ flow'[f].at = step
          /\ \A g \in Flows : g # f => flow'[g] = flow[g]
      BY <2>1, <3>1 DEF Goes, FlowStates, Ats
    <3> QED
      BY <2>1, <3>2, ChainSettles
  <2>3. CASE Retries(f)
    <3> DEFINE r == [Idle EXCEPT !.at = "queued", !.top = TRUE, !.attempt = flow[f].attempt + 1]
    <3>1. r.at = "queued" /\ r.error = "none"
      BY DEF Idle
    <3>2. /\ flow' = [g \in Flows |-> IF g = f THEN r
                                      ELSE IF Outer[g] = f THEN Idle ELSE flow[g]]
          /\ flow[f].top
      BY <2>3 DEF Retries, Again
    <3> HIDE DEF r
    <3>3. \A g \in Flows : Outer[g] = f => Settled(g)
      BY <2>1, LastOfChain DEF Inner
    <3>4. /\ flow'[f] = r
          /\ \A g \in Flows : g # f => flow'[g] = flow[g] \/ (Settled(g) /\ flow'[g] = Idle)
      BY <3>2, <3>3
    <3> QED
      BY <2>1, <3>1, <3>2, <3>4, ChainSettles
  <2> QED
    BY <1>4, <2>2, <2>3
<1>5. ASSUME PlainWrite \/ (\E c \in Clients : Dies(c)) \/ (\E f \in Flows : Write(f))
             \/ UNCHANGED pgtxVars
      PROVE  UNCHANGED <<flow, txClient, depth>>
  BY <1>5 DEF PlainWrite, Dies, Write, pgtxVars
<1>6. ASSUME NEW f \in Flows,
             Call(f) \/ ConnectFails(f) \/ CommitFails(f) \/ WriteFails(f) \/ Steps(f)
      PROVE  Chain'
  <2>1. \/ Call(f) \/ ConnectFails(f) \/ Connects(f) \/ Enters(f)
        \/ Throws(f) \/ Commits(f) \/ CommitFails(f) \/ Releases(f) \/ RollsBack(f)
        \/ WriteFails(f)
        \/ Succeeds(f) \/ Fails(f) \/ Retries(f)
    BY <1>6 DEF Steps
  <2> QED
    BY <1>2, <1>3, <1>4, <2>1
<1> QED
  BY <1>1, <1>5, <1>6 DEF PgTxNext

-----------------------------------------------------------------------------
(* What the sequence of savepoints is after it is cut or grows. *)
LEMMA SavesCut ==
    ASSUME NEW s \in Sessions, NEW k \in 0..Len(s.saves), NEW t,
           t.saves = SubSeq(s.saves, 1, k)
    PROVE  /\ Len(t.saves) = k /\ \A i \in 1..k : t.saves[i] = s.saves[i]
           /\ \A sp : LastSave(s, sp) <= k => LastSave(t, sp) = LastSave(s, sp)
<1>1. s.saves \in Seq([sp : Nat, work : SUBSET Nat]) /\ Len(s.saves) \in Nat
      /\ DOMAIN s.saves = 1..Len(s.saves)
  BY DEF Sessions, Saves
<1>2. /\ \A i \in 1..k : i \in 1..Len(s.saves)
      /\ \A i \in 1..k : s.saves[i] \in [sp : Nat, work : SUBSET Nat]
  <2>1. \A i \in 1..k : i \in 1..Len(s.saves)
    BY <1>1
  <2> QED
    BY <1>1, <2>1, ElementOfSeq
<1>3. /\ t.saves \in Seq([sp : Nat, work : SUBSET Nat]) /\ Len(t.saves) = k
      /\ \A i \in 1..k : t.saves[i] = s.saves[i]
  BY <1>1, <1>2, SubSeqProperties
<1>4. DOMAIN t.saves = 1..k
  BY <1>3
<1>5. ASSUME NEW sp, LastSave(s, sp) <= k
      PROVE  LastSave(t, sp) = LastSave(s, sp)
  <2>1. \A i \in 1..Len(s.saves) : s.saves[i].sp = sp => i <= k
    <3>1. \A i \in 1..Len(s.saves) : s.saves[i].sp = sp => i <= LastSave(s, sp)
      BY LastSaveFound
    <3>2. LastSave(s, sp) \in 0..Len(s.saves)
      BY LastSaveFound
    <3> QED
      BY <1>1, <1>5, <3>1, <3>2
  <2>2. {i \in DOMAIN t.saves : t.saves[i].sp = sp} = {i \in DOMAIN s.saves : s.saves[i].sp = sp}
    BY <1>1, <1>2, <1>3, <1>4, <2>1
  <2> QED
    BY <2>2 DEF LastSave
<1> QED
  BY <1>3, <1>5

LEMMA SavesPushed ==
    ASSUME NEW s \in Sessions, NEW d \in Nat, NEW t \in Sessions, t = Saved(s, d)
    PROVE  /\ Len(t.saves) = Len(s.saves) + 1 /\ Len(s.saves) \in Nat
           /\ \A i \in 1..Len(s.saves) : t.saves[i] = s.saves[i]
           /\ t.saves[Len(s.saves) + 1].work = s.work
           /\ LastSave(t, d) = Len(s.saves) + 1
           /\ \A sp : sp # d => LastSave(t, sp) = LastSave(s, sp)
           /\ t.work = s.work /\ t.open = s.open /\ t.dead = s.dead /\ t.aborted = s.aborted
<1> DEFINE e == [sp |-> d, work |-> s.work]
<1>1. s.saves \in Seq([sp : Nat, work : SUBSET Nat]) /\ Len(s.saves) \in Nat
      /\ DOMAIN s.saves = 1..Len(s.saves) /\ e \in [sp : Nat, work : SUBSET Nat]
  BY DEF Sessions, Saves
<1>2. t.saves = Append(s.saves, e)
      /\ t.work = s.work /\ t.open = s.open /\ t.dead = s.dead /\ t.aborted = s.aborted
  BY DEF Saved, Sessions
<1>3. e.sp = d /\ e.work = s.work
  OBVIOUS
<1> HIDE DEF e
<1>4. /\ Len(t.saves) = Len(s.saves) + 1
      /\ \A i \in 1..Len(s.saves) : t.saves[i] = s.saves[i]
      /\ t.saves[Len(s.saves) + 1] = e
      /\ DOMAIN t.saves = 1..(Len(s.saves) + 1)
  BY <1>1, <1>2, AppendProperties
<1>5. LastSave(t, d) = Len(s.saves) + 1
  <2>1. Len(s.saves) + 1 \in 1..Len(t.saves) /\ t.saves[Len(s.saves) + 1].sp = d
    BY <1>1, <1>3, <1>4
  <2>2. Len(s.saves) + 1 <= LastSave(t, d) /\ LastSave(t, d) \in 0..Len(t.saves)
    BY <2>1, LastSaveFound
  <2> QED
    BY <1>1, <1>4, <2>2
<1>6. ASSUME NEW sp, sp # d
      PROVE  LastSave(t, sp) = LastSave(s, sp)
  <2>1. \A i \in 1..(Len(s.saves) + 1) : i \in 1..Len(s.saves) \/ i = Len(s.saves) + 1
    BY <1>1
  <2>2. {i \in DOMAIN t.saves : t.saves[i].sp = sp} = {i \in DOMAIN s.saves : s.saves[i].sp = sp}
    BY <1>1, <1>3, <1>4, <1>6, <2>1
  <2> QED
    BY <2>2 DEF LastSave
<1> QED
  BY <1>1, <1>2, <1>3, <1>4, <1>5, <1>6

LEMMA CurrentIs ==
    ASSUME Resting
    PROVE  /\ Current \in Sessions
           /\ txClient \in Clients => Current = session[txClient]
           /\ Current.saves \in Seq([sp : Nat, work : SUBSET Nat]) /\ Len(Current.saves) \in Nat
           /\ \A sp : LastSave(Current, sp) \in 0..Len(Current.saves)
<1>1. Current \in Sessions
  BY FreshIsSession DEF Resting, DriverTyped, Current
<1>2. txClient \in Clients => Current = session[txClient]
  BY DEF Current, Resting, PgTxAssumption
<1> QED
  BY <1>1, <1>2, LastSaveFound

(* In a session that is fresh or dead there is nothing. *)
LEMMA NothingIn ==
    /\ \A s \in {Fresh, Dead} :
          /\ s.work = {} /\ s.saves = << >> /\ ~s.aborted /\ ~s.open
          /\ Len(s.saves) = 0 /\ \A sp : LastSave(s, sp) = 0
    /\ Dead.dead /\ ~Fresh.dead /\ Dead # Fresh
<1>1. \A s \in {Fresh, Dead} : s.work = {} /\ s.saves = << >> /\ ~s.aborted /\ ~s.open
  BY DEF Fresh, Dead, Ended
<1>2. \A s \in {Fresh, Dead} : Len(s.saves) = 0
  BY <1>1
<1>3. Dead.dead /\ ~Fresh.dead /\ Dead # Fresh
  BY DEF Fresh, Dead, Ended
<1>4. \A s \in {Fresh, Dead} : \A sp : LastSave(s, sp) = 0
  <2> TAKE s \in {Fresh, Dead}
  <2> TAKE sp
  <2>1. s \in Sessions
    BY FreshIsSession
  <2>2. LastSave(s, sp) \in 0..Len(s.saves)
    BY <2>1, LastSaveFound
  <2> QED
    BY <1>2, <2>2
<1> QED
  BY <1>1, <1>2, <1>3, <1>4

-----------------------------------------------------------------------------
(* A call goes on, and the transaction holds what it held. *)
LEMMA DataGoesOn ==
    ASSUME Resting, Chain, PgData, NEW f \in Flows, NEW r \in FlowStates,
           flow' = [flow EXCEPT ![f] = r], r.sp = flow[f].sp, r.top = flow[f].top,
           flow[f].at \in {"entering", "running", "caught"},
           \/ r.at = "caught"
           \/ r.at = "running" /\ flow[f].at = "entering"
           \/ r.at = "leaving" /\ r.error # "none" /\ Current = Dead,
           Current' = Current \/ Current' = Aborted(Current),
           Current'.aborted => r.at = "caught" \/ (Current.aborted /\ flow[f].at # "caught"),
           UNCHANGED <<stored, used, mine, promised, refused, doubt>>
    PROVE  PgData'
<1> USE DEF PgData
<1>1. /\ flow'[f] = r /\ \A g \in Flows : g # f => flow'[g] = flow[g]
      /\ \A g \in Flows : flow'[g].sp = flow[g].sp /\ flow'[g].top = flow[g].top
  BY DEF Resting, DriverTyped
<1>2. /\ Current'.work = Current.work /\ Current'.saves = Current.saves
      /\ Current'.dead = Current.dead /\ Current'.open = Current.open
      /\ Current' = Current \/ Current.open
  BY CurrentIs DEF Sessions, Aborted
<1>3. /\ \A g \in Flows : /\ Active(g)' <=> Active(g)
                          /\ Saving(g)' => Saving(g)
                          /\ Settled(g)' <=> Settled(g)
      /\ \A g \in Flows : SaveOf(g)' = SaveOf(g)
  <2>1. \A g \in Flows : /\ Active(g)' <=> Active(g)
                         /\ Saving(g)' => Saving(g)
                         /\ Settled(g)' <=> Settled(g)
    BY <1>1 DEF Active, Saving, Settled
  <2>2. \A g \in Flows : SaveOf(g)' = SaveOf(g)
    BY <1>1, <1>2, ZenonT(60) DEF SaveOf, LastSave
  <2> QED
    BY <2>1, <2>2
<1>4. Opened'
  <2>1. Current'.open \/ Current' \in {Fresh, Dead}
    BY <1>2 DEF Opened
  <2>2. \A g \in Flows : flow'[g].at \in {"entering", "running"} => Current'.open \/ Current'.dead
    BY <1>1, <1>2 DEF Opened
  <2>3. Current'.aborted => \E g \in Flows : flow'[g].at = "caught"
    <3>1. CASE r.at = "caught"
      BY <1>1, <3>1
    <3>2. CASE r.at # "caught"
      <4>1. Current'.aborted => \E g \in Flows : flow[g].at = "caught" /\ g # f
        BY <3>2 DEF Opened
      <4> QED
        BY <1>1, <4>1
    <3> QED
      BY <3>1, <3>2
  <2>4. ~(Current'.open /\ Current'.dead)
    BY <1>2 DEF Opened
  <2> QED
    BY <2>1, <2>2, <2>3, <2>4 DEF Opened
<1>5. Secured'
  BY <1>1, <1>2, <1>3 DEF Secured
<1>6. Written'
  <2>1. ASSUME NEW g \in Flows, g # f
        PROVE  /\ flow'[g].at = "running" \/ (flow'[g].at = "leaving" /\ ~flow'[g].top
                                              /\ flow'[g].error = "none") =>
                     Current'.dead \/ mine'[g] \subseteq Current'.work
               /\ flow'[g].at = "leaving" /\ ~flow'[g].top =>
                     /\ \A i \in 1..Len(Current'.saves) : mine'[g] \cap Current'.saves[i].work = {}
                     /\ flow'[g].error # "none" => mine'[g] \cap Current'.work = {}
               /\ flow'[g].at \in {"idle", "queued", "entering"} => mine'[g] = {}
    BY <1>1, <1>2, <2>1 DEF Written
  <2>2. flow[f].at = "entering" => mine[f] = {}
    BY DEF Written
  <2>3. r.at = "leaving" => Current.dead /\ Current.work = {} /\ Len(Current.saves) = 0
    BY NothingIn
  <2>4. /\ r.at = "running" => mine'[f] = {}
        /\ r.at = "leaving" => /\ r.error # "none" /\ Current'.work = {}
                               /\ Len(Current'.saves) = 0
        /\ r.at \in {"running", "leaving", "caught"}
    BY <1>2, <2>2, <2>3
  <2>5. /\ flow'[f].at = "running" \/ (flow'[f].at = "leaving" /\ ~flow'[f].top
                                       /\ flow'[f].error = "none") =>
                     Current'.dead \/ mine'[f] \subseteq Current'.work
        /\ flow'[f].at = "leaving" /\ ~flow'[f].top =>
              /\ \A i \in 1..Len(Current'.saves) : mine'[f] \cap Current'.saves[i].work = {}
              /\ flow'[f].error # "none" => mine'[f] \cap Current'.work = {}
        /\ flow'[f].at \in {"idle", "queued", "entering"} => mine'[f] = {}
    BY <1>1, <2>4
  <2> QED
    BY <2>1, <2>5 DEF Written
<1>7. Undone'
  BY <1>2 DEF Undone
<1>8. Durable'
  <2>1. ASSUME NEW g \in Flows, ~Settled(g)'
        PROVE  IF flow'[g].top /\ flow'[g].at = "leaving" /\ flow'[g].error = "none"
               THEN mine'[g] \subseteq stored' ELSE mine'[g] \cap stored' \subseteq doubt'
    <3>1. CASE g # f
      BY <1>1, <1>3, <2>1, <3>1 DEF Durable
    <3>2. CASE g = f
      BY <1>1, <1>3, <2>1, <3>2 DEF Durable
    <3> QED
      BY <3>1, <3>2
  <2> QED
    BY <2>1 DEF Durable, PgAllOrNothing
<1>9. Numbered'
  BY <1>2 DEF Numbered
<1> QED
  BY <1>4, <1>5, <1>6, <1>7, <1>8, <1>9

(* The transaction ends, or its connection is lost. *)
LEMMA DataEnds ==
    ASSUME Resting, Chain, PgData, Current' \in {Fresh, Dead},
           \A g \in Flows : flow'[g] # flow[g] => flow'[g].at \in {"caught", "leaving"},
           Current' = Fresh =>
               \A g \in Flows : Active(g)' => flow'[g].top /\ flow'[g].at \in {"caught", "leaving"},
           Durable', stored' \subseteq 1..used,
           UNCHANGED <<used, mine, promised, refused>>
    PROVE  PgData'
<1> USE DEF PgData
<1>1. /\ Current'.work = {} /\ Len(Current'.saves) = 0 /\ ~Current'.aborted /\ ~Current'.open
      /\ \A sp : LastSave(Current', sp) = 0
      /\ Current'.dead <=> Current' = Dead
  BY NothingIn
<1>2. Opened'
  <2>1. \A g \in Flows : flow'[g].at \in {"entering", "running"} => Current'.dead
    BY <1>1 DEF Active
  <2> QED
    BY <1>1, <2>1 DEF Opened
<1>3. Secured'
  <2>1. \A g \in Flows : SaveOf(g)' = 0
    BY <1>1 DEF SaveOf
  <2>2. \A g \in Flows : Saving(g)' => Current'.dead
    BY <1>1 DEF Saving, Active
  <2> QED
    BY <2>1, <2>2 DEF Secured
<1>4. Written'
  <2>1. \A g \in Flows : flow'[g].at = "running" \/ (flow'[g].at = "leaving" /\ ~flow'[g].top) =>
           Current'.dead
    BY <1>1 DEF Active
  <2>2. \A g \in Flows : flow'[g].at \in {"idle", "queued", "entering"} => mine'[g] = {}
    BY DEF Written
  <2> QED
    BY <1>1, <2>1, <2>2 DEF Written
<1>5. Undone' /\ Numbered'
  BY <1>1 DEF Undone, Numbered
<1> QED
  BY <1>2, <1>3, <1>4, <1>5

(* Where a callback runs and awaits nothing, no error has aborted the       *)
(* transaction.                                                             *)
LEMMA RunsOnOpen ==
    ASSUME Resting, Chain, PgData, NEW f \in Flows, Runs(f)
    PROVE  /\ Active(f) /\ flow[f].at = "running" /\ flow[f].error = "none"
           /\ flow[f].client = txClient /\ txClient \in Clients /\ Current = session[txClient]
           /\ \A g \in Flows : Active(g) => flow[g].at = "running"
           /\ \A g \in Flows : Active(g) /\ g # f => flow[g].sp < flow[f].sp
           /\ flow[f].top => (\A g \in Flows : Active(g) => g = f)
           /\ ~Current.aborted /\ (Current.open \/ Current.dead)
           /\ Current.dead => Current = Dead
<1>1. Active(f) /\ flow[f].at = "running" /\ \A g \in Inner(f) : Settled(g)
  BY DEF Runs, Active
<1>2. /\ flow[f].client = txClient /\ txClient \in Clients /\ flow[f].error = "none"
      /\ flow[f].top => flow[f].sp = 0
  BY <1>1 DEF Chain
<1>3. \A g \in Flows : Active(g) /\ g # f => flow[g].at = "running" /\ flow[g].sp < flow[f].sp
  BY <1>1, Innermost
<1>4. flow[f].top => (\A g \in Flows : Active(g) => g = f)
  BY <1>2, <1>3, ActiveOnes
<1>5. ~Current.aborted
  <2>1. \A g \in Flows : flow[g].at = "caught" => Active(g) /\ g # f
    BY <1>1 DEF Active
  <2> QED
    BY <1>3, <2>1 DEF PgData, Opened
<1>6. Current.open \/ Current.dead
  BY <1>1 DEF PgData, Opened
<1>7. Current.dead => Current = Dead
  BY NothingIn DEF PgData, Opened
<1> QED
  BY <1>1, <1>2, <1>3, <1>4, <1>5, <1>6, <1>7, CurrentIs

(* The steps that leave a transaction what it has. *)
LEMMA DataFails ==
    ASSUME Resting, Chain, PgData, NEW f \in Flows, Throws(f) \/ WriteFails(f)
    PROVE  PgData'
<1>1. PICK error \in Errors : flow' = Catches(f, error)
  BY DEF Throws, WriteFails, Errors
<1>2. Runs(f) /\ UNCHANGED <<txClient, stored, used, mine, promised, refused, doubt>>
  BY DEF Throws, WriteFails, History
<1> DEFINE r == [flow[f] EXCEPT !.at = "caught", !.error = error]
<1>3. /\ r \in FlowStates /\ r.at = "caught" /\ r.sp = flow[f].sp /\ r.top = flow[f].top
      /\ flow' = [flow EXCEPT ![f] = r]
  <2>1. flow \in [Flows -> FlowStates]
    BY DEF Resting, DriverTyped
  <2> QED
    BY <1>1, <2>1 DEF FlowStates, Ats, Catches
<1> HIDE DEF r
<1>4. Current' = Current \/ Current' = Aborted(Current)
  <2>1. /\ txClient \in Clients /\ txClient # NoClient /\ Current = session[txClient]
        /\ Current' = session'[txClient]
    BY <1>2, RunsOnOpen DEF Current, Resting, PgTxAssumption
  <2>2. session' = session \/ session' = [session EXCEPT ![txClient] = Aborted(@)]
    BY DEF Throws, WriteFails
  <2> QED
    BY <2>1, <2>2 DEF Resting, DriverTyped
<1>5. flow[f].at = "running"
  BY <1>2 DEF Runs
<1> QED
  BY <1>2, <1>3, <1>4, <1>5, DataGoesOn

LEMMA DataEnters ==
    ASSUME Resting, Chain, PgData, NEW f \in Flows, Enters(f)
    PROVE  PgData'
<1> DEFINE dead == session[flow[f].client].dead
           r == IF dead THEN [flow[f] EXCEPT !.at = "leaving", !.poisoned = TRUE, !.error = "other"]
                ELSE [flow[f] EXCEPT !.at = "running", !.entered = TRUE]
<1>1. flow' = [flow EXCEPT ![f] = r]
  BY DEF Enters
<1>2. /\ flow[f].at = "entering"
      /\ UNCHANGED <<session, txClient, stored, used, mine, promised, refused, doubt>>
  BY DEF Enters, History
<1>3. /\ r \in FlowStates /\ r.sp = flow[f].sp /\ r.top = flow[f].top
      /\ dead => r.at = "leaving" /\ r.error # "none"
      /\ ~dead => r.at = "running"
  <2>1. flow[f] \in FlowStates
    BY ActiveOnes
  <2>2. CASE dead
    <3>1. r = [flow[f] EXCEPT !.at = "leaving", !.poisoned = TRUE, !.error = "other"]
      BY <2>2
    <3> QED
      BY <2>1, <2>2, <3>1 DEF FlowStates, Ats, Errors
  <2>3. CASE ~dead
    <3>1. r = [flow[f] EXCEPT !.at = "running", !.entered = TRUE]
      BY <2>3
    <3> QED
      BY <2>1, <2>3, <3>1 DEF FlowStates, Ats, Errors
  <2> QED
    BY <2>2, <2>3
<1>4. flow[f].client = txClient /\ txClient \in Clients
  BY <1>2 DEF Chain, Active
<1>5. dead => Current = Dead
  BY <1>4, CurrentIs, NothingIn DEF PgData, Opened
<1>6. Current' = Current
  BY <1>2 DEF Current
<1> HIDE DEF r, dead
<1> QED
  BY <1>1, <1>2, <1>3, <1>5, <1>6, DataGoesOn

LEMMA DataCommits ==
    ASSUME Resting, Chain, PgData, NEW f \in Flows, Commits(f)
    PROVE  PgData'
<1>1. /\ Runs(f) /\ flow[f].top /\ UNCHANGED <<txClient, used, mine, promised, refused, doubt>>
  BY DEF Commits, History
<1>2. /\ flow[f].at = "running" /\ flow[f].error = "none"
      /\ flow[f].client = txClient /\ txClient \in Clients /\ Current = session[txClient]
      /\ \A g \in Flows : Active(g) => g = f
      /\ ~Current.aborted /\ Current' = session'[txClient]
  BY <1>1, RunsOnOpen DEF Current, Resting, PgTxAssumption
<1>3. flow \in [Flows -> FlowStates] /\ session \in [Clients -> Sessions]
  BY DEF Resting, DriverTyped
<1>4. CASE Current.dead
  <2> DEFINE r == [flow[f] EXCEPT !.at = "caught", !.error = "other"]
  <2>1. /\ r \in FlowStates /\ r.at = "caught" /\ r.sp = flow[f].sp /\ r.top = flow[f].top
        /\ flow' = [flow EXCEPT ![f] = r]
    BY <1>2, <1>3, <1>4 DEF FlowStates, Ats, Errors, Catches, Commits
  <2>2. Current' = Current /\ stored' = stored
    BY <1>2, <1>4 DEF Commits
  <2> HIDE DEF r
  <2> QED
    BY <1>1, <1>2, <2>1, <2>2, DataGoesOn
<1>5. CASE ~Current.dead
  <2>1. /\ stored' = stored \cup Current.work /\ session' = [session EXCEPT ![txClient] = Fresh]
        /\ flow' = [flow EXCEPT ![f].at = "leaving"]
    BY <1>2, <1>5 DEF Commits, Ended, Goes
  <2>2. Current' = Fresh
    BY <1>2, <1>3, <2>1
  <2>3. /\ flow'[f] = [flow[f] EXCEPT !.at = "leaving"] /\ flow'[f].at = "leaving"
        /\ flow'[f].top /\ flow'[f].error = "none"
        /\ \A g \in Flows : g # f => flow'[g] = flow[g]
    BY <1>1, <1>2, <1>3, <2>1 DEF FlowStates
  <2>4. mine[f] \subseteq Current.work
    BY <1>2, <1>5 DEF PgData, Written
  <2>5. stored' \subseteq 1..used
    BY <2>1 DEF PgData, Numbered
  <2>6. Durable'
    <3>1. ASSUME NEW g \in Flows, ~Settled(g)'
          PROVE  IF flow'[g].top /\ flow'[g].at = "leaving" /\ flow'[g].error = "none"
                 THEN mine'[g] \subseteq stored' ELSE mine'[g] \cap stored' \subseteq doubt'
      <4>1. CASE g = f
        BY <1>1, <2>1, <2>3, <2>4, <4>1
      <4>2. CASE g # f
        <5>1. ~Settled(g) /\ ~Active(g) /\ flow'[g] = flow[g]
          BY <1>2, <2>3, <3>1, <4>2 DEF Settled
        <5>2. flow[g].at = "queued"
          BY <5>1, ActiveOnes
        <5>3. mine'[g] = {}
          BY <1>1, <5>2 DEF PgData, Written
        <5> QED
          BY <5>1, <5>2, <5>3
      <4> QED
        BY <4>1, <4>2
    <3>2. PgAllOrNothing'
      BY <1>1, <2>1 DEF PgData, Durable, PgAllOrNothing, Undone
    <3> QED
      BY <3>1, <3>2 DEF Durable
  <2>7. \A g \in Flows : Active(g)' => flow'[g].top /\ flow'[g].at \in {"caught", "leaving"}
    BY <1>2, <2>3 DEF Active
  <2> QED
    BY <1>1, <2>2, <2>3, <2>5, <2>6, <2>7, DataEnds
<1> QED
  BY <1>4, <1>5

LEMMA DataCommitFails ==
    ASSUME Resting, Chain, PgData, NEW f \in Flows, CommitFails(f)
    PROVE  PgData'
<1>1. /\ Runs(f) /\ flow[f].top /\ UNCHANGED <<txClient, used, mine, promised, refused>>
  BY DEF CommitFails
<1>2. /\ flow[f].client = txClient /\ txClient \in Clients /\ Current = session[txClient]
      /\ \A g \in Flows : Active(g) => g = f
      /\ flow[f].at = "running" /\ Current' = session'[txClient]
  BY <1>1, RunsOnOpen DEF Current, Resting, PgTxAssumption
<1>3. flow \in [Flows -> FlowStates] /\ session \in [Clients -> Sessions]
  BY DEF Resting, DriverTyped
<1>4. PICK error \in Errors, s \in {Fresh, Dead}, more \in {{}, Current.work} :
         /\ flow' = Catches(f, error) /\ session' = [session EXCEPT ![txClient] = s]
         /\ stored' = stored \cup more /\ doubt' = doubt \cup more
  <2>1. CASE /\ session' = [session EXCEPT ![txClient] = Fresh]
             /\ flow' = Catches(f, "transient") /\ UNCHANGED <<stored, doubt>>
    <3>1. stored' = stored \cup {} /\ doubt' = doubt \cup {}
      BY <2>1
    <3> QED
      BY <2>1, <3>1 DEF Errors
  <2>2. CASE /\ session' = [session EXCEPT ![txClient] = Dead]
             /\ flow' = Catches(f, "other")
             /\ stored' = stored \cup Current.work /\ doubt' = doubt \cup Current.work
    BY <2>2 DEF Errors
  <2> QED
    BY <1>2, <2>1, <2>2 DEF CommitFails, Ended, Dead
<1>5. Current' \in {Fresh, Dead}
  BY <1>2, <1>3, <1>4
<1>6. /\ flow'[f].at = "caught" /\ flow'[f].top
      /\ \A g \in Flows : g # f => flow'[g] = flow[g]
  BY <1>1, <1>3, <1>4 DEF FlowStates, Catches
<1>7. stored' \subseteq 1..used
  BY <1>4 DEF PgData, Numbered
<1>8. Durable'
  <2>1. ASSUME NEW g \in Flows, ~Settled(g)'
        PROVE  IF flow'[g].top /\ flow'[g].at = "leaving" /\ flow'[g].error = "none"
               THEN mine'[g] \subseteq stored' ELSE mine'[g] \cap stored' \subseteq doubt'
    <3>1. CASE g = f
      <4>1. mine[f] \cap stored \subseteq doubt
        BY <1>2 DEF PgData, Durable, Settled
      <4> QED
        BY <1>1, <1>4, <1>6, <3>1, <4>1
    <3>2. CASE g # f
      <4>1. ~Settled(g) /\ ~Active(g) /\ flow'[g] = flow[g]
        BY <1>2, <1>6, <2>1, <3>2 DEF Settled
      <4>2. flow[g].at = "queued"
        BY <4>1, ActiveOnes
      <4>3. mine'[g] = {}
        BY <1>1, <4>2 DEF PgData, Written
      <4> QED
        BY <4>1, <4>2, <4>3
    <3> QED
      BY <3>1, <3>2
  <2>2. PgAllOrNothing'
    BY <1>1, <1>4 DEF PgData, Durable, PgAllOrNothing
  <2> QED
    BY <2>1, <2>2 DEF Durable
<1>9. \A g \in Flows : Active(g)' => flow'[g].top /\ flow'[g].at \in {"caught", "leaving"}
  BY <1>2, <1>6 DEF Active
<1> QED
  BY <1>1, <1>5, <1>6, <1>7, <1>8, <1>9, DataEnds

LEMMA DataDies ==
    ASSUME Resting, Chain, PgData, NEW c \in Clients, Dies(c)
    PROVE  PgData'
<1>1. /\ c \notin free /\ session' = [session EXCEPT ![c] = Dead]
      /\ UNCHANGED <<stored, txClient, flow, used, mine, promised, refused, doubt>>
  BY DEF Dies, Dead, History
<1>2. txClient = c /\ c # NoClient
  BY <1>1 DEF Resting, OneHolder, PgTxAssumption
<1>3. Current' = Dead
  BY <1>1, <1>2 DEF Current, Resting, DriverTyped
<1>4. Durable'
  BY <1>1 DEF PgData, Durable, PgAllOrNothing, Settled
<1>5. stored' \subseteq 1..used
  BY <1>1 DEF PgData, Numbered
<1> QED
  BY <1>1, <1>3, <1>4, <1>5, NothingIn, DataEnds

LEMMA DataReleases ==
    ASSUME Resting, Chain, PgData, NEW f \in Flows, Releases(f)
    PROVE  PgData'
<1> DEFINE ok == Has(session[flow[f].client], flow[f].sp) /\ ~session[flow[f].client].aborted
<1>1. /\ Runs(f) /\ ~flow[f].top
      /\ session' = [session EXCEPT ![flow[f].client] =
                        IF ok THEN Released(@, flow[f].sp) ELSE Aborted(@)]
      /\ flow' = IF ok THEN Goes(f, "leaving") ELSE Catches(f, "other")
      /\ UNCHANGED <<stored, txClient, used, mine, promised, refused, doubt>>
  BY DEF Releases, History
<1>2. /\ flow[f].client = txClient /\ txClient \in Clients /\ Current = session[txClient]
      /\ flow[f].at = "running" /\ flow[f].error = "none" /\ Active(f)
      /\ \A g \in Flows : Active(g) => flow[g].at = "running"
      /\ \A g \in Flows : Active(g) /\ g # f => flow[g].sp < flow[f].sp
      /\ Current' = session'[txClient] /\ ~Current.aborted
      /\ flow \in [Flows -> FlowStates] /\ session \in [Clients -> Sessions]
      /\ Current \in Sessions
  BY <1>1, RunsOnOpen, CurrentIs DEF Current, Resting, DriverTyped, PgTxAssumption
<1>3. CASE ~ok
  <2> DEFINE r == [flow[f] EXCEPT !.at = "caught", !.error = "other"]
  <2>1. /\ r \in FlowStates /\ r.at = "caught" /\ r.sp = flow[f].sp /\ r.top = flow[f].top
        /\ flow' = [flow EXCEPT ![f] = r]
    BY <1>1, <1>2, <1>3 DEF FlowStates, Ats, Errors, Catches
  <2>2. Current' = Aborted(Current)
    BY <1>1, <1>2, <1>3
  <2> HIDE DEF r
  <2> QED
    BY <1>1, <1>2, <2>1, <2>2, DataGoesOn
<1>4. CASE ok
  <2> DEFINE last == SaveOf(f)
  <2>1. /\ ~Current.dead /\ Current.open /\ last > 0
        /\ Current' = Released(Current, flow[f].sp)
        /\ flow' = [flow EXCEPT ![f].at = "leaving"]
    BY <1>1, <1>2, <1>4 DEF Has, Goes, SaveOf
  <2>2. /\ Current'.saves = SubSeq(Current.saves, 1, last - 1)
        /\ Current'.work = Current.work /\ Current'.open /\ ~Current'.dead /\ ~Current'.aborted
    BY <1>2, <2>1 DEF Released, Sessions, SaveOf
  <2>3. /\ last \in 1..Len(Current.saves) /\ Len(Current.saves) \in Nat
        /\ last - 1 \in 0..Len(Current.saves)
    BY <2>1, CurrentIs DEF SaveOf
  <2> HIDE DEF last
  <2>4. /\ Len(Current'.saves) = last - 1
        /\ \A i \in 1..(last - 1) : /\ Current'.saves[i] = Current.saves[i]
                                    /\ i \in 1..Len(Current.saves) /\ i \in 1..last
        /\ \A sp : LastSave(Current, sp) <= last - 1 =>
              LastSave(Current', sp) = LastSave(Current, sp)
    <3>1. \A i \in 1..(last - 1) : i \in 1..Len(Current.saves) /\ i \in 1..last
      BY <2>3
    <3>2. /\ Len(Current'.saves) = last - 1
          /\ \A i \in 1..(last - 1) : Current'.saves[i] = Current.saves[i]
          /\ \A sp : LastSave(Current, sp) <= last - 1 =>
                LastSave(Current', sp) = LastSave(Current, sp)
      <4> DEFINE s == Current
                 t == Current'
                 k == last - 1
      <4>1. s \in Sessions /\ k \in 0..Len(s.saves) /\ t.saves = SubSeq(s.saves, 1, k)
        BY <1>2, <2>2, <2>3
      <4> HIDE DEF s, t, k
      <4>2. /\ Len(t.saves) = k /\ \A i \in 1..k : t.saves[i] = s.saves[i]
            /\ \A sp : LastSave(s, sp) <= k => LastSave(t, sp) = LastSave(s, sp)
        BY <4>1, SavesCut
      <4> QED
        BY <4>2 DEF s, t, k
    <3> QED
      BY <3>1, <3>2
  <2>5. /\ flow'[f] = [flow[f] EXCEPT !.at = "leaving"] /\ flow'[f].at = "leaving"
        /\ ~flow'[f].top /\ flow'[f].error = "none"
        /\ \A g \in Flows : g # f => flow'[g] = flow[g]
        /\ \A g \in Flows : flow'[g].sp = flow[g].sp /\ flow'[g].top = flow[g].top
    BY <1>1, <1>2, <2>1 DEF FlowStates
  <2>6. /\ \A g \in Flows : Active(g)' <=> Active(g)
        /\ \A g \in Flows : Saving(g)' => Saving(g) /\ g # f /\ Active(g) /\ ~flow[g].top
    BY <1>2, <2>5 DEF Active, Saving
  <2>7. \A g \in Flows : Active(g) /\ g # f /\ ~flow[g].top =>
            SaveOf(g)' = SaveOf(g) /\ SaveOf(g) <= last - 1 /\ SaveOf(g) \in Nat
    <3> TAKE g \in Flows
    <3> HAVE Active(g) /\ g # f /\ ~flow[g].top
    <3>1. Saving(f) /\ flow[g].sp < flow[f].sp
      BY <1>1, <1>2 DEF Saving
    <3>2. SaveOf(g) < last
      BY <2>1, <3>1 DEF PgData, Secured, last
    <3>3. SaveOf(g) \in 0..Len(Current.saves)
      BY CurrentIs DEF SaveOf
    <3>4. SaveOf(g) <= last - 1
      BY <2>3, <3>2, <3>3
    <3> QED
      BY <2>4, <2>5, <3>3, <3>4 DEF SaveOf
  <2>8. Opened'
    BY <2>2 DEF Opened
  <2>9. Secured'
    <3> SUFFICES ASSUME NEW g \in Flows, Saving(g)'
                 PROVE  /\ \A i \in 1..SaveOf(g)' : mine'[g] \cap Current'.saves[i].work = {}
                        /\ SaveOf(g)' > 0
                        /\ \A o \in Flows : Active(o)' /\ flow'[o].sp < flow'[g].sp =>
                              /\ mine'[o] \subseteq Current'.saves[SaveOf(g)'].work
                              /\ ~flow'[o].top => SaveOf(o)' < SaveOf(g)'
      BY DEF Secured
    <3>1. /\ Saving(g) /\ g # f /\ Active(g) /\ ~flow[g].top
          /\ SaveOf(g)' = SaveOf(g) /\ SaveOf(g) <= last - 1 /\ SaveOf(g) \in Nat
      BY <2>6, <2>7
    <3>2. \A i \in 1..SaveOf(g) : i \in 1..(last - 1)
      BY <2>3, <3>1
    <3>3. SaveOf(g) > 0 /\ SaveOf(g) \in 1..(last - 1)
      BY <2>1, <2>3, <3>1 DEF PgData, Secured
    <3>4. \A i \in 1..SaveOf(g) : mine[g] \cap Current'.saves[i].work = {}
      BY <2>4, <3>1, <3>2 DEF PgData, Secured
    <3>5. ASSUME NEW o \in Flows, Active(o)', flow'[o].sp < flow'[g].sp
          PROVE  /\ mine'[o] \subseteq Current'.saves[SaveOf(g)].work
                 /\ ~flow'[o].top => SaveOf(o)' < SaveOf(g)
      <4>1. Active(o) /\ flow[o].sp < flow[g].sp /\ o # f
        <5>1. flow[g].sp < flow[f].sp /\ flow[g].sp \in Nat /\ flow[f].sp \in Nat
          BY <1>2, <3>1, ActiveOnes
        <5> QED
          BY <2>5, <2>6, <3>5, <5>1
      <4>2. /\ mine[o] \subseteq Current.saves[SaveOf(g)].work
            /\ ~flow[o].top => SaveOf(o) < SaveOf(g)
        BY <2>1, <3>1, <4>1 DEF PgData, Secured
      <4> QED
        BY <1>1, <2>4, <2>5, <2>7, <3>3, <4>1, <4>2
    <3> QED
      BY <1>1, <3>1, <3>3, <3>4, <3>5
  <2>10. Written'
    <3>1. \A i \in 1..(last - 1) : mine[f] \cap Current'.saves[i].work = {}
      <4>1. Saving(f)
        BY <1>1, <1>2 DEF Saving
      <4>2. \A i \in 1..last : mine[f] \cap Current.saves[i].work = {}
        BY <4>1 DEF PgData, Secured, last
      <4> QED
        BY <2>4, <4>2
    <3>2. mine[f] \subseteq Current'.work
      BY <1>2, <2>1, <2>2, SMTT(40) DEF PgData, Written
    <3>3. ASSUME NEW g \in Flows, g # f
          PROVE  /\ flow'[g].at = "running" => mine'[g] \subseteq Current'.work
                 /\ ~(flow'[g].at = "leaving")
                 /\ flow'[g].at \in {"idle", "queued", "entering"} => mine'[g] = {}
      BY <1>1, <1>2, <2>1, <2>2, <2>5, <3>3 DEF PgData, Written, Active
    <3> QED
      BY <1>1, <2>4, <2>5, <3>1, <3>2, <3>3 DEF Written
  <2>11. Undone' /\ Numbered'
    <3>1. Undone'
      BY <1>1, <2>2, <2>4 DEF PgData, Undone
    <3>2. Numbered'
      BY <1>1, <2>2, <2>4 DEF PgData, Numbered
    <3> QED
      BY <3>1, <3>2
  <2>12. Durable'
    <3>1. \A g \in Flows : Settled(g)' <=> Settled(g)
      BY <1>2, <2>5 DEF Settled
    <3>2. mine[f] \cap stored \subseteq doubt
      BY <1>2 DEF PgData, Durable, Settled
    <3>3. ASSUME NEW g \in Flows, ~Settled(g)'
          PROVE  IF flow'[g].top /\ flow'[g].at = "leaving" /\ flow'[g].error = "none"
                 THEN mine'[g] \subseteq stored' ELSE mine'[g] \cap stored' \subseteq doubt'
      <4>1. CASE g = f
        BY <1>1, <2>5, <3>2, <4>1
      <4>2. CASE g # f
        BY <1>1, <2>5, <3>1, <3>3, <4>2 DEF PgData, Durable
      <4> QED
        BY <4>1, <4>2
    <3> QED
      BY <1>1, <3>3 DEF PgData, Durable, PgAllOrNothing
  <2> QED
    BY <2>8, <2>9, <2>10, <2>11, <2>12 DEF PgData
<1> QED
  BY <1>3, <1>4

LEMMA DataRollsBack ==
    ASSUME Resting, Chain, PgData, NEW f \in Flows, RollsBack(f)
    PROVE  PgData'
<1> DEFINE ok == IF flow[f].top THEN ~session[flow[f].client].dead
                 ELSE Has(session[flow[f].client], flow[f].sp)
           r == [flow[f] EXCEPT !.at = "leaving", !.poisoned = ~ok]
<1>1. /\ flow[f].at = "caught" /\ flow[f].error # "none"
      /\ session' = [session EXCEPT ![flow[f].client] =
              IF ~ok THEN Aborted(@)
              ELSE IF flow[f].top THEN Ended ELSE RolledBackTo(@, flow[f].sp)]
      /\ flow' = [flow EXCEPT ![f].at = "leaving", ![f].poisoned = ~ok]
      /\ UNCHANGED <<stored, txClient, used, mine, promised, refused, doubt>>
  BY DEF RollsBack, History, Chain
<1>2. /\ flow[f].client = txClient /\ txClient \in Clients /\ Active(f)
      /\ \A g \in Flows : Active(g) /\ g # f => flow[g].at = "running"
      /\ \A g \in Flows : Active(g) /\ g # f => flow[g].sp < flow[f].sp
      /\ flow[f].top => (\A g \in Flows : Active(g) => g = f)
  BY <1>1, LastOfChain
<1>3. /\ Current = session[txClient] /\ Current' = session'[txClient] /\ Current \in Sessions
      /\ flow \in [Flows -> FlowStates] /\ session \in [Clients -> Sessions]
  BY <1>1, <1>2, CurrentIs DEF Current, Resting, DriverTyped, PgTxAssumption
<1>4. /\ r \in FlowStates /\ r.at = "leaving" /\ r.sp = flow[f].sp /\ r.top = flow[f].top
      /\ r.error # "none" /\ flow' = [flow EXCEPT ![f] = r]
  <2> HIDE DEF ok
  <2>1. (~ok) \in BOOLEAN
    OBVIOUS
  <2> QED
    BY <1>1, <1>3, <2>1 DEF FlowStates, Ats
<1> HIDE DEF r
<1>5. /\ flow'[f] = r
      /\ \A g \in Flows : g # f => flow'[g] = flow[g]
      /\ \A g \in Flows : flow'[g].sp = flow[g].sp /\ flow'[g].top = flow[g].top
      /\ \A g \in Flows : /\ Active(g)' <=> Active(g)
                          /\ Settled(g)' <=> Settled(g)
  <2>1. flow'[f] = r /\ \A g \in Flows : g # f => flow'[g] = flow[g]
    BY <1>3, <1>4
  <2> QED
    BY <1>1, <1>4, <2>1 DEF Active, Settled
<1>6. Durable'
  <2>1. mine[f] \cap stored \subseteq doubt
    BY <1>1 DEF PgData, Durable, Settled
  <2>2. ASSUME NEW g \in Flows, ~Settled(g)'
        PROVE  IF flow'[g].top /\ flow'[g].at = "leaving" /\ flow'[g].error = "none"
               THEN mine'[g] \subseteq stored' ELSE mine'[g] \cap stored' \subseteq doubt'
    <3>1. CASE g = f
      BY <1>1, <1>4, <1>5, <2>1, <3>1
    <3>2. CASE g # f
      BY <1>1, <1>5, <2>2, <3>2 DEF PgData, Durable
    <3> QED
      BY <3>1, <3>2
  <2> QED
    BY <1>1, <2>2 DEF PgData, Durable, PgAllOrNothing
<1>7. CASE ~ok
  <2>1. Current = Dead
    <3>1. CASE flow[f].top
      BY <1>2, <1>3, <1>7, <3>1, NothingIn DEF PgData, Opened
    <3>2. CASE ~flow[f].top
      <4>1. flow[Outer[f]].at = "running" /\ Outer[f] \in Flows
        BY <1>2, <3>2, ActiveOnes DEF Resting, Awaited, Chain
      <4>2. Current.open \/ Current.dead
        BY <4>1 DEF PgData, Opened
      <4>3. Current.dead \/ SaveOf(f) > 0
        BY <1>1, <3>2 DEF PgData, Secured, Saving
      <4>4. Current.dead
        BY <1>2, <1>3, <1>7, <3>2, <4>2, <4>3 DEF Has, SaveOf
      <4> QED
        BY <4>4, NothingIn DEF PgData, Opened
    <3> QED
      BY <3>1, <3>2
  <2>2. Current' = Aborted(Current) /\ ~Current'.aborted
    <3>1. Current' = Aborted(Current)
      BY <1>1, <1>2, <1>3, <1>7
    <3> QED
      BY <2>1, <3>1, NothingIn DEF Aborted
  <2> QED
    BY <1>1, <1>4, <2>1, <2>2, DataGoesOn
<1>8. CASE ok /\ flow[f].top
  <2>1. Current' = Fresh
    BY <1>1, <1>2, <1>3, <1>8 DEF Ended
  <2>2. \A g \in Flows : Active(g)' => flow'[g].top /\ flow'[g].at \in {"caught", "leaving"}
    BY <1>2, <1>4, <1>5, <1>8
  <2>3. \A g \in Flows : flow'[g] # flow[g] => flow'[g].at \in {"caught", "leaving"}
    BY <1>4, <1>5
  <2>4. stored' \subseteq 1..used
    BY <1>1 DEF PgData, Numbered
  <2> QED
    BY <1>1, <1>6, <2>1, <2>2, <2>3, <2>4, DataEnds
<1>9. CASE ok /\ ~flow[f].top
  <2> DEFINE last == SaveOf(f)
  <2>1. /\ ~Current.dead /\ Current.open /\ last > 0
        /\ Current' = RolledBackTo(Current, flow[f].sp)
    BY <1>1, <1>2, <1>3, <1>9 DEF Has, SaveOf
  <2>2. /\ Current'.saves = SubSeq(Current.saves, 1, last)
        /\ Current'.work = Current.saves[last].work
        /\ Current'.open /\ ~Current'.dead /\ ~Current'.aborted
    BY <1>3, <2>1, ZenonT(60) DEF RolledBackTo, Sessions, SaveOf
  <2>3. last \in 1..Len(Current.saves) /\ Len(Current.saves) \in Nat
        /\ last \in 0..Len(Current.saves) /\ last \in 1..last
    BY <2>1, CurrentIs DEF SaveOf
  <2> HIDE DEF last
  <2>4. /\ Len(Current'.saves) = last
        /\ \A i \in 1..last : /\ Current'.saves[i] = Current.saves[i]
                              /\ i \in 1..Len(Current.saves)
        /\ \A sp : LastSave(Current, sp) <= last =>
              LastSave(Current', sp) = LastSave(Current, sp)
    <3>1. \A i \in 1..last : i \in 1..Len(Current.saves)
      BY <2>3
    <3>2. /\ Len(Current'.saves) = last
          /\ \A i \in 1..last : Current'.saves[i] = Current.saves[i]
          /\ \A sp : LastSave(Current, sp) <= last =>
                LastSave(Current', sp) = LastSave(Current, sp)
      <4> DEFINE s == Current
                 t == Current'
      <4>1. s \in Sessions /\ last \in 0..Len(s.saves) /\ t.saves = SubSeq(s.saves, 1, last)
        BY <1>3, <2>2, <2>3
      <4> HIDE DEF s, t
      <4>2. /\ Len(t.saves) = last /\ \A i \in 1..last : t.saves[i] = s.saves[i]
            /\ \A sp : LastSave(s, sp) <= last => LastSave(t, sp) = LastSave(s, sp)
        BY <4>1, SavesCut
      <4> QED
        BY <4>2 DEF s, t
    <3> QED
      BY <3>1, <3>2
  <2>5. /\ Saving(f)
        /\ \A g \in Flows : Saving(g)' => Saving(g) /\ g # f /\ Active(g) /\ ~flow[g].top
    BY <1>1, <1>4, <1>5, <1>9 DEF Active, Saving
  <2>6. \A g \in Flows : Active(g) /\ g # f =>
            /\ mine[g] \subseteq Current.saves[last].work
            /\ ~flow[g].top => /\ SaveOf(g)' = SaveOf(g)
                               /\ SaveOf(g) < last /\ SaveOf(g) \in Nat
    <3> TAKE g \in Flows
    <3> HAVE Active(g) /\ g # f
    <3>1. /\ mine[g] \subseteq Current.saves[last].work
          /\ ~flow[g].top => SaveOf(g) < last
      BY <1>2, <2>1, <2>5 DEF PgData, Secured, last
    <3>2. SaveOf(g) \in 0..Len(Current.saves) /\ SaveOf(g) \in Nat
      BY <2>3, CurrentIs DEF SaveOf
    <3>3. ~flow[g].top => SaveOf(g) <= last
      BY <2>3, <3>1, <3>2
    <3> QED
      BY <1>5, <2>4, <3>1, <3>2, <3>3 DEF SaveOf
  <2>7. Opened'
    BY <2>2 DEF Opened
  <2>8. Secured'
    <3> SUFFICES ASSUME NEW g \in Flows, Saving(g)'
                 PROVE  /\ \A i \in 1..SaveOf(g)' : mine'[g] \cap Current'.saves[i].work = {}
                        /\ SaveOf(g)' > 0
                        /\ \A o \in Flows : Active(o)' /\ flow'[o].sp < flow'[g].sp =>
                              /\ mine'[o] \subseteq Current'.saves[SaveOf(g)'].work
                              /\ ~flow'[o].top => SaveOf(o)' < SaveOf(g)'
      BY DEF Secured
    <3>1. /\ Saving(g) /\ g # f /\ Active(g) /\ ~flow[g].top
          /\ SaveOf(g)' = SaveOf(g) /\ SaveOf(g) < last /\ SaveOf(g) \in Nat
      BY <2>5, <2>6
    <3>2. \A i \in 1..SaveOf(g) : i \in 1..last
      BY <2>3, <3>1
    <3>3. SaveOf(g) > 0 /\ SaveOf(g) \in 1..last
      BY <2>1, <2>3, <3>1 DEF PgData, Secured
    <3>4. \A i \in 1..SaveOf(g) : mine[g] \cap Current'.saves[i].work = {}
      BY <2>4, <3>1, <3>2 DEF PgData, Secured
    <3>5. ASSUME NEW o \in Flows, Active(o)', flow'[o].sp < flow'[g].sp
          PROVE  /\ mine'[o] \subseteq Current'.saves[SaveOf(g)].work
                 /\ ~flow'[o].top => SaveOf(o)' < SaveOf(g)
      <4>1. Active(o) /\ flow[o].sp < flow[g].sp /\ o # f
        <5>1. flow[g].sp < flow[f].sp /\ flow[g].sp \in Nat /\ flow[f].sp \in Nat
          BY <1>2, <3>1, ActiveOnes
        <5> QED
          BY <1>5, <3>5, <5>1
      <4>2. /\ mine[o] \subseteq Current.saves[SaveOf(g)].work
            /\ ~flow[o].top => SaveOf(o) < SaveOf(g)
        BY <2>1, <3>1, <4>1 DEF PgData, Secured
      <4> QED
        BY <1>1, <1>5, <2>4, <2>6, <3>3, <4>1, <4>2
    <3> QED
      BY <1>1, <3>1, <3>3, <3>4, <3>5
  <2>9. Written'
    <3>1. /\ \A i \in 1..last : mine[f] \cap Current'.saves[i].work = {}
          /\ mine[f] \cap Current'.work = {}
      <4>1. \A i \in 1..last : mine[f] \cap Current.saves[i].work = {}
        BY <2>5 DEF PgData, Secured, last
      <4> QED
        BY <2>2, <2>3, <2>4, <4>1
    <3>2. ASSUME NEW g \in Flows, g # f
          PROVE  /\ flow'[g].at = "running" => mine'[g] \subseteq Current'.work
                 /\ ~(flow'[g].at = "leaving")
                 /\ flow'[g].at \in {"idle", "queued", "entering"} => mine'[g] = {}
      BY <1>1, <1>2, <1>5, <2>2, <2>6, <3>2 DEF PgData, Written, Active
    <3> QED
      BY <1>1, <1>4, <1>5, <2>4, <3>1, <3>2 DEF Written
  <2>10. Undone' /\ Numbered'
    <3>1. Undone'
      BY <1>1, <2>2, <2>3, <2>4 DEF PgData, Undone
    <3>2. Numbered'
      BY <1>1, <2>2, <2>3, <2>4 DEF PgData, Numbered
    <3> QED
      BY <3>1, <3>2
  <2> QED
    BY <1>6, <2>7, <2>8, <2>9, <2>10 DEF PgData
<1> QED
  BY <1>7, <1>8, <1>9

LEMMA DataCalls ==
    ASSUME Resting, Chain, PgData, ~Overlaps, NEW f \in Flows, Call(f)
    PROVE  PgData'
<1>1. /\ flow[f].at = "idle" /\ mine[f] = {} /\ depth \in Nat
      /\ UNCHANGED <<stored, txClient, depth, used, mine, promised, refused, doubt>>
  BY CallIsMade, ActiveOnes DEF PgData, Written
<1>2. flow \in [Flows -> FlowStates] /\ session \in [Clients -> Sessions]
  BY DEF Resting, DriverTyped
(* The new record, and nothing else of what the flows are. *)
<1>3. ASSUME NEW r, flow' = [flow EXCEPT ![f] = r]
      PROVE  flow'[f] = r /\ \A g \in Flows : g # f => flow'[g] = flow[g]
  BY <1>2, <1>3
<1>4. ASSUME \A g \in Flows : g # f => flow'[g] = flow[g],
             ~(flow'[f].top /\ flow'[f].at = "leaving")
      PROVE  Durable'
  <2>1. ASSUME NEW g \in Flows, ~Settled(g)'
        PROVE  IF flow'[g].top /\ flow'[g].at = "leaving" /\ flow'[g].error = "none"
               THEN mine'[g] \subseteq stored' ELSE mine'[g] \cap stored' \subseteq doubt'
    <3>1. CASE g = f
      BY <1>1, <1>4, <3>1
    <3>2. CASE g # f
      BY <1>1, <1>4, <2>1, <3>2 DEF PgData, Durable, Settled
    <3> QED
      BY <3>1, <3>2
  <2> QED
    BY <1>1, <2>1 DEF PgData, Durable, PgAllOrNothing
<1>5. CASE Outer[f] = Top
  <2> DEFINE r == [Idle EXCEPT !.at = "queued", !.top = TRUE]
  <2>1. flow' = [flow EXCEPT ![f] = r] /\ session' = session
    <3>1. Top \notin Flows
      BY DEF Resting, PgTxAssumption
    <3>2. Queues(f)
      BY <1>5, <3>1, CallIsMade
    <3> QED
      BY <3>2 DEF Queues
  <2>2. r.at = "queued"
    BY DEF Idle
  <2> HIDE DEF r
  <2>3. flow'[f] = r /\ \A g \in Flows : g # f => flow'[g] = flow[g]
    BY <1>3, <2>1
  <2>4. Current' = Current
    BY <1>1, <2>1 DEF Current
  <2>5. \A g \in Flows : /\ Saving(g)' => Saving(g) /\ flow'[g] = flow[g]
                         /\ Active(g)' => Active(g) /\ flow'[g] = flow[g]
    BY <2>2, <2>3 DEF Saving, Active
  <2>6. \A g \in Flows : flow'[g] = flow[g] => SaveOf(g)' = SaveOf(g)
    BY <2>4 DEF SaveOf
  <2>7. Opened'
    BY <1>1, <2>2, <2>3, <2>4 DEF PgData, Opened
  <2>8. Secured'
    BY <1>1, <2>4, <2>5, <2>6 DEF PgData, Secured
  <2>9. Written'
    <3>1. ASSUME NEW g \in Flows, g # f
          PROVE  /\ flow'[g].at = "running" \/ (flow'[g].at = "leaving" /\ ~flow'[g].top
                                                /\ flow'[g].error = "none") =>
                       Current'.dead \/ mine'[g] \subseteq Current'.work
                 /\ flow'[g].at = "leaving" /\ ~flow'[g].top =>
                       /\ \A i \in 1..Len(Current'.saves) : mine'[g] \cap Current'.saves[i].work = {}
                       /\ flow'[g].error # "none" => mine'[g] \cap Current'.work = {}
                 /\ flow'[g].at \in {"idle", "queued", "entering"} => mine'[g] = {}
      BY <1>1, <2>3, <2>4, <3>1 DEF PgData, Written
    <3> QED
      BY <1>1, <2>2, <2>3, <3>1 DEF Written
  <2>10. Undone' /\ Numbered'
    BY <1>1, <2>4 DEF PgData, Undone, Numbered
  <2>11. Durable'
    BY <1>4, <2>2, <2>3
  <2> QED
    BY <2>7, <2>8, <2>9, <2>10, <2>11 DEF PgData
<1>6. CASE Outer[f] # Top
  <2>1. /\ Outer[f] \in Flows /\ Runs(Outer[f]) /\ Nests(f)
        /\ \A g \in Flows : Active(g) => flow[g].at = "running" /\ flow[g].sp < depth
    BY <1>6, CallIsMade
  <2>2. /\ txClient \in Clients /\ txClient # NoClient /\ Current = session[txClient]
        /\ ~Current.aborted /\ (Current.open \/ Current.dead)
        /\ Current.dead => Current = Dead
        /\ Current' = session'[txClient] /\ Current \in Sessions
    BY <1>1, <2>1, RunsOnOpen, CurrentIs DEF Current, Resting, PgTxAssumption
  <2> DEFINE ok == ~Current.dead
             r == [Idle EXCEPT !.at = IF ok THEN "entering" ELSE "leaving",
                               !.client = txClient, !.sp = depth,
                               !.error = IF ok THEN "none" ELSE "other"]
  <2>3. /\ flow' = [flow EXCEPT ![f] = r]
        /\ session' = [session EXCEPT ![txClient] = IF ok THEN Saved(@, depth) ELSE Aborted(@)]
    <3>1. ok <=> txClient # NoClient /\ ~session[txClient].dead /\ session[txClient].open
                 /\ ~session[txClient].aborted
      BY <2>2, NothingIn
    <3> QED
      BY <2>1, <2>2, <3>1 DEF Nests
  <2>4. /\ r.at = (IF ok THEN "entering" ELSE "leaving") /\ ~r.top /\ r.sp = depth
        /\ r.error = (IF ok THEN "none" ELSE "other")
    BY DEF Idle
  <2> HIDE DEF r
  <2>5. /\ flow'[f] = r /\ \A g \in Flows : g # f => flow'[g] = flow[g]
        /\ Current' = IF ok THEN Saved(Current, depth) ELSE Aborted(Current)
    BY <1>2, <1>3, <2>2, <2>3
  <2>6. Durable'
    BY <1>4, <2>4, <2>5
  <2>7. \A g \in Flows : Active(g)' => g = f \/ (Active(g) /\ flow[g].at = "running"
                                                 /\ flow[g].sp < depth /\ flow[g].sp \in Nat)
    BY <2>1, <2>5, ActiveOnes DEF Active
  <2>8. CASE ~ok
    <3>1. Current = Dead /\ Current' = Dead
      BY <2>2, <2>5, <2>8, NothingIn DEF Aborted
    <3>2. /\ Current'.work = {} /\ Len(Current'.saves) = 0 /\ Current'.dead /\ ~Current'.aborted
          /\ ~Current'.open /\ \A sp : LastSave(Current', sp) = 0
      BY <3>1, NothingIn
    <3>3. Opened' /\ Undone' /\ Numbered'
      <4>1. Opened'
        BY <3>1, <3>2 DEF Opened
      <4>2. Undone' /\ Numbered'
        BY <1>1, <3>2 DEF PgData, Undone, Numbered
      <4> QED
        BY <4>1, <4>2
    <3>4. Secured'
      <4>1. \A g \in Flows : SaveOf(g)' = 0
        BY <3>2 DEF SaveOf
      <4> QED
        BY <3>2, <4>1 DEF Secured
    <3>5. Written'
      <4>1. \A g \in Flows : flow'[g].at \in {"idle", "queued", "entering"} => mine'[g] = {}
        BY <1>1, <2>5 DEF PgData, Written
      <4> QED
        BY <3>2, <4>1 DEF Written
    <3> QED
      BY <2>6, <3>3, <3>4, <3>5 DEF PgData
  <2>9. CASE ok
    <3> DEFINE n == Len(Current.saves) + 1
    <3>1. /\ Current' = Saved(Current, depth) /\ ~Current.dead /\ Current.open
      BY <2>2, <2>5, <2>9
    <3>2. Current' \in Sessions
      <4>1. [sp |-> depth, work |-> Current.work] \in [sp : Nat, work : SUBSET Nat]
        BY <1>1, <2>2 DEF Sessions
      <4>2. Append(Current.saves, [sp |-> depth, work |-> Current.work]) \in Saves
        BY <2>2, <4>1 DEF Sessions, Saves
      <4> QED
        BY <2>2, <3>1, <4>2 DEF Saved, Sessions
    <3>3. /\ Len(Current'.saves) = n /\ n \in Nat /\ n > 0 /\ n - 1 = Len(Current.saves)
          /\ \A i \in 1..(n - 1) : Current'.saves[i] = Current.saves[i]
          /\ Current'.saves[n].work = Current.work
          /\ LastSave(Current', depth) = n
          /\ \A sp : sp # depth => LastSave(Current', sp) = LastSave(Current, sp)
          /\ Current'.work = Current.work /\ Current'.open /\ ~Current'.dead
          /\ ~Current'.aborted
      <4> DEFINE s == Current
                 t == Current'
      <4>1. s \in Sessions /\ t \in Sessions /\ t = Saved(s, depth)
        BY <2>2, <3>1, <3>2
      <4> HIDE DEF s, t
      <4>2. /\ Len(t.saves) = Len(s.saves) + 1 /\ Len(s.saves) \in Nat
            /\ \A i \in 1..Len(s.saves) : t.saves[i] = s.saves[i]
            /\ t.saves[Len(s.saves) + 1].work = s.work
            /\ LastSave(t, depth) = Len(s.saves) + 1
            /\ \A sp : sp # depth => LastSave(t, sp) = LastSave(s, sp)
            /\ t.work = s.work /\ t.open = s.open /\ t.dead = s.dead /\ t.aborted = s.aborted
        BY <1>1, <4>1, SavesPushed
      <4> QED
        BY <2>2, <3>1, <4>2 DEF s, t
    <3>4. \A i \in 1..n : i \in 1..(n - 1) \/ i = n
      BY <3>3
    <3> HIDE DEF n
    <3>5. Opened'
      BY <3>3 DEF Opened
    <3>6. SaveOf(f)' = n
      BY <2>4, <2>5, <3>3 DEF SaveOf
    <3>7. \A g \in Flows : Active(g)' /\ g # f =>
             /\ SaveOf(g)' = SaveOf(g) /\ SaveOf(g) \in 0..(n - 1)
             /\ flow'[g] = flow[g] /\ Active(g) /\ mine[g] \subseteq Current.work
      <4> TAKE g \in Flows
      <4> HAVE Active(g)' /\ g # f
      <4>1. Active(g) /\ flow[g].at = "running" /\ flow[g].sp # depth /\ flow'[g] = flow[g]
        BY <1>1, <2>5, <2>7
      <4>2. mine[g] \subseteq Current.work
        BY <3>1, <4>1 DEF PgData, Written
      <4>3. SaveOf(g)' = SaveOf(g)
        BY <3>3, <4>1 DEF SaveOf
      <4>4. SaveOf(g) \in 0..(n - 1)
        BY <3>3, CurrentIs DEF SaveOf
      <4> QED
        BY <4>1, <4>2, <4>3, <4>4
    <3>8. Secured'
      <4> SUFFICES ASSUME NEW g \in Flows, Saving(g)'
                   PROVE  /\ \A i \in 1..SaveOf(g)' : mine'[g] \cap Current'.saves[i].work = {}
                          /\ SaveOf(g)' > 0
                          /\ \A o \in Flows : Active(o)' /\ flow'[o].sp < flow'[g].sp =>
                                /\ mine'[o] \subseteq Current'.saves[SaveOf(g)'].work
                                /\ ~flow'[o].top => SaveOf(o)' < SaveOf(g)'
        BY DEF Secured
      <4>1. CASE g = f
        <5>1. \A o \in Flows : Active(o)' /\ flow'[o].sp < flow'[g].sp =>
                                /\ mine'[o] \subseteq Current'.saves[n].work
                                /\ SaveOf(o)' < n
          <6> TAKE o \in Flows
          <6> HAVE Active(o)' /\ flow'[o].sp < flow'[g].sp
          <6>1. o # f
            BY <1>1, <2>4, <2>5, <4>1
          <6> QED
            BY <1>1, <3>3, <3>7, <6>1
        <5> QED
          BY <1>1, <3>3, <3>6, <4>1, <5>1
      <4>2. CASE g # f
        <5>1. /\ Saving(g) /\ Active(g)' /\ flow'[g] = flow[g]
              /\ SaveOf(g)' = SaveOf(g) /\ SaveOf(g) \in 0..(n - 1)
          <6>1. Active(g)'
            BY DEF Saving, Active
          <6> QED
            BY <3>7, <4>2, <6>1 DEF Saving
        <5>2. SaveOf(g) > 0 /\ SaveOf(g) \in 1..(n - 1)
          BY <3>1, <3>3, <5>1 DEF PgData, Secured
        <5>3. \A i \in 1..SaveOf(g) : i \in 1..(n - 1)
          BY <3>3, <5>2
        <5>4. \A i \in 1..SaveOf(g) : mine[g] \cap Current'.saves[i].work = {}
          BY <3>3, <5>1, <5>3 DEF PgData, Secured
        <5>5. ASSUME NEW o \in Flows, Active(o)', flow'[o].sp < flow'[g].sp
              PROVE  /\ mine'[o] \subseteq Current'.saves[SaveOf(g)].work
                     /\ ~flow'[o].top => SaveOf(o)' < SaveOf(g)
          <6>1. o # f
            <7>1. flow[g].sp < depth /\ flow[g].sp \in Nat
              BY <2>7, <4>2, <5>1
            <7> QED
              BY <1>1, <2>4, <2>5, <5>1, <5>5, <7>1
          <6>2. Active(o) /\ flow'[o] = flow[o] /\ SaveOf(o)' = SaveOf(o)
            BY <3>7, <5>5, <6>1
          <6>3. /\ mine[o] \subseteq Current.saves[SaveOf(g)].work
                /\ ~flow[o].top => SaveOf(o) < SaveOf(g)
            BY <3>1, <5>1, <5>5, <6>2 DEF PgData, Secured
          <6> QED
            BY <1>1, <3>3, <5>2, <6>2, <6>3
        <5> QED
          BY <1>1, <5>1, <5>2, <5>4, <5>5
      <4> QED
        BY <4>1, <4>2
    <3>9. Written'
      <4>1. ASSUME NEW g \in Flows, g # f
            PROVE  /\ flow'[g].at = "running" => mine'[g] \subseteq Current'.work
                   /\ ~(flow'[g].at = "leaving")
                   /\ flow'[g].at \in {"idle", "queued", "entering"} => mine'[g] = {}
        <5>1. flow'[g] = flow[g] /\ (flow[g].at = "leaving" => FALSE)
          BY <2>1, <2>5, <4>1 DEF Active
        <5> QED
          BY <1>1, <3>1, <3>3, <5>1 DEF PgData, Written
      <4> QED
        BY <1>1, <2>4, <2>5, <2>9, <4>1 DEF Written
    <3>10. Undone' /\ Numbered'
      <4>1. Undone'
        BY <1>1, <3>3, <3>4 DEF PgData, Undone
      <4>2. Numbered'
        BY <1>1, <3>3, <3>4 DEF PgData, Numbered
      <4> QED
        BY <4>1, <4>2
    <3> QED
      BY <2>6, <3>5, <3>8, <3>9, <3>10 DEF PgData
  <2> QED
    BY <2>8, <2>9
<1> QED
  BY <1>5, <1>6

LEMMA DataWrites ==
    ASSUME Resting, Chain, PgData, NEW f \in Flows, Write(f)
    PROVE  PgData'
<1> DEFINE n == used + 1
<1>1. /\ Runs(f) /\ Answers /\ Stores(n) /\ used' = n
      /\ mine' = [mine EXCEPT ![f] = @ \cup {n}]
      /\ UNCHANGED <<txClient, flow, promised, refused, doubt>>
  BY DEF Write, Stores
<1>2. /\ txClient \in Clients /\ txClient # NoClient /\ Current = session[txClient]
      /\ flow[f].at = "running" /\ Active(f)
      /\ \A g \in Flows : Active(g) => flow[g].at = "running"
      /\ \A g \in Flows : Active(g) /\ g # f => flow[g].sp < flow[f].sp
      /\ ~Current.dead /\ ~Current.aborted /\ Current.open
      /\ Current \in Sessions /\ session \in [Clients -> Sessions]
  BY <1>1, RunsOnOpen, CurrentIs DEF Answers, Resting, DriverTyped, PgTxAssumption
<1>3. /\ stored' = stored /\ session' = [session EXCEPT ![txClient].work = @ \cup {n}]
  BY <1>1, <1>2 DEF Stores
<1>4. /\ n \in Nat /\ n \notin 1..used /\ 1..used \subseteq 1..n /\ n \in 1..n
  BY DEF PgData, Numbered
<1> HIDE DEF n
<1>5. /\ Current'.work = Current.work \cup {n} /\ Current'.saves = Current.saves
      /\ Current'.open /\ ~Current'.dead /\ ~Current'.aborted
  <2>1. Current' = [Current EXCEPT !.work = @ \cup {n}]
    BY <1>1, <1>2, <1>3 DEF Current
  <2> QED
    BY <1>2, <2>1 DEF Sessions
<1>6. /\ mine'[f] = mine[f] \cup {n} /\ \A g \in Flows : g # f => mine'[g] = mine[g]
      /\ \A g \in Flows : mine[g] \subseteq 1..used
  BY <1>1 DEF PgData, Numbered
<1>7. \A g \in Flows : /\ Active(g)' <=> Active(g)
                       /\ Saving(g)' <=> Saving(g)
                       /\ Settled(g)' <=> Settled(g)
                       /\ SaveOf(g)' = SaveOf(g)
  BY <1>1, <1>5 DEF Active, Saving, Settled, SaveOf, LastSave
<1>8. \A i \in 1..Len(Current.saves) : n \notin Current.saves[i].work
  BY <1>4 DEF PgData, Numbered
<1>9. Opened'
  BY <1>5 DEF Opened
<1>10. Secured'
  <2> SUFFICES ASSUME NEW g \in Flows, Saving(g)
               PROVE  /\ \A i \in 1..SaveOf(g) : mine'[g] \cap Current.saves[i].work = {}
                      /\ SaveOf(g) > 0
                      /\ \A o \in Flows : Active(o) /\ flow[o].sp < flow[g].sp =>
                            /\ mine'[o] \subseteq Current.saves[SaveOf(g)].work
                            /\ ~flow[o].top => SaveOf(o) < SaveOf(g)
    BY <1>1, <1>5, <1>7 DEF Secured
  <2>1. /\ \A i \in 1..SaveOf(g) : mine[g] \cap Current.saves[i].work = {}
        /\ SaveOf(g) > 0
        /\ \A o \in Flows : Active(o) /\ flow[o].sp < flow[g].sp =>
              /\ mine[o] \subseteq Current.saves[SaveOf(g)].work
              /\ ~flow[o].top => SaveOf(o) < SaveOf(g)
    BY <1>2 DEF PgData, Secured
  <2>2. \A i \in 1..SaveOf(g) : n \notin Current.saves[i].work
    <3>1. SaveOf(g) \in 0..Len(Current.saves) /\ Len(Current.saves) \in Nat
      BY CurrentIs DEF SaveOf
    <3>2. \A i \in 1..SaveOf(g) : i \in 1..Len(Current.saves)
      BY <3>1
    <3> QED
      BY <1>8, <3>2
  <2>3. \A o \in Flows : Active(o) /\ flow[o].sp < flow[g].sp => o # f
    <3>1. Active(g) /\ flow[g].sp \in Nat /\ flow[f].sp \in Nat
      BY ActiveOnes DEF Saving, Active
    <3> QED
      BY <1>2, <3>1
  <2>4. \A i \in 1..SaveOf(g) : mine'[g] \cap Current.saves[i].work = {}
    BY <1>6, <2>1, <2>2
  <2> QED
    BY <1>6, <2>1, <2>3, <2>4
<1>11. Written'
  <2>1. \A g \in Flows : ~(flow[g].at = "leaving")
    BY <1>2 DEF Active
  <2>2. ASSUME NEW g \in Flows
        PROVE  /\ flow[g].at = "running" => mine'[g] \subseteq Current'.work
               /\ flow[g].at \in {"idle", "queued", "entering"} => mine'[g] = {}
    <3>1. CASE g = f
      <4>1. mine[f] \subseteq Current.work
        BY <1>2 DEF PgData, Written
      <4> QED
        BY <1>2, <1>5, <1>6, <3>1, <4>1
    <3>2. CASE g # f
      BY <1>2, <1>5, <1>6, <3>2 DEF PgData, Written
    <3> QED
      BY <3>1, <3>2
  <2> QED
    BY <1>1, <2>1, <2>2 DEF Written
<1>12. Undone'
  <2>1. n \notin refused
    BY <1>4 DEF PgData, Numbered
  <2> QED
    BY <1>1, <1>5, <2>1 DEF PgData, Undone
<1>13. Durable'
  <2>1. n \notin stored
    BY <1>4 DEF PgData, Numbered
  <2>2. ASSUME NEW g \in Flows, ~Settled(g)
        PROVE  IF flow[g].top /\ flow[g].at = "leaving" /\ flow[g].error = "none"
               THEN mine'[g] \subseteq stored ELSE mine'[g] \cap stored \subseteq doubt
    <3>1. CASE g = f
      <4>1. mine[f] \cap stored \subseteq doubt
        BY <1>2, <2>2, <3>1 DEF PgData, Durable
      <4> QED
        BY <1>2, <1>6, <2>1, <3>1, <4>1
    <3>2. CASE g # f
      BY <1>6, <2>2, <3>2 DEF PgData, Durable
    <3> QED
      BY <3>1, <3>2
  <2> QED
    BY <1>1, <1>3, <1>7, <2>2 DEF PgData, Durable, PgAllOrNothing
<1>14. Numbered'
  <2>1. mine' \in [Flows -> SUBSET (1..n)]
    <3>1. DOMAIN mine' = Flows /\ mine' = [g \in Flows |-> mine'[g]]
      BY <1>1 DEF PgData, Numbered
    <3>2. \A g \in Flows : mine'[g] \subseteq 1..n
      BY <1>4, <1>6
    <3> QED
      BY <3>1, <3>2
  <2>2. /\ stored \subseteq 1..n /\ refused \subseteq 1..n /\ Current'.work \subseteq 1..n
        /\ \A i \in 1..Len(Current.saves) : Current.saves[i].work \subseteq 1..n
    BY <1>4, <1>5 DEF PgData, Numbered
  <2> QED
    BY <1>1, <1>3, <1>4, <1>5, <2>1, <2>2 DEF Numbered
<1> QED
  BY <1>9, <1>10, <1>11, <1>12, <1>13, <1>14 DEF PgData

LEMMA DataPlainWrites ==
    ASSUME Resting, Chain, PgData, ~Overlaps, PlainWrite
    PROVE  PgData'
<1> DEFINE n == used + 1
<1>1. /\ txClient = NoClient /\ stored' = stored \cup {n} /\ used' = n
      /\ promised' = promised \cup {n}
      /\ UNCHANGED <<session, txClient, flow, mine, refused, doubt>>
  BY DEF PlainWrite, Stores
<1>2. /\ n \in Nat /\ n \notin 1..used /\ 1..used \subseteq 1..n /\ n \in 1..n
  BY DEF PgData, Numbered
<1> HIDE DEF n
<1>3. Current' = Current
  BY <1>1 DEF Current
<1>4. Opened' /\ Undone' /\ Written'
  BY <1>1, <1>3 DEF PgData, Opened, Undone, Written
<1>5. Secured'
  BY <1>1, <1>3 DEF PgData, Secured, Saving, SaveOf, Active
<1>6. Numbered'
  <2>1. mine \in [Flows -> SUBSET (1..n)]
    BY <1>2 DEF PgData, Numbered
  <2>2. /\ stored' \subseteq 1..n /\ refused \subseteq 1..n /\ Current.work \subseteq 1..n
        /\ \A i \in 1..Len(Current.saves) : Current.saves[i].work \subseteq 1..n
    BY <1>1, <1>2 DEF PgData, Numbered
  <2> QED
    BY <1>1, <1>2, <1>3, <2>1, <2>2 DEF Numbered
<1>7. Durable'
  <2>1. n \notin refused /\ \A g \in Flows : n \notin mine[g]
    BY <1>2 DEF PgData, Numbered
  <2>2. PgAllOrNothing'
    BY <1>1, <2>1 DEF PgData, Durable, PgAllOrNothing
  <2>3. ASSUME NEW g \in Flows, ~Settled(g)
        PROVE  IF flow[g].top /\ flow[g].at = "leaving" /\ flow[g].error = "none"
               THEN mine[g] \subseteq stored' ELSE mine[g] \cap stored' \subseteq doubt
    BY <1>1, <2>1, <2>3 DEF PgData, Durable
  <2> QED
    BY <1>1, <2>2, <2>3 DEF Durable, Settled
<1> QED
  BY <1>4, <1>5, <1>6, <1>7 DEF PgData

LEMMA DataConnects ==
    ASSUME Resting, Chain, PgData, NEW f \in Flows, Connects(f)
    PROVE  PgData'
<1>1. /\ tail # << >> /\ Head(tail) = f /\ flow[f].at = "queued"
      /\ UNCHANGED <<stored, used, mine, promised, refused, doubt>>
  BY DEF Connects, History
<1>2. PICK c \in free :
         /\ txClient' = c /\ session' = [session EXCEPT ![c] = Begun(@)]
         /\ flow' = [flow EXCEPT ![f].at = "entering", ![f].client = c, ![f].sp = 0]
  BY DEF Connects
<1>3. /\ c \in Clients /\ c # NoClient /\ session[c] = Fresh
      /\ \A g \in Flows : ~Active(g)
      /\ session \in [Clients -> Sessions] /\ flow \in [Flows -> FlowStates]
  <2>1. \A g \in Flows : ~Active(g)
    BY <1>1, NoneHolds, NoChain
  <2> QED
    BY <2>1 DEF Resting, DriverTyped, Clean, PgTxAssumption
<1>4. Current' = Begun(Fresh)
  BY <1>2, <1>3 DEF Current
<1>5. /\ Current'.work = {} /\ Len(Current'.saves) = 0 /\ Current'.open /\ ~Current'.dead
      /\ ~Current'.aborted
  BY <1>4 DEF Begun, Fresh
<1>6. flow[f].top
  BY <1>1, TailOfQueue DEF Resting, Lined
<1>7. /\ flow'[f].at = "entering" /\ flow'[f].top
      /\ \A g \in Flows : g # f => flow'[g] = flow[g]
  BY <1>2, <1>3, <1>6 DEF FlowStates
<1>8. \A g \in Flows : ~Saving(g)' /\ flow'[g].at \notin {"running", "caught", "leaving"}
  BY <1>3, <1>7 DEF Saving, Active
<1>9. Opened' /\ Secured' /\ Undone' /\ Numbered'
  BY <1>1, <1>5, <1>8 DEF PgData, Opened, Secured, Undone, Numbered
<1>10. Written'
  <2>1. \A g \in Flows : flow'[g].at \in {"idle", "queued", "entering"} => mine'[g] = {}
    BY <1>1, <1>7 DEF PgData, Written
  <2> QED
    BY <1>8, <2>1 DEF Written
<1>11. Durable'
  <2>1. ASSUME NEW g \in Flows, ~Settled(g)'
        PROVE  mine[g] \cap stored \subseteq doubt /\ flow'[g].at # "leaving"
    <3>1. ~Settled(g) /\ ~(flow[g].at = "leaving")
      BY <1>1, <1>3, <1>7, <2>1 DEF Settled, Active
    <3> QED
      BY <1>8, <3>1 DEF PgData, Durable
  <2> QED
    BY <1>1, <2>1 DEF PgData, Durable, PgAllOrNothing
<1> QED
  BY <1>9, <1>10, <1>11 DEF PgData

LEMMA DataRefused ==
    ASSUME Resting, Chain, PgData, NEW f \in Flows, ConnectFails(f)
    PROVE  PgData'
<1>1. /\ flow[f].at = "queued" /\ flow' = [flow EXCEPT ![f].at = "failed"]
      /\ refused' = refused \cup mine[f]
      /\ UNCHANGED <<stored, session, txClient, used, mine, promised, doubt>>
  BY DEF ConnectFails, Goes
<1>2. refused' = refused
  BY <1>1 DEF PgData, Written
<1>3. /\ flow'[f].at = "failed" /\ \A g \in Flows : g # f => flow'[g] = flow[g]
  BY <1>1, ActiveOnes DEF Resting, DriverTyped, FlowStates
<1>4. Current' = Current
  BY <1>1 DEF Current
<1>5. \A g \in Flows : /\ Active(g)' => Active(g) /\ flow'[g] = flow[g]
                       /\ Saving(g)' => Saving(g) /\ flow'[g] = flow[g]
                       /\ ~Settled(g)' => ~Settled(g) /\ flow'[g] = flow[g]
  BY <1>1, <1>3 DEF Active, Saving, Settled
<1>6. \A g \in Flows : flow'[g] = flow[g] => SaveOf(g)' = SaveOf(g)
  BY <1>4 DEF SaveOf
<1>7. Opened' /\ Undone' /\ Numbered'
  <2>1. Current.aborted => \E g \in Flows : flow[g].at = "caught" /\ g # f
    BY <1>1 DEF PgData, Opened
  <2>2. Opened'
    BY <1>3, <1>4, <2>1 DEF PgData, Opened
  <2> QED
    BY <1>1, <1>2, <1>4, <2>2 DEF PgData, Undone, Numbered
<1>8. Secured'
  BY <1>1, <1>4, <1>5, <1>6 DEF PgData, Secured
<1>9. Written'
  <2>1. ASSUME NEW g \in Flows, g # f
        PROVE  /\ flow'[g].at = "running" \/ (flow'[g].at = "leaving" /\ ~flow'[g].top
                                                /\ flow'[g].error = "none") =>
                       Current'.dead \/ mine'[g] \subseteq Current'.work
               /\ flow'[g].at = "leaving" /\ ~flow'[g].top =>
                       /\ \A i \in 1..Len(Current'.saves) : mine'[g] \cap Current'.saves[i].work = {}
                       /\ flow'[g].error # "none" => mine'[g] \cap Current'.work = {}
               /\ flow'[g].at \in {"idle", "queued", "entering"} => mine'[g] = {}
      BY <1>1, <1>3, <1>4, <2>1 DEF PgData, Written
  <2> QED
    BY <1>3, <2>1 DEF Written
<1>10. Durable'
  BY <1>1, <1>2, <1>5 DEF PgData, Durable, PgAllOrNothing
<1> QED
  BY <1>7, <1>8, <1>9, <1>10 DEF PgData

(* A call settles that was made by the callback of another. *)
LEMMA DataNestedSettles ==
    ASSUME Resting, Chain, PgData, NEW f \in Flows, Succeeds(f) \/ Fails(f), ~flow[f].top
    PROVE  PgData'
<1> DEFINE o == Outer[f]
<1>1. /\ flow[f].at = "leaving" /\ Active(f) /\ ~flow[f].top
      /\ UNCHANGED <<txClient, session, stored, used, promised, doubt>>
  <2>1. flow[f].at = "leaving" /\ Active(f)
    BY DEF Succeeds, Fails, Active
  <2>2. Outer[f] # Top
    BY <2>1 DEF Chain
  <2> QED
    BY <2>1, <2>2 DEF Succeeds, Fails, Puts, GivesBack
<1>2. /\ o \in Flows /\ flow[o].at = "running" /\ Active(o) /\ o # f /\ ~Settled(o)
      /\ flow[o].sp + 1 = flow[f].sp /\ flow[o].sp \in Nat
      /\ \A g \in Flows : Active(g) /\ g # f =>
            /\ flow[g].at = "running" /\ flow[g].sp < flow[f].sp /\ flow[g].sp \in Nat
            /\ flow[g].sp <= flow[o].sp
  <2>1. o \in Flows /\ flow[o].at = "running" /\ flow[o].sp + 1 = flow[f].sp
    BY <1>1, ActiveOnes DEF Resting, Awaited, Chain
  <2>2. \A g \in Flows : Active(g) /\ g # f =>
            flow[g].at = "running" /\ flow[g].sp < flow[f].sp
    BY <1>1, LastOfChain
  <2>3. /\ \A g \in Flows : flow[g].sp \in Nat
        /\ Active(o) /\ o # f /\ ~Settled(o)
    BY <1>1, <2>1, ActiveOnes DEF Active, Settled
  <2> QED
    BY <2>1, <2>2, <2>3
<1>3. /\ flow'[f].at \in {"done", "failed"}
      /\ \A g \in Flows : g # f => flow'[g] = flow[g]
  BY ActiveOnes DEF Succeeds, Fails, Goes, Resting, DriverTyped, FlowStates
<1>4. Current' = Current
  BY <1>1 DEF Current
<1>5. \A g \in Flows : /\ Active(g)' => Active(g) /\ g # f /\ flow'[g] = flow[g]
                       /\ Saving(g)' => Saving(g) /\ Active(g) /\ g # f /\ flow'[g] = flow[g]
                       /\ ~Settled(g)' => ~Settled(g) /\ g # f /\ flow'[g] = flow[g]
                       /\ flow'[g] = flow[g] => SaveOf(g)' = SaveOf(g)
  BY <1>3, <1>4 DEF Active, Saving, Settled, SaveOf
<1>6. /\ mine \in [Flows -> SUBSET (1..used)]
      /\ \A g \in Flows : mine[g] \subseteq 1..used
  BY DEF PgData, Numbered
<1>7. /\ mine' \in [Flows -> SUBSET (1..used)]
      /\ \A g \in Flows : g # o => mine'[g] = mine[g]
      /\ mine'[o] = mine[o] \/ (flow[f].error = "none" /\ mine'[o] = mine[o] \cup mine[f])
  <2>1. CASE Succeeds(f)
    <3>1. flow[f].error = "none" /\ mine' = [mine EXCEPT ![o] = @ \cup mine[f]]
      BY <1>1, <1>2, <2>1 DEF Succeeds, Resting, PgTxAssumption
    <3> QED
      BY <1>2, <1>6, <3>1
  <2>2. CASE Fails(f)
    BY <1>6, <2>2 DEF Fails
  <2> QED
    BY <2>1, <2>2
<1>8. /\ refused' = refused \/ (flow[f].error # "none" /\ refused' = refused \cup mine[f])
  BY DEF Succeeds, Fails
<1>9. /\ \A i \in 1..Len(Current.saves) : mine[f] \cap Current.saves[i].work = {}
      /\ flow[f].error # "none" => mine[f] \cap Current.work = {}
      /\ flow[f].error = "none" => Current.dead \/ mine[f] \subseteq Current.work
      /\ mine[f] \cap stored \subseteq doubt
  BY <1>1 DEF PgData, Written, Durable, Settled
<1> HIDE DEF o
<1>10. Opened'
  <2>1. Current.aborted => \E g \in Flows : flow[g].at = "caught" /\ g # f
    BY <1>1 DEF PgData, Opened
  <2> QED
    BY <1>3, <1>4, <2>1 DEF PgData, Opened
<1>11. Secured'
  <2> SUFFICES ASSUME NEW g \in Flows, Saving(g)'
               PROVE  /\ \A i \in 1..SaveOf(g) : mine'[g] \cap Current.saves[i].work = {}
                      /\ Current.dead \/ /\ SaveOf(g) > 0
                                         /\ \A a \in Flows : Active(a)' /\ flow'[a].sp < flow[g].sp =>
                                               /\ mine'[a] \subseteq Current.saves[SaveOf(g)].work
                                               /\ ~flow'[a].top => SaveOf(a)' < SaveOf(g)
    BY <1>4, <1>5 DEF Secured
  <2>1. /\ \A i \in 1..SaveOf(g) : mine[g] \cap Current.saves[i].work = {}
        /\ Current.dead \/ /\ SaveOf(g) > 0
                           /\ \A a \in Flows : Active(a) /\ flow[a].sp < flow[g].sp =>
                                 /\ mine[a] \subseteq Current.saves[SaveOf(g)].work
                                 /\ ~flow[a].top => SaveOf(a) < SaveOf(g)
    BY <1>5 DEF PgData, Secured
  <2>2. \A i \in 1..SaveOf(g) : i \in 1..Len(Current.saves)
    <3>1. SaveOf(g) \in 0..Len(Current.saves) /\ Len(Current.saves) \in Nat
      BY CurrentIs DEF SaveOf
    <3> QED
      BY <3>1
  <2>3. \A i \in 1..SaveOf(g) : mine'[g] \cap Current.saves[i].work = {}
    BY <1>7, <1>9, <2>1, <2>2
  <2>4. ASSUME NEW a \in Flows, Active(a)', flow'[a].sp < flow[g].sp
        PROVE  Active(a) /\ flow[a].sp < flow[g].sp /\ mine'[a] = mine[a] /\ SaveOf(a)' = SaveOf(a)
               /\ flow'[a] = flow[a]
    <3>1. Active(a) /\ flow'[a] = flow[a] /\ SaveOf(a)' = SaveOf(a)
      BY <1>5, <2>4
    <3>2. a # o
      <4>1. Active(g) /\ g # f
        BY <1>5
      <4>2. flow[g].sp <= flow[o].sp /\ flow[g].sp \in Nat /\ flow[o].sp \in Nat
        BY <1>2, <4>1
      <4> QED
        BY <2>4, <3>1, <4>2
    <3> QED
      BY <1>7, <2>4, <3>1, <3>2
  <2> QED
    BY <2>1, <2>3, <2>4
<1>12. Written'
  <2>1. ASSUME NEW g \in Flows, g # f, g # o
        PROVE  /\ flow'[g].at = "running" \/ (flow'[g].at = "leaving" /\ ~flow'[g].top
                                                /\ flow'[g].error = "none") =>
                       Current'.dead \/ mine'[g] \subseteq Current'.work
               /\ flow'[g].at = "leaving" /\ ~flow'[g].top =>
                       /\ \A i \in 1..Len(Current'.saves) : mine'[g] \cap Current'.saves[i].work = {}
                       /\ flow'[g].error # "none" => mine'[g] \cap Current'.work = {}
               /\ flow'[g].at \in {"idle", "queued", "entering"} => mine'[g] = {}
      BY <1>3, <1>4, <1>7, <2>1 DEF PgData, Written
  <2>2. flow'[o].at = "running" /\ (Current.dead \/ mine'[o] \subseteq Current.work)
    <3>1. Current.dead \/ mine[o] \subseteq Current.work
      BY <1>2 DEF PgData, Written
    <3> QED
      BY <1>2, <1>3, <1>7, <1>9, <3>1
  <2> QED
    BY <1>3, <1>4, <2>1, <2>2 DEF Written
<1>13. Undone'
  BY <1>4, <1>8, <1>9 DEF PgData, Undone
<1>14. Durable'
  <2>1. PgAllOrNothing'
    BY <1>1, <1>8, <1>9 DEF PgData, Durable, PgAllOrNothing
  <2>2. ASSUME NEW g \in Flows, ~Settled(g)'
        PROVE  IF flow'[g].top /\ flow'[g].at = "leaving" /\ flow'[g].error = "none"
               THEN mine'[g] \subseteq stored ELSE mine'[g] \cap stored \subseteq doubt
    <3>1. ~Settled(g) /\ g # f /\ flow'[g] = flow[g]
      BY <1>5, <2>2
    <3>2. CASE g = o
      <4>1. mine[o] \cap stored \subseteq doubt
        BY <1>2 DEF PgData, Durable
      <4> QED
        BY <1>2, <1>7, <1>9, <3>1, <3>2, <4>1
    <3>3. CASE g # o
      BY <1>7, <3>1, <3>3 DEF PgData, Durable
    <3> QED
      BY <3>2, <3>3
  <2> QED
    BY <1>1, <2>1, <2>2 DEF Durable
<1>15. Numbered'
  BY <1>1, <1>4, <1>6, <1>7, <1>8 DEF PgData, Numbered
<1> QED
  BY <1>10, <1>11, <1>12, <1>13, <1>14, <1>15 DEF PgData

(* The outermost call settles, or queues to be tried again. *)
LEMMA DataSettles ==
    ASSUME Resting, Chain, PgData, NEW f \in Flows, Succeeds(f) \/ Fails(f) \/ Retries(f),
           flow[f].top
    PROVE  PgData'
<1>1. /\ flow[f].at = "leaving" /\ Active(f) /\ Outer[f] = Top
      /\ \A g \in Flows : Active(g) => g = f
      /\ txClient' = NoClient /\ stored' = stored /\ doubt' = doubt /\ used' = used
  <2>1. flow[f].at = "leaving" /\ Active(f)
    BY DEF Succeeds, Fails, Retries, Active
  <2>2. Outer[f] = Top /\ \A g \in Flows : Active(g) => g = f
    BY <2>1, LastOfChain DEF Chain
  <2> QED
    BY <2>1, <2>2 DEF Succeeds, Fails, Retries, Puts, GivesBack
<1>2. Current' = Fresh
  BY <1>1 DEF Current
<1>3. /\ Current'.work = {} /\ Len(Current'.saves) = 0 /\ ~Current'.aborted /\ ~Current'.open
      /\ ~Current'.dead
  BY <1>2, NothingIn
<1>4. /\ flow'[f].at \in {"done", "failed", "queued"}
      /\ flow'[f].at = "queued" => mine'[f] = {}
      /\ \A g \in Flows : g # f =>
            \/ flow'[g] = flow[g] /\ mine'[g] = mine[g]
            \/ flow'[g].at = "idle" /\ mine'[g] = {}
      /\ mine' \in [Flows -> SUBSET (1..used)]
  <2>1. CASE Succeeds(f) \/ Fails(f)
    <3>1. mine' = mine
      BY <1>1, <2>1 DEF Succeeds, Fails
    <3>2. /\ flow'[f].at \in {"done", "failed"}
          /\ \A g \in Flows : g # f => flow'[g] = flow[g]
      BY <2>1, ActiveOnes DEF Succeeds, Fails, Goes, Resting, DriverTyped, FlowStates
    <3> QED
      BY <3>1, <3>2 DEF PgData, Numbered
  <2>2. CASE Retries(f)
    BY <2>2 DEF Retries, Idle, PgData, Numbered
  <2> QED
    BY <2>1, <2>2
<1>5. \A g \in Flows : /\ ~Active(g)' /\ ~Saving(g)'
                       /\ flow'[g].at \in {"idle", "queued", "entering"} => mine'[g] = {}
                       /\ ~Settled(g)' => mine'[g] = {}
  <2> TAKE g \in Flows
  <2>1. CASE g = f
    BY <1>4, <2>1 DEF Active, Saving, Settled
  <2>2. CASE g # f
    <3>1. CASE flow'[g] = flow[g] /\ mine'[g] = mine[g]
      <4>1. ~Active(g)
        BY <1>1, <2>2
      <4>2. /\ ~Settled(g) => flow[g].at = "queued"
            /\ flow[g].at \in {"idle", "queued", "entering"} => mine[g] = {}
        BY <4>1, ActiveOnes DEF PgData, Written
      <4> QED
        BY <3>1, <4>1, <4>2 DEF Active, Saving, Settled
    <3>2. CASE flow'[g].at = "idle" /\ mine'[g] = {}
      BY <3>2 DEF Active, Saving, Settled
    <3> QED
      BY <1>4, <2>2, <3>1, <3>2
  <2> QED
    BY <2>1, <2>2
<1>6. PgAllOrNothing'
  <2>1. IF flow[f].error = "none" THEN mine[f] \subseteq stored ELSE mine[f] \cap stored \subseteq doubt
    BY <1>1 DEF PgData, Durable, Settled
  <2>2. /\ flow[f].error = "none" => promised' = promised \cup mine[f] /\ refused' = refused
        /\ flow[f].error # "none" => promised' = promised /\ refused' = refused \cup mine[f]
    BY <1>1 DEF Succeeds, Fails, Retries, Again
  <2> QED
    BY <1>1, <2>1, <2>2 DEF PgData, Durable, PgAllOrNothing
<1>7. refused' \subseteq 1..used
  <2>1. refused' = refused \/ refused' = refused \cup mine[f]
    BY DEF Succeeds, Fails, Retries
  <2> QED
    BY <2>1 DEF PgData, Numbered
<1>8. Opened'
  <2>1. \A g \in Flows : flow'[g].at \notin {"entering", "running"}
    BY <1>5 DEF Active
  <2> QED
    BY <1>2, <1>3, <2>1 DEF Opened
<1>9. Secured' /\ Undone'
  BY <1>3, <1>5 DEF Secured, Undone
<1>10. Written'
  <2>1. \A g \in Flows : flow'[g].at \notin {"running", "leaving"}
    BY <1>5 DEF Active
  <2> QED
    BY <1>5, <2>1 DEF Written
<1>11. Durable'
  <2>1. \A g \in Flows : flow'[g].at # "leaving"
    BY <1>5 DEF Active
  <2>2. \A g \in Flows : ~Settled(g)' => mine'[g] \cap stored' \subseteq doubt'
    BY <1>5
  <2> QED
    BY <1>6, <2>1, <2>2 DEF Durable
<1>12. Numbered'
  BY <1>1, <1>3, <1>4, <1>7 DEF PgData, Numbered
<1> QED
  BY <1>8, <1>9, <1>10, <1>11, <1>12 DEF PgData

LEMMA PgInvInit ==
    ASSUME PgTxAssumption, PgTxInit
    PROVE  PgInv
<1>1. /\ txClient = NoClient /\ depth = 0 /\ flow = [f \in Flows |-> Idle] /\ used = 0
      /\ stored = {} /\ mine = [f \in Flows |-> {}] /\ promised = {} /\ refused = {}
  BY DEF PgTxInit
<1>2. Resting
  BY RestingInit
<1>3. /\ Current = Fresh /\ Current.work = {} /\ Len(Current.saves) = 0
      /\ ~Current.aborted /\ ~Current.open /\ ~Current.dead
  BY <1>1, NothingIn DEF Current
<1>4. \A f \in Flows : /\ flow[f].at = "idle" /\ ~Active(f) /\ ~Saving(f) /\ Settled(f)
                       /\ mine[f] = {}
  BY <1>1 DEF Idle, Active, Saving, Settled
<1>5. Chain
  BY <1>1, <1>4 DEF Chain
<1>6. Opened /\ Secured /\ Written /\ Undone
  BY <1>3, <1>4 DEF Opened, Secured, Written, Undone
<1>7. Durable /\ Numbered
  BY <1>1, <1>3, <1>4 DEF Durable, PgAllOrNothing, Numbered
<1> QED
  BY <1>2, <1>5, <1>6, <1>7 DEF PgInv, PgData

LEMMA PgInvStep ==
    ASSUME PgInv, ~Overlaps, [PgTxNext]_pgtxVars
    PROVE  PgInv'
<1> USE DEF PgInv
<1>1. Resting'
  BY RestingStep DEF PgData, Numbered
<1>2. Chain'
  BY ChainStep
<1>3. PgData'
  <2>1. CASE UNCHANGED pgtxVars
    BY <2>1 DEF pgtxVars, PgData, Opened, Secured, Written, Undone, Durable, Numbered,
                PgAllOrNothing, Current, Saving, SaveOf, Active, Settled
  <2>2. CASE PlainWrite
    BY <2>2, DataPlainWrites
  <2>3. CASE \E c \in Clients : Dies(c)
    BY <2>3, DataDies
  <2>4. ASSUME NEW f \in Flows,
               Call(f) \/ ConnectFails(f) \/ CommitFails(f) \/ Write(f) \/ WriteFails(f) \/ Steps(f)
        PROVE  PgData'
    <3>1. CASE Call(f) \/ ConnectFails(f) \/ Connects(f) \/ Enters(f)
      BY <3>1, DataCalls, DataRefused, DataConnects, DataEnters
    <3>2. CASE Write(f) \/ WriteFails(f) \/ Throws(f)
      BY <3>2, DataWrites, DataFails
    <3>3. CASE Commits(f) \/ CommitFails(f) \/ Releases(f) \/ RollsBack(f)
      BY <3>3, DataCommits, DataCommitFails, DataReleases, DataRollsBack
    <3>4. CASE Succeeds(f) \/ Fails(f) \/ Retries(f)
      <4>1. Retries(f) => flow[f].top
        BY DEF Retries, Again
      <4> QED
        BY <3>4, <4>1, DataNestedSettles, DataSettles
    <3> QED
      BY <2>4, <3>1, <3>2, <3>3, <3>4 DEF Steps
  <2> QED
    BY <2>1, <2>2, <2>3, <2>4 DEF PgTxNext
<1> QED
  BY <1>1, <1>2, <1>3

(* Where the program awaits its calls in turn, a caller that is told that   *)
(* its transaction is done finds all of it committed, and one that is told  *)
(* that it failed none of it, except by a COMMIT whose answer was lost.     *)
THEOREM PgTransactionsAreAtomic ==
    PgTxAssumption /\ ~Overlaps => (PgTxSpec => []PgAllOrNothing)
<1> SUFFICES ASSUME PgTxAssumption, ~Overlaps PROVE PgTxSpec => []PgAllOrNothing
  OBVIOUS
<1>1. PgTxInit => PgInv
  BY PgInvInit
<1>2. PgInv /\ [PgTxNext]_pgtxVars => PgInv'
  BY PgInvStep
<1>3. PgInv => PgAllOrNothing
  BY DEF PgInv, PgData, Durable
<1> QED
  BY <1>1, <1>2, <1>3, PTL DEF PgTxSpec
=============================================================================
