----------------------------- MODULE KvChannels -----------------------------
(***************************************************************************)
(* publish() and subscribe() of kv(), on SQLite.  A drain runs to its end  *)
(* without giving way to anything but the callbacks it calls, and these    *)
(* may publish, subscribe and unsubscribe: the drain of a publish() in a   *)
(* callback is a frame on top of the one that called back.  Other          *)
(* processes write to the log at any time.                                 *)
(***************************************************************************)
EXTENDS KvLog

CONSTANT MaxDepth     \* bound: drains within drains

VARIABLE stack        \* per process, the drains under way, the innermost first

vars == <<logVars, stack>>

Init == LogInit /\ stack = [p \in Processes |-> << >>]

(* Code of the application runs: nothing is under way, or a callback is.    *)
Runs(p) == ~(stack[p] # << >> /\ ~Head(stack[p]).calling)

(* drainPubsub(): the rows past the least cursor, for every subscriber of    *)
(* `who` in turn; `left` are those still to be offered to the first of them. *)
Drain(s, rows) ==
    IF s = << >> \/ rows = {} THEN << >>
    ELSE <<[calling |-> FALSE, who |-> s, rows |-> rows, left |-> rows]>>

(* publish(): the message is added, old ones are deleted, and what the      *)
(* process has not read is delivered.  Between the three statements another *)
(* process can only add messages, which come before or after as well.       *)
Publish(p, ch) ==
    LET kept == Pruned(Append(log, Message(ch, "kept")))
        new  == {n \in DOMAIN kept : n > Least(p) /\ kept[n].state = "kept"}
    IN /\ Runs(p) /\ Len(log) < MaxMessages /\ Len(stack[p]) < MaxDepth
       /\ log' = kept
       /\ stack' = [stack EXCEPT ![p] =
              Drain(subs[p], IF subs[p] = << >> THEN {} ELSE new) \o @]
       /\ UNCHANGED <<subs, cursor, timers, clock, stopped, since, delivered>>

(* The heartbeat's poll, when nothing else runs. *)
Poll(p) ==
    /\ p \in timers /\ stack[p] = << >> /\ subs[p] # << >> /\ Unread(Least(p)) # {}
    /\ stack' = [stack EXCEPT ![p] = Drain(subs[p], Unread(Least(p)))]
    /\ UNCHANGED logVars

(* The loops go on, from row n of the first subscriber's. *)
Advance(f, n, calls) ==
    LET done == f.left = {n}
    IN [calling |-> calls, rows |-> f.rows,
        who |-> IF done THEN Tail(f.who) ELSE f.who,
        left |-> IF done THEN f.rows ELSE f.left \ {n}]

DrainStep_Unchecked(p) ==   \* mutant: the cursor is not looked at in the loop
    /\ stack[p] # << >> /\ Head(stack[p]).who # << >>
    /\ LET f == Head(stack[p])
           s == Head(f.who)
           n == Min(f.left)
           hears == log[n].channel = ChannelOf[s]
       IN /\ cursor' = [cursor EXCEPT ![s] = n]
          /\ delivered' = IF hears THEN [delivered EXCEPT ![s] = Append(@, n)] ELSE delivered
          /\ stack' = [stack EXCEPT ![p] = <<Advance(f, n, hears)>> \o Tail(@)]
    /\ UNCHANGED <<log, subs, timers, clock, stopped, since>>

(* A step of the loops: the row is passed over or delivered.  The cursor is *)
(* looked at again for each row, as a callback may have drained further.    *)
DrainStep(p) ==
    /\ stack[p] # << >> /\ Head(stack[p]).who # << >>
    /\ LET f == Head(stack[p])
           s == Head(f.who)
           n == Min(f.left)
       IN /\ cursor' = [cursor EXCEPT ![s] = Max({@, n})]
          /\ delivered' = IF Hears(s, n) THEN [delivered EXCEPT ![s] = Append(@, n)]
                          ELSE delivered
          /\ stack' = [stack EXCEPT ![p] = <<Advance(f, n, Hears(s, n))>> \o Tail(@)]
    /\ UNCHANGED <<log, subs, timers, clock, stopped, since>>

DrainEnds(p) ==
    /\ stack[p] # << >> /\ Head(stack[p]).who = << >>
    /\ stack' = [stack EXCEPT ![p] = Tail(@)]
    /\ UNCHANGED logVars

(* subscribe(): the cursor starts at the highest number, so nothing before  *)
(* it is replayed.  (When all rows are pruned that number is 0; there is    *)
(* nothing to replay then.)  The model's subscribers subscribe once.        *)
Subscribe(p, s) ==
    /\ Runs(p) /\ since[s] = {} /\ ProcessOf[s] = p
    /\ since' = [since EXCEPT ![s] = 0..Len(log)]
    /\ cursor' = [cursor EXCEPT ![s] = Highest]
    /\ Joins(p, s)
    /\ UNCHANGED <<log, clock, delivered, stack>>

Unsubscribe(p, s) ==
    /\ Runs(p) /\ Leaves(p, s)
    /\ UNCHANGED <<log, cursor, clock, since, delivered, stack>>

Stop(p) ==
    /\ Runs(p) /\ StopTimer(p)
    /\ UNCHANGED <<log, subs, cursor, clock, since, delivered, stack>>

Tick == TickClock /\ UNCHANGED <<log, subs, cursor, timers, stopped, since, delivered, stack>>

Next ==
    \/ Tick
    \/ \E p \in Processes :
          \/ \E ch \in Channels : Publish(p, ch)
          \/ Poll(p) \/ DrainStep(p) \/ DrainEnds(p) \/ Stop(p)
          \/ \E s \in Subscribers : Subscribe(p, s) \/ Unsubscribe(p, s)

(* The heartbeat keeps polling while it is armed, and a loop goes on. *)
Fairness == \A p \in Processes :
    WF_vars(Poll(p)) /\ WF_vars(DrainStep(p)) /\ WF_vars(DrainEnds(p))

Spec == Init /\ [][Next]_vars /\ Fairness

----------------------------------------------------------------------------
(* A subscriber whose cursor has passed a message of its channel got it,    *)
(* though callbacks publish and drain within the drain that called them.    *)
NonePassedOver ==
    \A s \in Subscribers : since[s] # {} =>
        \A n \in DOMAIN log \ since[s] :
            /\ n <= cursor[s] /\ log[n].channel = ChannelOf[s]
            => n \in ToSet(delivered[s]) \/ log[n].state = "pruned"

(* Every message reaches the subscribers of all processes in the end,       *)
(* unless it is pruned first, the subscriber leaves, or kv is stopped.      *)
EventuallyHeard ==
    \A s \in Subscribers, n \in 1..MaxMessages :
        (n \in DOMAIN log /\ since[s] # {} /\ n \notin since[s] /\ log[n].channel = ChannelOf[s])
        ~> (\/ n \in ToSet(delivered[s])
            \/ n \in DOMAIN log /\ log[n].state = "pruned"
            \/ s \notin ToSet(subs[ProcessOf[s]])
            \/ ProcessOf[s] \in stopped)
=============================================================================
