------------------------------- MODULE KvLog -------------------------------
(***************************************************************************)
(* The table _monlite_kv_pubsub and its subscribers                        *)
(* (packages/kv/src/index.ts): what the channels of both engines share.    *)
(* A message is a row of the log, which numbers it; a subscriber has a     *)
(* cursor into the log, and belongs to the process that created it.        *)
(***************************************************************************)
EXTENDS Integers, Sequences, FiniteSets, SequencesExt

CONSTANTS Processes, Subscribers, Channels,
          ProcessOf,               \* the process of each subscriber
          ChannelOf,               \* the channel it subscribes to
          MaxMessages, MaxTime,    \* bounds
          KeepFor                  \* for how long messages are kept (30 s)

VARIABLES log,        \* the rows: channel, time, and what became of the row
          subs,       \* per process, the current subscribers, in order
          cursor,     \* per subscriber, the last number it has seen
          timers,     \* the processes whose poll is armed
          clock,
          stopped,    \* history: the processes whose kv is stopped
          since,      \* history: the numbers in the log when it subscribed, and 0; {} before
          delivered   \* history: the numbers delivered to it, in order

logVars == <<log, subs, cursor, timers, clock, stopped, since, delivered>>

LogInit ==
    /\ log = << >>
    /\ subs = [p \in Processes |-> << >>]
    /\ cursor = [s \in Subscribers |-> 0]
    /\ timers = {}
    /\ clock = 0
    /\ stopped = {}
    /\ since = [s \in Subscribers |-> {}]
    /\ delivered = [s \in Subscribers |-> << >>]

Message(ch, state) == [channel |-> ch, ts |-> clock, state |-> state]

Readable(n) == log[n].state = "kept"

(* What a query of the messages past a number finds. *)
Unread(min) == {n \in DOMAIN log : n > min /\ Readable(n)}

Least_OfAhead(p) == Max({cursor[s] : s \in ToSet(subs[p])})   \* mutant: the greatest

(* The number to read from: the least cursor. *)
Least(p) == Min({cursor[s] : s \in ToSet(subs[p])})

(* DELETE of the messages older than KeepFor. *)
Pruned(rows) ==
    [n \in DOMAIN rows |-> IF rows[n].state = "kept" /\ rows[n].ts < clock - KeepFor
                           THEN [rows[n] EXCEPT !.state = "pruned"] ELSE rows[n]]

(* One step of a drain: sub has not seen row n, or it is passed over. *)
Hears(s, n) == n > cursor[s] /\ log[n].channel = ChannelOf[s]

Highest == Max({0} \cup {n \in DOMAIN log : Readable(n)})

(* subscribe() puts the subscriber last, and arms the poll. *)
Joins(p, s) ==
    /\ subs' = [subs EXCEPT ![p] = Append(@, s)]
    /\ timers' = timers \cup {p}
    /\ stopped' = stopped \ {p}

(* The function that subscribe() returns: the last one disarms the poll. *)
Leaves(p, s) ==
    /\ \E i \in DOMAIN subs[p] : subs[p][i] = s /\ subs' = [subs EXCEPT ![p] = RemoveAt(@, i)]
    /\ timers' = IF subs[p] = <<s>> THEN timers \ {p} ELSE timers
    /\ UNCHANGED stopped

(* stop() disarms the poll; the subscribers stay. *)
StopTimer(p) ==
    /\ p \in timers
    /\ timers' = timers \ {p}
    /\ stopped' = stopped \cup {p}

TickClock == clock < MaxTime /\ clock' = clock + 1

----------------------------------------------------------------------------
(* A subscriber gets messages of its channel only, each once, in the order  *)
(* of the log, and none that was in the log when it subscribed.             *)
OnceInOrder ==
    \A s \in Subscribers :
        /\ \A i \in DOMAIN delivered[s] : /\ delivered[s][i] \notin since[s]
                                          /\ log[delivered[s][i]].channel = ChannelOf[s]
        /\ \A i, j \in DOMAIN delivered[s] : i < j => delivered[s][i] < delivered[s][j]
=============================================================================
