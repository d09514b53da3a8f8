----------------------------- MODULE EventChannel -----------------------------
(***************************************************************************)
(* What the security event bus promises to its users, without its task,    *)
(* flags and counters: a bounded queue that drops what does not fit, and   *)
(* one reader that hands each event it takes to the subscribers one after  *)
(* the other.  A shutdown may break a hand-over off; nothing else may, and *)
(* in particular not a subscriber that raises.                             *)
(***************************************************************************)
EXTENDS BusParameters, Sequences

VARIABLES
    emitted,    \* number of events emitted; an event is its number
    queue,      \* the events waiting
    current,    \* the event being handed over, 0 if there is none
    next,       \* the subscriber that has it
    log,        \* the events each subscriber has been called with, in order
    abandoned   \* the events whose hand-over was broken off

channel == <<emitted, queue, current, next, log, abandoned>>

Subs == 1..Subscribers
Received(s) == {log[s][i] : i \in 1..Len(log[s])}

ChannelInit ==
    /\ emitted = 0
    /\ queue = <<>>
    /\ current = 0
    /\ next = 0
    /\ log = [s \in Subs |-> <<>>]
    /\ abandoned = {}

\* An event is emitted: it is queued, or dropped when the queue is full.
Accept ==
    /\ emitted < MaxEvents
    /\ emitted' = emitted + 1
    /\ queue' = IF Len(queue) < QueueSize THEN Append(queue, emitted + 1)
                                          ELSE queue
    /\ UNCHANGED <<current, next, log, abandoned>>

Call(s, e) ==
    /\ next' = s
    /\ log' = [log EXCEPT ![s] = Append(log[s], e)]

\* The reader takes the oldest event and calls the first subscriber.
TakeOldest ==
    /\ queue # <<>>
    /\ current' = Head(queue)
    /\ queue' = Tail(queue)
    /\ Call(1, Head(queue))
    /\ UNCHANGED <<emitted, abandoned>>

Take == current = 0 /\ TakeOldest

\* A subscriber returns or raises, and the next one is called.
Advance ==
    /\ current # 0
    /\ next < Subscribers
    /\ Call(next + 1, current)
    /\ UNCHANGED <<emitted, queue, current, abandoned>>

GoIdle ==
    /\ current' = 0
    /\ next' = 0
    /\ UNCHANGED <<emitted, queue, log>>

\* The last subscriber returns or raises: the reader goes idle or takes the
\* next event at once.
Complete ==
    /\ current # 0
    /\ next = Subscribers
    /\ (GoIdle /\ UNCHANGED abandoned) \/ TakeOldest

\* A shutdown breaks the hand-over off.
Abandon ==
    /\ current # 0
    /\ GoIdle
    /\ abandoned' = abandoned \cup {current}

ChannelNext == Accept \/ Take \/ Advance \/ Complete \/ Abandon

ChannelSpec == ChannelInit /\ [][ChannelNext]_channel

-----------------------------------------------------------------------------
(* Properties *)

\* Each subscriber is called with each event at most once, in the order of
\* the emits.
InOrderOnce ==
    \A s \in Subs : \A i, j \in 1..Len(log[s]) : i < j => log[s][i] < log[s][j]

\* The subscribers receive the same events: one that raises hides an event
\* neither from those after it nor from itself later on.
Isolated ==
    \A s, t \in Subs :
        s < t => /\ Received(t) \subseteq Received(s)
                 /\ Received(s) \subseteq Received(t) \cup {current} \cup abandoned

=============================================================================
