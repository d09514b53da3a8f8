------------------------------- MODULE EventBus -------------------------------
(***************************************************************************)
(* SecurityEventBus (src/araxys/webhooks/emitter.py): an asyncio.Queue, a  *)
(* consumer task, and the life cycle start() ... stop().                   *)
(*                                                                         *)
(* A step is what one task does between two awaits.  start() and stop()    *)
(* are called by one owner, one after the other (AraxysShield starts the   *)
(* bus in its constructor and stops it in shutdown()); emit() is called by *)
(* any request at any time, before start() and after stop() too.  The      *)
(* events are numbered in the order of the emits.                          *)
(***************************************************************************)
EXTENDS BusParameters, Sequences

CONSTANT
    MaxStarts       \* bound on the calls of start()

ASSUME BusAssumption == MaxStarts \in Nat

VARIABLES
    queue,       \* the items of _queue
    unfinished,  \* _queue._unfinished_tasks, which join() waits for
    running,     \* _running
    consumer,    \* where the task of _consume is
    event,       \* the event in _dispatch, 0 if there is none
    index,       \* the subscriber _dispatch is awaiting
    stopper,     \* where stop() is
    \* history
    emitted,     \* events emitted so far
    starts,      \* calls of start() that created a task
    log,         \* the events each subscriber has been called with
    abandoned,   \* events whose dispatch was cancelled
    finished,    \* events all subscribers have dealt with
    promised     \* events accepted and not finished when stop() was called

task == <<consumer, event, index, log, finished>>
vars == <<queue, unfinished, running, task, stopper, emitted, starts,
          abandoned, promised>>

Subs == 1..Subscribers
Dead == {"none", "done", "crashed"}
Queued == {queue[i] : i \in 1..Len(queue)}
Received(s) == {log[s][i] : i \in 1..Len(log[s])}

TypeOK ==
    /\ queue \in Seq(1..MaxEvents)
    /\ Len(queue) <= QueueSize
    /\ unfinished \in Nat
    /\ running \in BOOLEAN
    /\ consumer \in Dead \cup {"new", "get", "dispatch"}
    /\ event \in 0..MaxEvents
    /\ index \in 0..Subscribers
    /\ consumer = "dispatch" <=> event # 0
    /\ event # 0 <=> index # 0
    /\ stopper \in {"idle", "join", "joined", "cancel", "await"}
    /\ emitted \in 0..MaxEvents
    /\ starts \in 0..MaxStarts
    /\ log \in [Subs -> Seq(1..MaxEvents)]
    /\ abandoned \in SUBSET (1..MaxEvents)
    /\ finished \in SUBSET (1..MaxEvents)
    /\ promised \in SUBSET (1..MaxEvents)

Init ==
    /\ queue = <<>>
    /\ unfinished = 0
    /\ running = FALSE
    /\ consumer = "none"
    /\ event = 0
    /\ index = 0
    /\ stopper = "idle"
    /\ emitted = 0
    /\ starts = 0
    /\ log = [s \in Subs |-> <<>>]
    /\ abandoned = {}
    /\ finished = {}
    /\ promised = {}

-----------------------------------------------------------------------------
\* Mutant: the queue has no maxsize.
Emit_Unbounded ==
    /\ emitted < MaxEvents
    /\ emitted' = emitted + 1
    /\ queue' = Append(queue, emitted + 1)
    /\ unfinished' = unfinished + 1
    /\ UNCHANGED <<running, task, stopper, starts, abandoned, promised>>

\* emit: put_nowait, or a warning when the queue is full.
Emit ==
    /\ emitted < MaxEvents
    /\ emitted' = emitted + 1
    /\ IF Len(queue) < QueueSize
       THEN /\ queue' = Append(queue, emitted + 1)
            /\ unfinished' = unfinished + 1
       ELSE UNCHANGED <<queue, unfinished>>
    /\ UNCHANGED <<running, task, stopper, starts, abandoned, promised>>

\* start: nothing happens while _running is set.
Start ==
    /\ stopper = "idle"
    /\ ~running
    /\ starts < MaxStarts
    /\ running' = TRUE
    /\ consumer' = "new"
    /\ starts' = starts + 1
    /\ UNCHANGED <<queue, unfinished, event, index, stopper, emitted, log,
                   abandoned, finished, promised>>

-----------------------------------------------------------------------------
(* The consumer. A step of it is possible unless its task is cancelled. *)

Runs == stopper # "cancel"

\* Mutant: the newest item first, as a LifoQueue has it.
Dispatch_Newest ==
    /\ queue # <<>>
    /\ consumer' = "dispatch"
    /\ event' = queue[Len(queue)]
    /\ queue' = SubSeq(queue, 1, Len(queue) - 1)
    /\ index' = 1
    /\ log' = [log EXCEPT ![1] = Append(log[1], queue[Len(queue)])]

\* The first subscriber is called with the head of the queue.
Dispatch ==
    /\ queue # <<>>
    /\ consumer' = "dispatch"
    /\ event' = Head(queue)
    /\ queue' = Tail(queue)
    /\ index' = 1
    /\ log' = [log EXCEPT ![1] = Append(log[1], Head(queue))]

\* The task waits, in queue.get() or for good.
Waits(at) ==
    /\ consumer' = at
    /\ event' = 0
    /\ index' = 0
    /\ UNCHANGED <<queue, log>>

\* What the task does when it is at the head of one of its loops: get while
\* _running is set, otherwise drain the queue and return.
Loop ==
    IF running THEN Waits("get")
    ELSE IF queue # <<>> THEN Dispatch ELSE Waits("done")

\* The new task takes its first step.
Begin ==
    /\ Runs
    /\ consumer = "new"
    /\ Loop
    /\ UNCHANGED <<unfinished, running, stopper, emitted, starts, abandoned,
                   finished, promised>>

\* queue.get() returns.
Get ==
    /\ Runs
    /\ consumer = "get"
    /\ Dispatch
    /\ UNCHANGED <<unfinished, running, stopper, emitted, starts, abandoned,
                   finished, promised>>

\* wait_for times out after 0.5 s; with _running set the task gets again.
GetTimeout ==
    /\ Runs
    /\ consumer = "get"
    /\ ~running
    /\ Loop
    /\ UNCHANGED <<unfinished, running, stopper, emitted, starts, abandoned,
                   finished, promised>>

\* A subscriber that is not the last one returns, or raises an Exception.
NextSubscriber ==
    /\ Runs
    /\ consumer = "dispatch"
    /\ index < Subscribers
    /\ index' = index + 1
    /\ log' = [log EXCEPT ![index + 1] = Append(log[index + 1], event)]
    /\ UNCHANGED <<queue, unfinished, running, consumer, event, stopper,
                   emitted, starts, abandoned, finished, promised>>

\* Queue.task_done: at zero it wakes join(), and below zero it raises.
TaskDone ==
    /\ unfinished' = unfinished - 1
    /\ stopper' = IF stopper = "join" /\ unfinished = 1 THEN "joined" ELSE stopper

\* Mutant: _dispatch returns when a subscriber raises.
LastSubscriber_Propagates ==
    /\ Runs
    /\ consumer = "dispatch"
    /\ finished' = finished \cup {event}
    /\ IF unfinished = 0
       THEN Waits("crashed") /\ UNCHANGED <<unfinished, stopper>>
       ELSE Loop /\ TaskDone
    /\ UNCHANGED <<running, emitted, starts, abandoned, promised>>

\* Mutant: an if instead of the while: one event and the task returns.
LastSubscriber_Returns ==
    /\ Runs
    /\ consumer = "dispatch"
    /\ index = Subscribers
    /\ finished' = finished \cup {event}
    /\ Waits("done")
    /\ TaskDone
    /\ UNCHANGED <<running, emitted, starts, abandoned, promised>>

\* The last subscriber returns or raises, and the loop goes round.
LastSubscriber ==
    /\ Runs
    /\ consumer = "dispatch"
    /\ index = Subscribers
    /\ finished' = finished \cup {event}
    /\ IF unfinished = 0
       THEN Waits("crashed") /\ UNCHANGED <<unfinished, stopper>>
       ELSE Loop /\ TaskDone
    /\ UNCHANGED <<running, emitted, starts, abandoned, promised>>

-----------------------------------------------------------------------------
(* stop *)

\* Mutant: stop() looks whether the queue is empty instead of joining it.
Stop_WhenEmpty(immediate) ==
    /\ stopper = "idle"
    /\ starts > 0
    /\ running \/ consumer \notin Dead
    /\ running' = FALSE
    /\ promised' = Queued \cup ({event} \ {0})
    /\ stopper' = IF consumer \in Dead THEN "idle"
                  ELSE IF immediate THEN "cancel"
                  ELSE IF queue = <<>> THEN "joined" ELSE "join"
    /\ UNCHANGED <<queue, unfinished, task, emitted, starts, abandoned>>

\* The synchronous part: a bus without a live task has nothing to stop; with
\* immediate=True the task is cancelled, else stop() awaits queue.join().
Stop(immediate) ==
    /\ stopper = "idle"
    /\ starts > 0
    /\ running \/ consumer \notin Dead
    /\ running' = FALSE
    /\ promised' = Queued \cup ({event} \ {0})
    /\ stopper' = IF consumer \in Dead THEN "idle"
                  ELSE IF immediate THEN "cancel"
                  ELSE IF unfinished = 0 THEN "joined" ELSE "join"
    /\ UNCHANGED <<queue, unfinished, task, emitted, starts, abandoned>>

\* Mutants: the task is left alone, or join() has no timeout.
JoinEnds_LeavesTask ==
    /\ stopper \in {"join", "joined"}
    /\ stopper' = "idle"
    /\ UNCHANGED <<queue, unfinished, running, task, emitted, starts,
                   abandoned, promised>>

JoinEnds_NoTimeout ==
    /\ stopper = "joined"
    /\ stopper' = IF consumer \in Dead THEN "idle" ELSE "cancel"
    /\ UNCHANGED <<queue, unfinished, running, task, emitted, starts,
                   abandoned, promised>>

\* join() has returned, or wait_for has given up after 5 s: a task that is
\* still alive is cancelled.
JoinEnds ==
    /\ stopper \in {"join", "joined"}
    /\ stopper' = IF consumer \in Dead THEN "idle" ELSE "cancel"
    /\ UNCHANGED <<queue, unfinished, running, task, emitted, starts,
                   abandoned, promised>>

\* The CancelledError reaches the task before its first step.
CancelNew ==
    /\ stopper = "cancel"
    /\ consumer = "new"
    /\ Waits("done")
    /\ stopper' = "idle"
    /\ UNCHANGED <<unfinished, running, emitted, starts, abandoned, finished,
                   promised>>

\* It reaches the task in queue.get(), which leaves an item that has arrived
\* meanwhile in the queue; the handler calls task_done all the same.
CancelGet ==
    /\ stopper = "cancel"
    /\ consumer = "get"
    /\ Waits("done")
    /\ unfinished' = IF unfinished = 0 THEN 0 ELSE unfinished - 1
    /\ stopper' = "idle"
    /\ UNCHANGED <<running, emitted, starts, abandoned, finished, promised>>

\* asyncio.wait_for of Python 3.11 returns the item instead, if get() already
\* has it, and the cancellation is lost: stop() awaits the end of the task.
CancelSwallowed ==
    /\ stopper = "cancel"
    /\ consumer = "get"
    /\ Dispatch
    /\ stopper' = "await"
    /\ UNCHANGED <<unfinished, running, emitted, starts, abandoned, finished,
                   promised>>

\* Mutant: the event is put back into the queue.
CancelDispatch_Requeues ==
    /\ stopper = "cancel"
    /\ consumer = "dispatch"
    /\ consumer' = "done"
    /\ event' = 0
    /\ index' = 0
    /\ queue' = <<event>> \o queue
    /\ stopper' = "idle"
    /\ UNCHANGED <<unfinished, running, emitted, starts, log, abandoned,
                   finished, promised>>

\* It reaches the task in a subscriber: _dispatch catches only Exception.
CancelDispatch ==
    /\ stopper = "cancel"
    /\ consumer = "dispatch"
    /\ Waits("done")
    /\ abandoned' = abandoned \cup {event}
    /\ stopper' = "idle"
    /\ UNCHANGED <<unfinished, running, emitted, starts, finished, promised>>

\* The awaited task has ended.
TaskEnded ==
    /\ stopper = "await"
    /\ consumer \in Dead
    /\ stopper' = "idle"
    /\ UNCHANGED <<queue, unfinished, running, task, emitted, starts,
                   abandoned, promised>>

-----------------------------------------------------------------------------
Consumer == Begin \/ Get \/ GetTimeout \/ NextSubscriber \/ LastSubscriber

Stopper ==
    JoinEnds \/ CancelNew \/ CancelGet \/ CancelSwallowed \/ CancelDispatch
        \/ TaskEnded

Next ==
    \/ Emit \/ Start
    \/ \E immediate \in BOOLEAN : Stop(immediate)
    \/ Consumer \/ Stopper

Spec == Init /\ [][Next]_vars

\* The event loop runs the tasks, and every subscriber returns or raises in
\* the end; nobody need ever emit, start or stop.
LiveSpec == Spec /\ WF_vars(Consumer) /\ WF_vars(Stopper)

-----------------------------------------------------------------------------
(* Properties *)

\* The bus implements the channel: whatever the tasks, the timeouts and the
\* restarts do, the subscribers see nothing but its hand-overs.
Channel == INSTANCE EventChannel WITH current <- event, next <- index
ImplementsChannel == Channel!ChannelSpec

\* Each subscriber is called with each event at most once, in order.
InOrderOnce == Channel!InOrderOnce

\* All subscribers receive the same events, whichever of them raise.
Isolated == Channel!Isolated

\* When stop() has waited for the queue to drain without timing out, all the
\* events accepted before it was called have reached every subscriber. (Not
\* on a bus that has been restarted: the join counter may be wrong by then.)
DrainedOnJoin == starts = 1 /\ stopper = "joined" => promised \subseteq finished

\* stop() leaves no task behind, so that start() never makes a second one.
OneTask == stopper = "idle" /\ ~running => consumer \in Dead

\* stop() returns, even if the task cannot finish within the 5 seconds.
StopReturns == stopper # "idle" ~> stopper = "idle"

\* An event the bus accepted is dispatched, or the bus is stopped.
AcceptedDispatched ==
    \A e \in 1..MaxEvents :
        (starts = 1 /\ running /\ e \in Queued) ~> (e \in finished \/ ~running)

=============================================================================
