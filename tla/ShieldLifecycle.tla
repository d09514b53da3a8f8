----------------------------- MODULE ShieldLifecycle -----------------------------
(***************************************************************************)
(* What AraxysShield starts when it is constructed and how shutdown() ends *)
(* it (src/araxys/shield.py), in a running event loop.                     *)
(*                                                                         *)
(* The constructor never suspends, and shutdown() suspends only where it   *)
(* waits for a task or for the queue of the event bus: the tasks, and what *)
(* else the event loop has to run, act only while it is suspended. The     *)
(* loop is first in first out: before a wait ends, what was ready when it  *)
(* began has run.                                                          *)
(***************************************************************************)
EXTENDS Integers, FiniteSets

CONSTANTS
    QueueSize,   \* WebhookConfig.queue_size
    MaxEmitted   \* bound on the events emitted

ASSUME LifecycleAssumption == QueueSize \in Nat \ {0} /\ MaxEmitted \in Nat

VARIABLES
    features,   \* what AraxysConfig enables
    stage,      \* where the life of the shield stands
    suspended,  \* the coroutine that constructs and shuts it down is suspended
    running,    \* the background tasks
    stopping,   \* those whose cancellation has been requested
    scheduled,  \* the task that runs start_cleanup() has not begun yet
    queued,     \* events in the queue of the bus
    handling,   \* the bus is dispatching one
    accepting,  \* SecurityEventBus._running
    joined,     \* the queue's join() has been released
    emitted,    \* events emitted so far
    \* history: the event loop has run before the shutdown, and the events
    \* accepted before the bus was stopped that have not been dispatched
    served,
    owed,
    timedOut

life == <<features, stage, suspended, served>>
tasks == <<running, stopping, scheduled>>
busState == <<queued, handling, accepting, joined, emitted, owed, timedOut>>
shieldVars == <<life, tasks, busState>>

Features == {"webhooks", "dlq", "redisUrl", "db", "rotation", "feeds", "sessions"}
BackgroundTasks == {"bus", "dlq", "rotation", "health", "feeds", "cleanup"}
Stages == {"new", "raised", "up", "rotation", "pools", "closing", "bus", "join",
           "draining", "sessions", "cleanup", "dlq", "polling", "feeds", "fetching",
           "down"}

ShieldTypeOK ==
    /\ features \subseteq Features
    /\ stage \in Stages
    /\ {suspended, scheduled, handling, accepting, joined, served, timedOut}
           \subseteq BOOLEAN
    /\ running \subseteq BackgroundTasks
    /\ stopping \subseteq running
    /\ queued \in 0..QueueSize
    /\ emitted \in 0..MaxEmitted
    /\ owed \in 0..(QueueSize + 1)

ShieldInit ==
    /\ features \in SUBSET Features
    /\ stage = "new"
    /\ running = {}
    /\ stopping = {}
    /\ queued = 0
    /\ emitted = 0
    /\ owed = 0
    /\ suspended = FALSE
    /\ scheduled = FALSE
    /\ handling = FALSE
    /\ accepting = FALSE
    /\ joined = FALSE
    /\ served = FALSE
    /\ timedOut = FALSE

Enabled(feature) == feature \in features

-----------------------------------------------------------------------------
(* __init__ *)

\* The dead-letter queue is refused without redis_url: the bus has been started.
Refused == {"webhooks", "dlq"} \subseteq features /\ ~Enabled("redisUrl")

Started ==
    {t \in BackgroundTasks :
        CASE t = "bus" -> Enabled("webhooks")
          [] t = "health" -> Enabled("db")
          [] t = "dlq" -> {"webhooks", "dlq"} \subseteq features /\ ~Refused
          [] t = "rotation" -> {"db", "rotation"} \subseteq features /\ ~Refused
          [] t = "feeds" -> Enabled("feeds") /\ ~Refused
          [] t = "cleanup" -> FALSE}

Construct ==
    /\ stage = "new"
    /\ stage' = IF Refused THEN "raised" ELSE "up"
    /\ running' = Started
    /\ accepting' = Enabled("webhooks")
    /\ scheduled' = (Enabled("sessions") /\ ~Refused)
    /\ UNCHANGED <<features, suspended, served, stopping, queued, handling, joined,
                   emitted, owed, timedOut>>

\* The event loop goes on, with requests or without.
Serve ==
    /\ stage \in {"up", "down"} /\ ~suspended
    /\ suspended' = TRUE
    /\ served' = (served \/ stage = "up")
    /\ UNCHANGED <<features, stage, tasks, busState>>

-----------------------------------------------------------------------------
(* What runs while the coroutine is suspended *)

\* start_cleanup() creates the task of the loop.
StartCleanup ==
    /\ suspended /\ scheduled
    /\ scheduled' = FALSE
    /\ running' = running \cup {"cleanup"}
    /\ UNCHANGED <<life, stopping, busState>>

\* A request, the rotation or a feed emits an event; a full queue drops it.
Emits ==
    /\ suspended /\ Enabled("webhooks") /\ emitted < MaxEmitted
    /\ stage = "up" \/ {"rotation", "feeds"} \intersect (running \ stopping) # {}
    /\ emitted' = emitted + 1
    /\ queued' = IF queued < QueueSize THEN queued + 1 ELSE queued
    /\ UNCHANGED <<life, tasks, handling, accepting, joined, owed, timedOut>>

Consume ==
    /\ suspended /\ "bus" \in running \ stopping /\ queued > 0 /\ ~handling
    /\ queued' = queued - 1
    /\ handling' = TRUE
    /\ UNCHANGED <<life, tasks, accepting, joined, emitted, owed, timedOut>>

Dispatched ==
    /\ suspended /\ "bus" \in running \ stopping /\ handling
    /\ handling' = FALSE
    /\ joined' = (joined \/ queued = 0)
    /\ owed' = IF owed > 0 THEN owed - 1 ELSE 0
    /\ UNCHANGED <<life, tasks, queued, accepting, emitted, timedOut>>

\* Once stopped, the consumer drains the queue and returns.
ConsumerReturns ==
    /\ suspended /\ "bus" \in running \ stopping
    /\ ~accepting /\ queued = 0 /\ ~handling
    /\ running' = running \ {"bus"}
    /\ UNCHANGED <<life, stopping, scheduled, busState>>

\* A cancelled task ends; the consumer leaves what it was dispatching.
Cancelled(t) ==
    /\ suspended /\ t \in stopping
    /\ running' = running \ {t}
    /\ stopping' = stopping \ {t}
    /\ handling' = (handling /\ t # "bus")
    /\ UNCHANGED <<life, scheduled, queued, accepting, joined, emitted, owed,
                   timedOut>>

-----------------------------------------------------------------------------
(* shutdown() *)

\* The call goes on without suspending, or suspends.
Proceeds(next) == stage' = next /\ suspended' = FALSE /\ UNCHANGED <<features, served>>
Suspends(next) == stage' = next /\ suspended' = TRUE /\ UNCHANGED <<features, served>>
Cancels(t) == stopping' = stopping \cup ({t} \intersect running)

Shutdown ==
    /\ stage = "up" /\ ~(suspended /\ scheduled)
    /\ Proceeds("rotation")
    /\ UNCHANGED <<tasks, busState>>

\* stop() of the rotation does not wait for its task.
StopRotation ==
    /\ stage = "rotation"
    /\ Cancels("rotation")
    /\ Proceeds("pools")
    /\ UNCHANGED <<running, scheduled, busState>>

\* A service is stopped: its task is cancelled and awaited, if there is one.
StopTask(at, t, pending, next) ==
    /\ stage = at
    /\ Cancels(t)
    /\ IF t \in running THEN Suspends(pending) ELSE Proceeds(next)
    /\ UNCHANGED <<running, scheduled, busState>>

Awaited(pending, t, next) ==
    /\ stage = pending /\ t \notin running /\ ~scheduled
    /\ Proceeds(next)
    /\ UNCHANGED <<tasks, busState>>

\* Mutant: the bus is stopped with immediate=True.
StopBus_Immediate ==
    /\ stage = "bus"
    /\ accepting' = FALSE
    /\ owed' = queued + (IF handling THEN 1 ELSE 0)
    /\ Cancels("bus")
    /\ IF "bus" \in running THEN Suspends("draining") ELSE Proceeds("sessions")
    /\ UNCHANGED <<running, scheduled, queued, handling, joined, emitted, timedOut>>

\* stop() of the bus waits for its queue, for five seconds at most.
StopBus ==
    /\ stage = "bus"
    /\ accepting' = FALSE
    /\ owed' = queued + (IF handling THEN 1 ELSE 0)
    /\ joined' = (owed' = 0)
    /\ IF "bus" \notin running THEN Proceeds("sessions") /\ UNCHANGED stopping
       ELSE IF joined' THEN Suspends("draining") /\ Cancels("bus")
       ELSE Suspends("join") /\ UNCHANGED stopping
    /\ UNCHANGED <<running, scheduled, queued, handling, emitted, timedOut>>

JoinEnds ==
    /\ stage = "join" /\ ~scheduled
    /\ timedOut' = ~joined
    /\ Cancels("bus")
    /\ IF "bus" \in running THEN Suspends("draining") ELSE Proceeds("sessions")
    /\ UNCHANGED <<running, scheduled, queued, handling, accepting, joined, emitted,
                   owed>>

ShieldNext ==
    \/ Construct
    \/ Serve
    \/ StartCleanup
    \/ Emits
    \/ Consume
    \/ Dispatched
    \/ ConsumerReturns
    \/ \E t \in BackgroundTasks : Cancelled(t)
    \/ Shutdown
    \/ StopRotation
    \/ StopTask("pools", "health", "closing", "bus")
    \/ Awaited("closing", "health", "bus")
    \/ StopBus
    \/ JoinEnds
    \/ Awaited("draining", "bus", "sessions")
    \/ StopTask("sessions", "cleanup", "cleanup", "dlq")
    \/ Awaited("cleanup", "cleanup", "dlq")
    \/ StopTask("dlq", "dlq", "polling", "feeds")
    \/ Awaited("polling", "dlq", "feeds")
    \/ StopTask("feeds", "feeds", "fetching", "down")
    \/ Awaited("fetching", "feeds", "down")

ShieldSpec == ShieldInit /\ [][ShieldNext]_shieldVars

-----------------------------------------------------------------------------
(* Properties *)

\* After shutdown() the bus, the consumer of the dead-letter queue, the health
\* checks of the pools and the feeds have ended; so has the cleanup of sessions,
\* unless the shield, without pools and webhooks, is shut down before its event
\* loop has run anything else: the loop is then started after it was stopped.
NothingLeft ==
    stage = "down" =>
        /\ {"bus", "dlq", "health", "feeds"} \intersect running = {}
        /\ scheduled \/ "cleanup" \in running =>
               ~served /\ {"db", "webhooks"} \intersect features = {}

\* What was emitted before the bus was stopped is dispatched, unless that takes
\* more than its five seconds.
EventsAccounted ==
    stage \in {"sessions", "dlq", "feeds", "down"} /\ ~timedOut => owed = 0

ShutdownComplete == NothingLeft /\ EventsAccounted

=============================================================================
