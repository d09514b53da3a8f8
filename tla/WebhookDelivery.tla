----------------------------- MODULE WebhookDelivery -----------------------------
(***************************************************************************)
(* WebhookDelivery (src/araxys/webhooks/delivery.py): the subscriber of    *)
(* the event bus that starts a task for every event and URL, the tasks'    *)
(* attempts under the semaphore, and what they hand to the dead-letter     *)
(* queue.  EventBus models the bus, WebhookDLQ what becomes of the queue.  *)
(***************************************************************************)
EXTENDS Integers, Sequences, FiniteSets

CONSTANTS
    Hooks,          \* the URLs registered for the type of the events
    MaxEvents,      \* bound on the events the bus dispatches
    RetryBudgets,   \* values of retry_max
    RetryDelays,    \* the length of _RETRY_DELAYS
    MaxConcurrent   \* max_concurrent_deliveries

ASSUME DeliveryAssumption ==
    /\ {MaxEvents, RetryDelays, MaxConcurrent} \subseteq Nat \ {0}
    /\ RetryBudgets \subseteq Nat /\ RetryBudgets # {}

VARIABLES
    hasDlq,     \* a dead-letter queue is configured
    retryMax,   \* retry_max
    event,      \* the events dispatched so far are 1..event
    unchecked,  \* the URLs the subscriber still has to look at for the last
    task,       \* where the task of an event and a URL stands
    attempt,    \* its attempt, from 0
    line,       \* the tasks that wait for the semaphore, in order
    free,       \* _delivery_semaphore
    deadLetters,\* entries enqueued
    taken,      \* history: attempts the receiver answered with a success
    troubled    \* history: tasks whose queue or request failed for good, or
                \* that were running when the process stopped

deliveryConfig == <<hasDlq, retryMax>>
deliveryVars == <<deliveryConfig, event, unchecked, task, attempt, line, free,
                  deadLetters, taken, troubled>>

Deliveries == (1..MaxEvents) \X Hooks
Holders == {d \in Deliveries : task[d] \in {"posting", "sleeping", "queueing"}}

DeliveryTypeOK ==
    /\ hasDlq \in BOOLEAN
    /\ event \in 0..MaxEvents
    /\ unchecked \subseteq Hooks
    /\ task \in [Deliveries -> {"none", "rejected", "waiting", "posting",
                                "sleeping", "queueing", "ended"}]
    /\ retryMax \in RetryBudgets
    /\ attempt \in [Deliveries -> 0..retryMax]
    /\ \A i \in DOMAIN line : task[line[i]] = "waiting"
    /\ free \in 0..MaxConcurrent
    /\ UNION {deadLetters, taken, troubled} \subseteq Deliveries

DeliveryInit ==
    /\ hasDlq \in BOOLEAN
    /\ retryMax \in RetryBudgets
    /\ event = 0
    /\ unchecked = {}
    /\ task = [d \in Deliveries |-> "none"]
    /\ attempt = [d \in Deliveries |-> 0]
    /\ line = <<>>
    /\ free = MaxConcurrent
    /\ deadLetters = {}
    /\ taken = {}
    /\ troubled = {}

-----------------------------------------------------------------------------
(* _on_event() *)

\* The bus dispatches its next event when the subscriber has returned.
OnEvent ==
    /\ unchecked = {} /\ event < MaxEvents
    /\ event' = event + 1
    /\ unchecked' = Hooks
    /\ UNCHANGED <<deliveryConfig, task, attempt, line, free, deadLetters, taken,
                   troubled>>

\* Each URL is resolved anew; a private address or plain HTTP is skipped.
CheckUrl(h) ==
    LET d == <<event, h>> IN
    /\ h \in unchecked
    /\ unchecked' = unchecked \ {h}
    /\ \/ task' = [task EXCEPT ![d] = "waiting"] /\ line' = Append(line, d)
       \/ task' = [task EXCEPT ![d] = "rejected"] /\ UNCHANGED line
    /\ UNCHANGED <<deliveryConfig, event, attempt, free, deadLetters, taken, troubled>>

-----------------------------------------------------------------------------
(* _deliver_guarded() and _deliver_with_retry() *)

\* The semaphore is fair, and held through every delay.
Acquire ==
    /\ line # <<>> /\ free > 0
    /\ free' = free - 1
    /\ line' = Tail(line)
    /\ task' = [task EXCEPT ![Head(line)] = "posting"]
    /\ UNCHANGED <<deliveryConfig, event, unchecked, attempt, deadLetters, taken,
                   troubled>>

EndsTask(d) == task' = [task EXCEPT ![d] = "ended"] /\ free' = free + 1

PostSucceeds(d) ==
    /\ task[d] = "posting"
    /\ taken' = taken \cup {d}
    /\ EndsTask(d)
    /\ UNCHANGED <<deliveryConfig, event, unchecked, attempt, line, deadLetters,
                   troubled>>

\* The mutant queues the event only if the last attempt was answered.
Exhausted_Answered(d, responded) ==
    IF hasDlq /\ responded
    THEN task' = [task EXCEPT ![d] = "queueing"] /\ UNCHANGED free
    ELSE EndsTask(d)

\* The loop has ended: enqueue(), if there is a queue.
Exhausted(d, responded) ==
    IF hasDlq
    THEN task' = [task EXCEPT ![d] = "queueing"] /\ UNCHANGED free
    ELSE EndsTask(d)

\* An error status, or a RequestError.  A retry sleeps for the delay at the
\* attempt's index; past the end of the list the IndexError ends the task.
PostFails(d, responded) ==
    /\ task[d] = "posting"
    /\ \/ attempt[d] = retryMax /\ Exhausted(d, responded)
       \/ /\ attempt[d] < retryMax /\ attempt[d] < RetryDelays
          /\ task' = [task EXCEPT ![d] = "sleeping"]
          /\ UNCHANGED free
       \/ /\ attempt[d] < retryMax /\ attempt[d] >= RetryDelays
          /\ EndsTask(d)
    /\ UNCHANGED <<deliveryConfig, event, unchecked, attempt, line, deadLetters, taken,
                   troubled>>

Wakes(d) ==
    /\ task[d] = "sleeping"
    /\ task' = [task EXCEPT ![d] = "posting"]
    /\ attempt' = [attempt EXCEPT ![d] = @ + 1]
    /\ UNCHANGED <<deliveryConfig, event, unchecked, line, free, deadLetters, taken,
                   troubled>>

\* An exception that is no RequestError leaves the task.
PostRaises(d) ==
    /\ task[d] = "posting"
    /\ troubled' = troubled \cup {d}
    /\ EndsTask(d)
    /\ UNCHANGED <<deliveryConfig, event, unchecked, attempt, line, deadLetters, taken>>

\* enqueue(); its failure is logged, and the event is gone.
EnqueueDlq(d) ==
    /\ task[d] = "queueing"
    /\ \/ deadLetters' = deadLetters \cup {d} /\ UNCHANGED troubled
       \/ troubled' = troubled \cup {d} /\ UNCHANGED deadLetters
    /\ EndsTask(d)
    /\ UNCHANGED <<deliveryConfig, event, unchecked, attempt, line, taken>>

\* shutdown() waits for none of the tasks: the loop cancels those that are
\* left.  A new process starts with none.
ProcessStops ==
    LET underWay == Holders \cup {d \in Deliveries : task[d] = "waiting"} IN
    /\ troubled' = troubled \cup underWay
    /\ task' = [d \in Deliveries |-> IF d \in underWay THEN "ended" ELSE task[d]]
    /\ line' = <<>>
    /\ free' = MaxConcurrent
    /\ unchecked' = {}
    /\ UNCHANGED <<deliveryConfig, event, attempt, deadLetters, taken>>

DeliveryNext ==
    \/ OnEvent \/ Acquire \/ ProcessStops
    \/ \E h \in Hooks : CheckUrl(h)
    \/ \E d \in Deliveries :
           \/ PostSucceeds(d) \/ Wakes(d) \/ PostRaises(d) \/ EnqueueDlq(d)
           \/ \E responded \in BOOLEAN : PostFails(d, responded)

DeliverySpec == DeliveryInit /\ [][DeliveryNext]_deliveryVars

-----------------------------------------------------------------------------
(* Properties *)

\* A task that ends has delivered its event or left it in the queue, unless
\* there is none, the process stopped, the queue failed, or a retry_max greater
\* than the number of delays ended it; no event is both; and every way out of a
\* task gives back its place under the semaphore.
DeliveryAccounted ==
    /\ \A d \in Deliveries :
           task[d] = "ended" =>
               \/ d \in taken \cup deadLetters \cup troubled
               \/ ~hasDlq
               \/ retryMax > RetryDelays /\ attempt[d] = RetryDelays
    /\ taken \intersect deadLetters = {}
    /\ free + Cardinality(Holders) = MaxConcurrent

=============================================================================
