------------------------------ MODULE WebhookDLQ ------------------------------
(***************************************************************************)
(* The Redis dead-letter queue of the webhook subsystem: the backend       *)
(* (src/araxys/webhooks/dlq.py, WebhookDLQBackend), the background         *)
(* consumer that redelivers what is in it (DLQConsumer), and the operator  *)
(* endpoints that replay and purge entries (dlq_routes.py).                *)
(*                                                                         *)
(* Redis executes a command, or a MULTI pipeline, atomically; everything   *)
(* between two awaits of one coroutine is a step here, so an enqueue, a    *)
(* replay, a purge and a redelivery interleave as they do in the program.  *)
(* Time appears only as what it changes: an entry becomes due, an entry    *)
(* becomes older than dlq_max_age_seconds.                                 *)
(***************************************************************************)
EXTENDS Integers, FiniteSets

CONSTANTS
    Events,         \* the event ids uuid4() can hand out
    Urls,           \* the configured webhook URLs
    None,           \* no event; also the url of a hash without payload fields
    Consumers,      \* DLQConsumer tasks: one per process that runs a shield
    Operators,      \* concurrent calls of the operator endpoints
    Calls,          \* the endpoints they use: "replay", "purge_all", "purge_url"
    RetryMax,       \* WebhookConfig.retry_max
    DlqMaxRetries,  \* WebhookConfig.dlq_max_retries
    Batch,          \* batch_size of dequeue_eligible
    MaxFaults       \* bound on Redis errors, stops and broken-off requests

ASSUME ConfigAssumption ==
    /\ None \notin Urls
    /\ None \notin Events
    /\ Consumers \cap Operators = {}
    /\ Calls \subseteq {"replay", "purge_all", "purge_url"}
    /\ RetryMax \in Nat
    /\ DlqMaxRetries \in Nat \ {0}
    /\ Batch \in Nat \ {0}
    /\ MaxFaults \in Nat

VARIABLES
    \* Redis
    stored,      \* ids whose hash dlq:event:<id> exists
    hash,        \* the fields of that hash
    pending,     \* members of the sorted set dlq:pending
    due,         \* the pending members whose score is not in the future
    dead,        \* members of the sorted set dlq:dead
    aged,        \* ids whose created_at is older than dlq_max_age_seconds
    \* the consumers
    pc,          \* where a consumer's _poll_loop is suspended
    fetching,    \* ids dequeue_eligible has selected but not yet read
    batch,       \* the DLQEvent snapshots still to be dispatched
    cur,         \* the event a consumer or an operator call is working on
    count,       \* the attempt_count read by _reschedule_or_mark_dead
    todo,        \* keys a SCAN will still return, for a consumer or operator
    \* the operator endpoints
    op,          \* the call in progress
    target,      \* the url a purge_by_url is about
    \* history
    used,        \* ids handed out so far
    origin,      \* the entry an entry is a copy of (itself if it is none)
    settled,     \* ids whose payload an endpoint has accepted or a purge deleted
    exposed,     \* ids that lost their index entry, not their hash
    tries,       \* failed redeliveries since the enqueue or the last replay
    faults       \* faults so far

redis == <<stored, hash, pending, due, dead>>
progress == <<pc, cur, count, todo, op, target>>
history == <<used, origin, settled, exposed, tries>>
vars == <<redis, aged, progress, fetching, batch, history, faults>>

Procs == Consumers \cup Operators

\* The names of the two sorted sets, as SCAN MATCH dlq:* returns them.
PendingKey == "dlq:pending"
DeadKey == "dlq:dead"
Keys == Events \cup {PendingKey, DeadKey}

Hash == [url: Urls \cup {None}, attempts: Nat, status: {"pending", "dead"}]
Snapshot == [id: Events, url: Urls \cup {None}]

\* What _hash_to_event reads from a hash whose fields are missing.
Blank == [url |-> None, attempts |-> 0, status |-> "pending"]

HasPayload(e) == e \in stored /\ hash[e].url \in Urls

\* Only purge_all, which deletes whatever it meets, comes across the sorted
\* sets: the others would read fields of them, which Redis refuses.
ScansHashes ==
    /\ \A c \in Consumers : todo[c] \subseteq Events
    /\ \A o \in Operators : op[o] # "purge_all" => todo[o] \subseteq Events

TypeOK ==
    /\ stored \in SUBSET Events
    /\ hash \in [Events -> Hash]
    /\ pending \in SUBSET Events
    /\ due \in SUBSET pending
    /\ dead \in SUBSET Events
    /\ aged \in SUBSET Events
    /\ pc \in [Consumers -> {"off", "select", "fetch", "dispatch", "exists",
                             "remove", "hget", "update", "scan", "purge",
                             "sleep"}]
    /\ fetching \in [Consumers -> SUBSET Events]
    /\ batch \in [Consumers -> SUBSET Snapshot]
    /\ cur \in [Procs -> Events \cup {None}]
    /\ count \in [Consumers -> Nat]
    /\ todo \in [Procs -> SUBSET Keys]
    /\ op \in [Operators -> {"idle", "zrem", "requeue", "purge_all",
                             "purge_url"}]
    /\ target \in [Operators -> Urls \cup {None}]
    /\ used \in SUBSET Events
    /\ origin \in [Events -> Events]
    /\ settled \in SUBSET Events
    /\ exposed \in SUBSET Events
    /\ tries \in [Events -> Nat]
    /\ faults \in Nat
    /\ ScansHashes

Init ==
    /\ stored = {}
    /\ hash = [e \in Events |-> Blank]
    /\ pending = {}
    /\ due = {}
    /\ dead = {}
    /\ aged = {}
    /\ pc = [c \in Consumers |-> "off"]
    /\ fetching = [c \in Consumers |-> {}]
    /\ batch = [c \in Consumers |-> {}]
    /\ cur = [p \in Procs |-> None]
    /\ count = [c \in Consumers |-> 0]
    /\ todo = [p \in Procs |-> {}]
    /\ op = [o \in Operators |-> "idle"]
    /\ target = [o \in Operators |-> None]
    /\ used = {}
    /\ origin = [e \in Events |-> e]
    /\ settled = {}
    /\ exposed = {}
    /\ tries = [e \in Events |-> 0]
    /\ faults = 0

-----------------------------------------------------------------------------
(* Effects on Redis shared by several operations *)

\* DEL of the hashes of a set of events, and with them of what is recorded
\* about these entries.
DeleteHashes(ids) ==
    /\ stored' = stored \ ids
    /\ hash' = [e \in Events |-> IF e \in ids THEN Blank ELSE hash[e]]
    /\ aged' = aged \ ids
    /\ tries' = [e \in Events |-> IF e \in ids THEN 0 ELSE tries[e]]

\* DEL of the hash and ZREM from both sorted sets, in one pipeline.
Erase(e) ==
    /\ DeleteHashes({e})
    /\ pending' = pending \ {e}
    /\ due' = due \ {e}
    /\ dead' = dead \ {e}
    /\ exposed' = exposed \ {e}

\* HSET of the bookkeeping fields; it creates the hash if there is none.
SetFields(e, attempts, status) ==
    /\ stored' = stored \cup {e}
    /\ hash' = [hash EXCEPT ![e] = [url |-> hash[e].url, attempts |-> attempts,
                                    status |-> status]]

\* WebhookDLQBackend.enqueue: HSET and ZADD in one pipeline, due at once.
Enqueue(e, url, of) ==
    /\ e \notin used
    /\ stored' = stored \cup {e}
    /\ hash' = [hash EXCEPT ![e] = [url |-> url, attempts |-> RetryMax + 1,
                                    status |-> "pending"]]
    /\ pending' = pending \cup {e}
    /\ due' = due \cup {e}
    /\ used' = used \cup {e}
    /\ origin' = [origin EXCEPT ![e] = of]
    /\ UNCHANGED dead

\* A first delivery has exhausted its attempts (WebhookDelivery).
FirstDeliveryExhausted(e, url) ==
    /\ Enqueue(e, url, e)
    /\ UNCHANGED <<aged, progress, fetching, batch, settled,
                   exposed, tries, faults>>

\* The clock passes next_retry_at, or created_at + dlq_max_age_seconds.
BecomeDue(e) ==
    /\ e \in pending \ due
    /\ due' = due \cup {e}
    /\ UNCHANGED <<stored, hash, pending, dead, aged, progress, fetching,
                   batch, history, faults>>

Age(e) ==
    /\ e \in stored \ aged
    /\ aged' = aged \cup {e}
    /\ UNCHANGED <<redis, progress, fetching, batch, history, faults>>

-----------------------------------------------------------------------------
(* The consumer *)

Go(c, from, to) ==
    /\ pc[c] = from
    /\ pc' = [pc EXCEPT ![c] = to]

\* DLQConsumer.start; the task begins with a poll.
Start(c) ==
    /\ Go(c, "off", "select")
    /\ UNCHANGED <<redis, aged, cur, count, todo, op, target, fetching, batch,
                   history, faults>>

\* dequeue_eligible: ZRANGEBYSCORE dlq:pending 0 now LIMIT 0 batch_size, which
\* takes nothing out of the set.
SelectDue(c) ==
    \E ids \in SUBSET due :
        /\ Cardinality(ids) <= Batch
        /\ ids = due \/ Cardinality(ids) = Batch
        /\ Go(c, "select", IF ids = {} THEN "scan" ELSE "fetch")
        /\ fetching' = [fetching EXCEPT ![c] = ids]
        /\ UNCHANGED <<redis, aged, cur, count, todo, op, target, batch,
                       history, faults>>

\* _fetch_events: one HGETALL per id; an id whose hash is gone is left out.
FetchEvent(c, e) ==
    /\ pc[c] = "fetch"
    /\ e \in fetching[c]
    /\ fetching' = [fetching EXCEPT ![c] = @ \ {e}]
    /\ batch' = IF e \in stored
                THEN [batch EXCEPT ![c] = @ \cup {[id |-> e, url |-> hash[e].url]}]
                ELSE batch
    /\ pc' = IF fetching[c] = {e} THEN [pc EXCEPT ![c] = "dispatch"] ELSE pc
    /\ UNCHANGED <<redis, aged, cur, count, todo, op, target, history, faults>>

\* The HGETALL raises: gather returns the exception and the id is left out.
FetchError(c, e) ==
    /\ faults < MaxFaults
    /\ faults' = faults + 1
    /\ pc[c] = "fetch"
    /\ e \in fetching[c]
    /\ fetching' = [fetching EXCEPT ![c] = @ \ {e}]
    /\ pc' = IF fetching[c] = {e} THEN [pc EXCEPT ![c] = "dispatch"] ELSE pc
    /\ UNCHANGED <<redis, aged, cur, count, todo, op, target, batch, history>>

\* Take one event of the batch and continue at "to" with it.
Dispatch(c, s, to) ==
    /\ s \in batch[c]
    /\ Go(c, "dispatch", to)
    /\ batch' = [batch EXCEPT ![c] = @ \ {s}]
    /\ cur' = [cur EXCEPT ![c] = s.id]
    /\ UNCHANGED <<aged, count, todo, op, target, fetching, faults>>

\* _reconstruct_event raises on a snapshot without payload: no delivery.
Undecodable(c, s) ==
    /\ s.url = None
    /\ Dispatch(c, s, "hget")
    /\ UNCHANGED <<redis, history>>

\* _deliver_with_retry returns True.
Delivered(c, s) ==
    /\ s.url # None
    /\ Dispatch(c, s, "exists")
    /\ settled' = settled \cup {s.id}
    /\ UNCHANGED <<redis, used, origin, exposed, tries>>

\* _deliver_with_retry exhausts its attempts: it enqueues the payload as a new
\* entry and returns False, and the consumer goes on with the old one.
FailedAndCopied(c, s) ==
    /\ s.url # None
    /\ Dispatch(c, s, "hget")
    /\ \E e \in Events : Enqueue(e, s.url, origin[s.id])
    /\ tries' = [tries EXCEPT ![s.id] = @ + 1]
    /\ UNCHANGED <<settled, exposed>>

\* Mutant: the result of the delivery is ignored and the entry removed.
FailedOnly_RemovesAnyway(c, s) ==
    /\ s.url # None
    /\ Dispatch(c, s, "exists")
    /\ tries' = [tries EXCEPT ![s.id] = @ + 1]
    /\ UNCHANGED <<redis, used, origin, settled, exposed>>

\* As FailedAndCopied, but the enqueue fails (logged), or the delivery raises.
FailedOnly(c, s) ==
    /\ s.url # None
    /\ Dispatch(c, s, "hget")
    /\ tries' = [tries EXCEPT ![s.id] = @ + 1]
    /\ UNCHANGED <<redis, used, origin, settled, exposed>>

\* remove: EXISTS, then the pipeline.
RemoveExists(c) ==
    /\ IF cur[c] \in stored
       THEN Go(c, "exists", "remove") /\ UNCHANGED cur
       ELSE Go(c, "exists", "dispatch") /\ cur' = [cur EXCEPT ![c] = None]
    /\ UNCHANGED <<redis, aged, count, todo, op, target, fetching, batch,
                   history, faults>>

Remove(c) ==
    /\ Go(c, "remove", "dispatch")
    /\ Erase(cur[c])
    /\ cur' = [cur EXCEPT ![c] = None]
    /\ UNCHANGED <<count, todo, op, target, fetching, batch, used, origin,
                   settled, faults>>

\* _reschedule_or_mark_dead: HGET attempt_count, then one of two pipelines.
ReadAttempts(c) ==
    /\ Go(c, "hget", "update")
    /\ count' = [count EXCEPT ![c] = hash[cur[c]].attempts]
    /\ UNCHANGED <<redis, aged, cur, todo, op, target, fetching, batch,
                   history, faults>>

EndUpdate(c) ==
    /\ Go(c, "update", "dispatch")
    /\ due' = due \ {cur[c]}
    /\ exposed' = exposed \ {cur[c]}
    /\ cur' = [cur EXCEPT ![c] = None]
    /\ count' = [count EXCEPT ![c] = 0]
    /\ UNCHANGED <<aged, todo, op, target, fetching, batch, used, origin,
                   settled, tries, faults>>

\* Mutant: one retry too many.
Reschedule_OffByOne(c) ==
    /\ EndUpdate(c)
    /\ count[c] + 1 <= DlqMaxRetries
    /\ pending' = pending \cup {cur[c]}
    /\ SetFields(cur[c], count[c] + 1, hash[cur[c]].status)
    /\ UNCHANGED dead

Reschedule(c) ==
    /\ EndUpdate(c)
    /\ count[c] + 1 < DlqMaxRetries
    /\ pending' = pending \cup {cur[c]}
    /\ SetFields(cur[c], count[c] + 1, hash[cur[c]].status)
    /\ UNCHANGED dead

\* Mutants: the event is taken out of dlq:pending but not put in dlq:dead, or
\* put in dlq:dead but not taken out of dlq:pending.
MarkDead_NotIndexed(c) ==
    /\ EndUpdate(c)
    /\ count[c] + 1 >= DlqMaxRetries
    /\ pending' = pending \ {cur[c]}
    /\ UNCHANGED dead
    /\ SetFields(cur[c], count[c] + 1, "dead")

MarkDead_StaysPending(c) ==
    /\ EndUpdate(c)
    /\ count[c] + 1 >= DlqMaxRetries
    /\ UNCHANGED pending
    /\ dead' = dead \cup {cur[c]}
    /\ SetFields(cur[c], count[c] + 1, "dead")

MarkDead(c) ==
    /\ EndUpdate(c)
    /\ count[c] + 1 >= DlqMaxRetries
    /\ pending' = pending \ {cur[c]}
    /\ dead' = dead \cup {cur[c]}
    /\ SetFields(cur[c], count[c] + 1, "dead")

EndBatch(c) ==
    /\ batch[c] = {}
    /\ Go(c, "dispatch", "scan")
    /\ UNCHANGED <<redis, aged, cur, count, todo, op, target, fetching, batch,
                   history, faults>>

\* purge_expired: SCAN dlq:event:*, then for each key HGET created_at and, if
\* that is old enough, the deleting pipeline. created_at never changes while
\* the hash exists, so the two calls are one step. A key that is added during
\* the SCAN is not old enough.
\* Mutants: only the events of the sorted sets are looked at, or the SCAN has
\* the pattern of purge_all, dlq:*.
PurgeScan_IndexOnly(c) ==
    /\ Go(c, "scan", "purge")
    /\ todo' = [todo EXCEPT ![c] = stored \cap (pending \cup dead)]
    /\ UNCHANGED <<redis, aged, cur, count, op, target, fetching, batch,
                   history, faults>>

PurgeScan_AllKeys(c) ==
    /\ Go(c, "scan", "purge")
    /\ todo' = [todo EXCEPT ![c] =
                   stored \cup {k \in {PendingKey} : pending # {}}
                          \cup {k \in {DeadKey} : dead # {}}]
    /\ UNCHANGED <<redis, aged, cur, count, op, target, fetching, batch,
                   history, faults>>

PurgeScan(c) ==
    /\ Go(c, "scan", "purge")
    /\ todo' = [todo EXCEPT ![c] = stored]
    /\ UNCHANGED <<redis, aged, cur, count, op, target, fetching, batch,
                   history, faults>>

PurgeExpired(c, e) ==
    /\ pc[c] = "purge"
    /\ e \in todo[c]
    /\ todo' = [todo EXCEPT ![c] = @ \ {e}]
    /\ IF HasPayload(e) /\ e \in aged
       THEN Erase(e) /\ settled' = settled \cup {e}
       ELSE UNCHANGED <<redis, aged, exposed, tries, settled>>
    /\ UNCHANGED <<pc, cur, count, op, target, fetching, batch, used, origin,
                   faults>>

PurgeEnd(c) ==
    /\ todo[c] = {}
    /\ Go(c, "purge", "sleep")
    /\ UNCHANGED <<redis, aged, cur, count, todo, op, target, fetching, batch,
                   history, faults>>

\* asyncio.sleep(dlq_retry_interval_seconds) ends.
Wake(c) ==
    /\ Go(c, "sleep", "select")
    /\ UNCHANGED <<redis, aged, cur, count, todo, op, target, fetching, batch,
                   history, faults>>

\* A consumer drops whatever it has in hand.
GiveUp(c, to) ==
    /\ faults < MaxFaults
    /\ faults' = faults + 1
    /\ pc' = [pc EXCEPT ![c] = to]
    /\ fetching' = [fetching EXCEPT ![c] = {}]
    /\ batch' = [batch EXCEPT ![c] = {}]
    /\ cur' = [cur EXCEPT ![c] = None]
    /\ count' = [count EXCEPT ![c] = 0]
    /\ todo' = [todo EXCEPT ![c] = {}]
    /\ UNCHANGED <<redis, aged, op, target, history>>

\* Mutant: the exception ends the task, and start() does nothing any more
\* because _running is still True.
RedisError_KillsTask(c) ==
    /\ pc[c] \notin {"off", "sleep"}
    /\ GiveUp(c, "crashed")

\* A Redis call raises: _poll_loop logs it, skips the rest of the cycle and
\* sleeps. The call may have taken effect: that is the next step, then this.
RedisError(c) ==
    /\ pc[c] \notin {"off", "sleep"}
    /\ GiveUp(c, "sleep")

\* DLQConsumer.stop cancels the task at whatever it awaits; a crash of the
\* process does the same to everything that is not in Redis.
Stop(c) ==
    /\ pc[c] # "off"
    /\ GiveUp(c, "off")

-----------------------------------------------------------------------------
(* The operator endpoints *)

Begin(o, to) ==
    /\ op[o] = "idle"
    /\ op' = [op EXCEPT ![o] = to]
    /\ UNCHANGED <<redis, aged, pc, count, fetching, batch, history, faults>>

Finish(o) ==
    /\ op' = [op EXCEPT ![o] = "idle"]
    /\ cur' = [cur EXCEPT ![o] = None]
    /\ target' = [target EXCEPT ![o] = None]
    /\ todo' = [todo EXCEPT ![o] = {}]

\* POST /dlq/{event_id}/replay: inspect answers 404 when the hash is gone.
ReplayInspect(o, e) ==
    /\ "replay" \in Calls
    /\ e \in stored
    /\ Begin(o, "zrem")
    /\ cur' = [cur EXCEPT ![o] = e]
    /\ UNCHANGED <<todo, target>>

\* replay: ZREM dlq:dead; an id that was not in it is left alone.
ReplayZrem(o) ==
    /\ op[o] = "zrem"
    /\ dead' = dead \ {cur[o]}
    /\ IF cur[o] \in dead
       THEN /\ op' = [op EXCEPT ![o] = "requeue"]
            /\ UNCHANGED <<cur, target, todo>>
       ELSE Finish(o)
    /\ UNCHANGED <<stored, hash, pending, due, aged, pc, count, fetching,
                   batch, history, faults>>

\* replay: the pipeline.
ReplayRequeue(o) ==
    /\ op[o] = "requeue"
    /\ SetFields(cur[o], 0, "pending")
    /\ pending' = pending \cup {cur[o]}
    /\ due' = due \cup {cur[o]}
    /\ tries' = [tries EXCEPT ![cur[o]] = 0]
    /\ exposed' = exposed \ {cur[o]}
    /\ Finish(o)
    /\ UNCHANGED <<dead, aged, pc, count, fetching, batch, used, origin,
                   settled, faults>>

\* DELETE /dlq: purge_all SCANs dlq:* page by page and deletes each page. SCAN
\* walks the whole keyspace in an unspecified order, and a key is returned if
\* it exists when its place is visited: "todo" are the places still to come.
PurgeAll(o) ==
    /\ "purge_all" \in Calls
    /\ Begin(o, "purge_all")
    /\ todo' = [todo EXCEPT ![o] = Keys]
    /\ UNCHANGED <<cur, target>>

PurgeAllPage(o) ==
    /\ op[o] = "purge_all"
    /\ \E page \in SUBSET todo[o] \ {{}} :
        /\ todo' = [todo EXCEPT ![o] = @ \ page]
        /\ DeleteHashes(page \cap Events)
        /\ settled' = settled \cup {e \in page \cap Events : HasPayload(e)}
        /\ pending' = IF PendingKey \in page THEN {} ELSE pending
        /\ due' = IF PendingKey \in page THEN {} ELSE due
        /\ dead' = IF DeadKey \in page THEN {} ELSE dead
        /\ exposed' = (exposed \cup (pending \ pending') \cup (dead \ dead'))
                      \ page
    /\ UNCHANGED <<pc, cur, count, op, target, fetching, batch, used, origin,
                   faults>>

\* DELETE /dlq?url=...: purge_by_url, key by key as purge_expired.
PurgeByUrl(o, url) ==
    /\ "purge_url" \in Calls
    /\ Begin(o, "purge_url")
    /\ target' = [target EXCEPT ![o] = url]
    /\ todo' = [todo EXCEPT ![o] = Events]
    /\ UNCHANGED cur

PurgeUrlVisit(o, e) ==
    /\ op[o] = "purge_url"
    /\ e \in todo[o]
    /\ todo' = [todo EXCEPT ![o] = @ \ {e}]
    /\ IF e \in stored /\ hash[e].url = target[o]
       THEN Erase(e) /\ settled' = settled \cup {e}
       ELSE UNCHANGED <<redis, aged, exposed, tries, settled>>
    /\ UNCHANGED <<pc, cur, count, op, target, fetching, batch, used, origin,
                   faults>>

PurgeFinished(o) ==
    /\ op[o] \in {"purge_all", "purge_url"}
    /\ todo[o] = {}
    /\ Finish(o)
    /\ UNCHANGED <<redis, aged, pc, count, fetching, batch, history, faults>>

\* A Redis call of the endpoint raises (503), or its process dies: what has
\* been done stays done. A replay broken off after its ZREM has taken the
\* event out of dlq:dead and put it nowhere.
OperatorError(o) ==
    /\ op[o] # "idle"
    /\ faults < MaxFaults
    /\ faults' = faults + 1
    /\ exposed' = IF op[o] = "requeue" THEN exposed \cup {cur[o]} ELSE exposed
    /\ Finish(o)
    /\ UNCHANGED <<redis, aged, pc, count, fetching, batch, used, origin,
                   settled, tries>>

-----------------------------------------------------------------------------
ConsumerStep(c) ==
    \/ SelectDue(c) \/ RemoveExists(c) \/ Remove(c) \/ ReadAttempts(c)
    \/ Reschedule(c) \/ MarkDead(c) \/ EndBatch(c)
    \/ PurgeScan(c) \/ PurgeEnd(c) \/ Wake(c)
    \/ \E e \in Events : FetchEvent(c, e) \/ PurgeExpired(c, e)
    \/ \E s \in batch[c] : \/ Undecodable(c, s) \/ Delivered(c, s)
                           \/ FailedAndCopied(c, s) \/ FailedOnly(c, s)

OperatorStep(o) ==
    \/ \E e \in Events : ReplayInspect(o, e) \/ PurgeUrlVisit(o, e)
    \/ \E url \in Urls : PurgeByUrl(o, url)
    \/ ReplayZrem(o) \/ ReplayRequeue(o) \/ PurgeAll(o) \/ PurgeAllPage(o)
    \/ PurgeFinished(o) \/ OperatorError(o)

Environment ==
    \E e \in Events : \/ BecomeDue(e) \/ Age(e)
                      \/ \E url \in Urls : FirstDeliveryExhausted(e, url)

Next ==
    \/ Environment
    \/ \E c \in Consumers :
        \/ ConsumerStep(c) \/ Start(c) \/ Stop(c) \/ RedisError(c)
        \/ \E e \in Events : FetchError(c, e)
    \/ \E o \in Operators : OperatorStep(o)

Spec == Init /\ [][Next]_vars

\* The event loop resumes a task whose await has completed, a stopped process
\* is started again, and time passes. Nothing is assumed of the operators or
\* of the endpoints.
Fairness ==
    /\ \A c \in Consumers : WF_vars(ConsumerStep(c)) /\ WF_vars(Start(c))
    /\ \A e \in Events : WF_vars(BecomeDue(e))

LiveSpec == Spec /\ Fairness

-----------------------------------------------------------------------------
(* Properties *)

\* An entry keeps its payload until an endpoint has accepted it or a purge has
\* deleted it: no interleaving of redeliveries, replays, faults and restarts
\* destroys an undelivered event.
NoEventLost ==
    \A e \in used : HasPayload(e) \/ e \in settled

\* An entry with a payload is in one of the sorted sets, where the consumer or
\* the operator finds it, unless a replay is between its two calls, or was
\* broken off there, or a purge_all has deleted the sorted set under it.
Indexed ==
    \A e \in Events :
        HasPayload(e) =>
            \/ e \in pending \cup dead \cup exposed
            \/ \E o \in Operators : op[o] = "requeue" /\ cur[o] = e

\* The sorted sets exclude each other and agree with the hashes: a dead entry
\* has used up its attempts and a pending one is not marked dead.
IndexAgrees ==
    /\ pending \cap dead = {}
    /\ \A e \in dead \cap stored : /\ hash[e].status = "dead"
                                   /\ hash[e].attempts >= DlqMaxRetries
    /\ \A e \in pending \cap stored : hash[e].status = "pending"

\* Every entry is in the one sorted set where its status says it is.
EntriesInPlace == Indexed /\ IndexAgrees

\* An entry whose redelivery keeps failing is redelivered at most
\* dlq_max_retries times before it is dead; only a fault between a failed
\* delivery and its bookkeeping allows one attempt more. This is about one
\* entry: the copy that a failed redelivery enqueues is an entry of its own,
\* so the event behind them has no such bound (WebhookDLQ_copies.cfg).
RetriesBounded == \A e \in Events : tries[e] <= DlqMaxRetries + faults

\* A pending entry with a payload does not stay pending for ever: it is
\* delivered, goes dead, or is purged, whatever the endpoints answer.
PendingSettles ==
    \A e \in Events :
        (e \in pending /\ HasPayload(e)) ~> (e \notin pending \/ ~HasPayload(e))

\* An entry older than dlq_max_age_seconds is deleted in the end, also when it
\* is dead, or stranded outside both sorted sets by a broken-off replay.
AgedReclaimed ==
    \A e \in Events : (e \in aged /\ HasPayload(e)) ~> ~HasPayload(e)

\* "On failure, reschedules or marks as dead": an undelivered event has one
\* entry in the queue.
OneEntryPerEvent ==
    \A e, f \in stored : origin[e] = origin[f] => e = f

=============================================================================
