------------------------------ MODULE RedisPools ------------------------------
(***************************************************************************)
(* The Redis pools of src/araxys/db_security/pool.py: RedisPool,           *)
(* RedisClusterPool and RedisSentinelPool.  A pool wraps one client, which *)
(* three tasks replace and close: the health loop that reconnects after    *)
(* failed PINGs, reload_url() with rotated credentials, and close().  The  *)
(* callers of acquire() and release() only share its counter.              *)
(*                                                                         *)
(* Every await is the end of a step.  The temporary client with which      *)
(* reload_url() tries a URL is its own affair and is left out.             *)
(***************************************************************************)
EXTENDS Integers, FiniteSets, Sequences

CONSTANTS
    Borrowers,   \* callers of acquire()
    Reloads,     \* concurrent calls of reload_url()
    Urls,        \* connection URLs
    NoUrl,       \* stands for the start-up nodes of a cluster without a URL
    MaxSize,     \* max_size
    Retries,     \* reconnect_retries
    MaxClients   \* bound on the clients a pool makes

ASSUME PoolAssumption ==
    /\ NoUrl \notin Urls
    /\ {"free", "health"} \intersect Reloads = {}
    /\ MaxSize \in Nat \ {0}
    /\ Retries \in Nat \ {0}
    /\ MaxClients \in Nat \ {0}

VARIABLES
    kind,        \* the class; "nodes" is a cluster with startup_nodes
    url,         \* self.url, or the sentinels and the name of the master
    clients,     \* the URL each client was made for; the last one is current
    open,        \* the clients that aclose() has not closed
    active,      \* _active_count
    closed,      \* _closed
    lock,        \* the holder of _reconnect_lock
    borrower,    \* where a caller of acquire() stands
    health,      \* where the health loop stands
    failures,    \* its consecutive failures
    reload,      \* where a call of reload_url() stands
    target,      \* the URL it was given
    old,         \* the client it replaced
    shutdown,    \* where close() stands
    shut,        \* the client close() closes
    \* history
    leaked,      \* slots lost between counting and returning a client,
                 \* as long as the counter means anything
    emptied,     \* close() zeroed the counter under a borrower
    reopened,    \* reload_url() replaced the client after close() marked it
    dropped      \* clients whose aclose() a cancelled reload gave up

slots == <<active, borrower, leaked, emptied>>
wiring == <<url, clients, open, closed, lock, reopened, dropped>>
healthLoop == <<health, failures>>
reloads == <<reload, target, old>>
closing == <<shutdown, shut>>
poolVars == <<kind, slots, wiring, healthLoop, reloads, closing>>

Kinds == {"standalone", "sentinel", "cluster", "nodes"}
Current == Len(clients)
Busy == {b \in Borrowers : borrower[b] # "out"}
Free == "free"

\* The mutant goes back to the first URL.
Origin_First == clients[1]

\* The URL a reconnection connects to.
Origin == IF kind = "nodes" THEN NoUrl ELSE url

PoolTypeOK ==
    /\ kind \in Kinds
    /\ url \in Urls \cup {NoUrl}
    /\ clients \in Seq(Urls \cup {NoUrl})
    /\ Current \in 1..MaxClients
    /\ open \subseteq 1..Current
    /\ active \in 0..MaxSize
    /\ {closed, emptied, reopened} \subseteq BOOLEAN
    /\ lock \in {Free, "health"} \cup Reloads
    /\ borrower \in [Borrowers -> {"out", "checking", "holding"}]
    /\ health \in {"asleep", "closing", "probing", "gone"}
    /\ failures \in 0..Retries
    /\ reload \in [Reloads -> {"idle", "trying", "waiting", "closing"}]
    /\ target \in [Reloads -> Urls \cup {NoUrl}]
    /\ old \in [Reloads -> 0..Current]
    /\ shutdown \in {"no", "cancelled", "closing", "done"}
    /\ shut \in 0..Current
    /\ leaked \in 0..MaxSize
    /\ dropped \subseteq 1..Current

\* The health loop needs a running event loop and a positive interval.
PoolInit ==
    /\ kind \in Kinds
    /\ IF kind = "nodes" THEN url = NoUrl ELSE url \in Urls
    /\ clients = <<url>>
    /\ open = {1}
    /\ active = 0
    /\ closed = FALSE
    /\ lock = Free
    /\ borrower = [b \in Borrowers |-> "out"]
    /\ health \in {"asleep", "gone"}
    /\ failures = 0
    /\ reload = [r \in Reloads |-> "idle"]
    /\ target = [r \in Reloads |-> NoUrl]
    /\ old = [r \in Reloads |-> 0]
    /\ shutdown = "no"
    /\ shut = 0
    /\ leaked = 0
    /\ emptied = FALSE
    /\ reopened = FALSE
    /\ dropped = {}

-----------------------------------------------------------------------------
(* acquire() and release() *)

\* The slot is counted first, whatever the checks that follow say.
Count(b, purpose) ==
    /\ borrower[b] = "out"
    /\ ~closed
    /\ active < MaxSize
    /\ active' = active + 1
    /\ borrower' = [borrower EXCEPT ![b] = purpose]
    /\ UNCHANGED <<kind, leaked, emptied, wiring, healthLoop, reloads, closing>>

\* A RedisPool and a RedisSentinelPool may first have to verify the pinned
\* certificate or to PING a client that was idle; a cluster returns at once.
AcquireClient(b) ==
    \E purpose \in {"checking", "holding"} :
        /\ kind \in {"cluster", "nodes"} => purpose = "holding"
        /\ Count(b, purpose)

CheckPasses(b) ==
    /\ borrower[b] = "checking"
    /\ borrower' = [borrower EXCEPT ![b] = "holding"]
    /\ UNCHANGED <<kind, active, leaked, emptied, wiring, healthLoop, reloads,
                   closing>>

\* A mismatch, a failed PING, or the time limit of acquire(): the caller
\* gets an exception and will not release, but its slot stays counted.
CheckFails(b) ==
    /\ borrower[b] = "checking"
    /\ borrower' = [borrower EXCEPT ![b] = "out"]
    /\ leaked' = IF emptied THEN leaked ELSE leaked + 1
    /\ UNCHANGED <<kind, active, emptied, wiring, healthLoop, reloads, closing>>

\* The mutant does not give the slot back.
Release_Keeps(b) ==
    /\ borrower[b] = "holding"
    /\ borrower' = [borrower EXCEPT ![b] = "out"]
    /\ UNCHANGED <<kind, active, leaked, emptied, wiring, healthLoop, reloads,
                   closing>>

\* Mutant: release() after close() counts below zero.
Release_BelowZero(b) ==
    /\ borrower[b] = "holding"
    /\ borrower' = [borrower EXCEPT ![b] = "out"]
    /\ active' = active - 1
    /\ UNCHANGED <<kind, leaked, emptied, wiring, healthLoop, reloads, closing>>

Release(b) ==
    /\ borrower[b] = "holding"
    /\ borrower' = [borrower EXCEPT ![b] = "out"]
    /\ active' = IF active > 0 THEN active - 1 ELSE active
    /\ UNCHANGED <<kind, leaked, emptied, wiring, healthLoop, reloads, closing>>

-----------------------------------------------------------------------------
(* The health loop *)

PingSucceeds ==
    /\ health = "asleep"
    /\ failures' = 0
    /\ UNCHANGED <<kind, slots, wiring, health, reloads, closing>>

PingFails ==
    /\ health = "asleep"
    /\ failures + 1 < Retries
    /\ failures' = failures + 1
    /\ UNCHANGED <<kind, slots, wiring, health, reloads, closing>>

\* The mutant does not ask for the lock.
ReconnectBegins_Unlocked ==
    /\ health = "asleep"
    /\ failures + 1 >= Retries
    /\ failures' = 0
    /\ health' = "closing"
    /\ lock' = "health"
    /\ UNCHANGED <<kind, slots, url, clients, open, closed, reopened, dropped,
                   reloads, closing>>

\* The last failure reconnects, unless a reload has the lock.
ReconnectBegins ==
    /\ health = "asleep"
    /\ failures + 1 >= Retries
    /\ failures' = 0
    /\ \/ lock # Free /\ UNCHANGED <<health, lock>>
       \/ lock = Free /\ health' = "closing" /\ lock' = "health"
    /\ UNCHANGED <<kind, slots, url, clients, open, closed, reopened, dropped,
                   reloads, closing>>

\* aclose() of the current client, then a new client.
ReconnectReplaces ==
    /\ health = "closing"
    /\ Current < MaxClients
    /\ clients' = Append(clients, Origin)
    /\ open' = (open \ {Current}) \cup {Current + 1}
    /\ health' = "probing"
    /\ UNCHANGED <<kind, slots, url, closed, lock, reopened, dropped, failures,
                   reloads, closing>>

\* The PING of the new client decides only whether the pool counts as open.
ReconnectProbes ==
    /\ health = "probing"
    /\ closed' \in {closed, FALSE}
    /\ health' = "asleep"
    /\ lock' = Free
    /\ UNCHANGED <<kind, slots, url, clients, open, reopened, dropped, failures,
                   reloads, closing>>

\* aclose() raises: the old client stays.
ReconnectFails ==
    /\ health = "closing"
    /\ health' = "asleep"
    /\ lock' = Free
    /\ UNCHANGED <<kind, slots, url, clients, open, closed, reopened, dropped,
                   failures, reloads, closing>>

HealthStep ==
    \/ PingSucceeds \/ PingFails
    \/ ReconnectBegins \/ ReconnectReplaces \/ ReconnectProbes \/ ReconnectFails

-----------------------------------------------------------------------------
(* reload_url() *)

ReloadBegins(r, u) ==
    /\ reload[r] = "idle"
    /\ u # url
    /\ reload' = [reload EXCEPT ![r] = "trying"]
    /\ target' = [target EXCEPT ![r] = u]
    /\ UNCHANGED <<kind, slots, wiring, healthLoop, old, closing>>

\* The new URL answers a PING, or the call raises SecretRotationError.
ReloadTries(r) ==
    /\ reload[r] = "trying"
    /\ \E outcome \in {"waiting", "idle"} :
           reload' = [reload EXCEPT ![r] = outcome]
    /\ UNCHANGED <<kind, slots, wiring, healthLoop, target, old, closing>>

ReloadSwaps(r) ==
    /\ reload[r] = "waiting"
    /\ lock = Free
    /\ Current < MaxClients
    /\ lock' = r
    /\ reload' = [reload EXCEPT ![r] = "closing"]
    /\ old' = [old EXCEPT ![r] = Current]
    /\ clients' = Append(clients, target[r])
    /\ open' = open \cup {Current + 1}
    /\ url' = target[r]
    /\ closed' = FALSE
    /\ reopened' = (reopened \/ shutdown \in {"closing", "done"})
    /\ UNCHANGED <<kind, slots, dropped, healthLoop, target, closing>>

ReloadEnds(r) ==
    /\ reload[r] = "closing"
    /\ open' = open \ {old[r]}
    /\ reload' = [reload EXCEPT ![r] = "idle"]
    /\ lock' = Free
    /\ UNCHANGED <<kind, slots, url, clients, closed, reopened, dropped,
                   healthLoop, target, old, closing>>

\* The task that rotates secrets is cancelled in any of the awaits.
ReloadCancelled(r) ==
    /\ reload[r] # "idle"
    /\ reload' = [reload EXCEPT ![r] = "idle"]
    /\ lock' = IF lock = r THEN Free ELSE lock
    /\ dropped' = IF reload[r] = "closing" THEN dropped \cup {old[r]} ELSE dropped
    /\ UNCHANGED <<kind, slots, url, clients, open, closed, reopened,
                   healthLoop, target, old, closing>>

ReloadStep(r) ==
    \/ \E u \in Urls : ReloadBegins(r, u)
    \/ ReloadTries(r) \/ ReloadSwaps(r) \/ ReloadEnds(r) \/ ReloadCancelled(r)

-----------------------------------------------------------------------------
(* close() *)

\* cancel() throws into the health loop, which lets go of the lock; close()
\* goes on when that task has ended.
CloseCancels ==
    /\ shutdown = "no"
    /\ shutdown' = "cancelled"
    /\ health' = "gone"
    /\ lock' = IF lock = "health" THEN Free ELSE lock
    /\ UNCHANGED <<kind, slots, url, clients, open, closed, reopened, dropped,
                   failures, reloads, shut>>

CloseMarks ==
    /\ shutdown = "cancelled"
    /\ shutdown' = "closing"
    /\ closed' = TRUE
    /\ active' = 0
    /\ leaked' = 0
    /\ emptied' = (Busy # {})
    /\ shut' = Current
    /\ UNCHANGED <<kind, borrower, url, clients, open, lock, reopened, dropped,
                   healthLoop, reloads>>

CloseEnds ==
    /\ shutdown = "closing"
    /\ shutdown' = "done"
    /\ open' = open \ {shut}
    /\ UNCHANGED <<kind, slots, url, clients, closed, lock, reopened, dropped,
                   healthLoop, reloads, shut>>

CloseStep == CloseCancels \/ CloseMarks \/ CloseEnds

-----------------------------------------------------------------------------
(* The three classes repeat the same methods and differ in acquire() and in *)
(* the address a reconnection uses.                                        *)

BorrowerStep ==
    \E b \in Borrowers :
        AcquireClient(b) \/ CheckPasses(b) \/ CheckFails(b) \/ Release(b)

SharedStep ==
    BorrowerStep \/ HealthStep \/ (\E r \in Reloads : ReloadStep(r)) \/ CloseStep

RedisPool == kind = "standalone" /\ SharedStep
RedisClusterPool == kind \in {"cluster", "nodes"} /\ SharedStep
RedisSentinelPool == kind = "sentinel" /\ SharedStep

PoolNext == RedisPool \/ RedisClusterPool \/ RedisSentinelPool

PoolSpec == PoolInit /\ [][PoolNext]_poolVars

-----------------------------------------------------------------------------
(* Properties *)

\* Capacity: until close() zeroes the counter under a borrower, the counter
\* is exactly the borrowers and the leaked slots, so no more than max_size
\* callers have a client, and a slot is lost only by a failed check.
SlotsAccounted == emptied \/ active = Cardinality(Busy) + leaked

\* Whatever reconnections and reloads overlap, the client in use is the one
\* made for the URL last reloaded.  A cluster given by start-up nodes is the
\* exception: a reconnection goes back to them.
ClientFollowsUrl == kind = "nodes" \/ clients[Current] = url

\* A client that was replaced is closed, or is about to be by the reload that
\* holds the lock; only a cancelled reload drops one open.  When close() is
\* over and no reload came after it, the pool refuses callers and no client
\* is open.
NoClientForgotten ==
    /\ open \ dropped \subseteq
           {Current, shut} \cup {old[r] : r \in {r \in Reloads : lock = r}}
    /\ shutdown = "done" /\ ~reopened => closed /\ Current \notin open

\* What acquire(), the health loop, reload_url() and close() owe each other.
PoolConsistent == SlotsAccounted /\ ClientFollowsUrl /\ NoClientForgotten

=============================================================================
