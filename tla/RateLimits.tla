------------------------------- MODULE RateLimits -------------------------------
(***************************************************************************)
(* Rate limiting and trap bans: RateLimitMiddleware and RateLimiter.check()*)
(* (src/araxys/rate_limit/) over RedisBackend or InMemoryBackend with      *)
(* fixed windows, the honeypot's middleware and trap routes                *)
(* (src/araxys/honeypot/), which share the backend's bans, and the         *)
(* administrator who lifts one (src/araxys/admin/router.py).  The requests *)
(* come from one IP address to one endpoint; some carry a user or an API   *)
(* key, each with a counter of its own.                                    *)
(*                                                                         *)
(* Every call of RedisBackend is one command or transaction of Redis and   *)
(* the end of a step; a request may be abandoned between two of them.  The *)
(* calls of InMemoryBackend do not suspend: check() runs undisturbed.      *)
(***************************************************************************)
EXTENDS Integers, FiniteSets

CONSTANTS
    Requests,       \* concurrent requests
    Counters,       \* the dimensions that count: the IP, a user, an API key
    Ip,             \* the dimension every request has
    CountWindow,    \* window_seconds
    MaxRequests,    \* max_requests
    BanThreshold,   \* ban_threshold
    BanDuration,    \* ban_duration_seconds
    Multiplier,     \* escalation_multiplier
    MaxBan,         \* max_ban_duration_seconds
    TrapBan,        \* HoneypotConfig.ban_duration_seconds
    ViolationTtl,   \* the 3600 seconds of increment_violations()
    MaxViolations   \* bound on the violations counted

ASSUME RateAssumption ==
    /\ IsFiniteSet(Requests) /\ Requests # {}
    /\ Ip \in Counters
    /\ {CountWindow, MaxRequests, BanThreshold, BanDuration, Multiplier, MaxBan,
        TrapBan, ViolationTtl, MaxViolations} \subseteq Nat \ {0}

\* A fact of arithmetic that no prover derives: they know nothing of ^.
ASSUME PowersArePositive == \A n \in 0..MaxViolations : Multiplier ^ n \in Nat \ {0}

VARIABLES
    backend,     \* "redis" or "memory"
    count,       \* araxys:rate:<key>
    countTtl,    \* its time to live; 0 is no key
    violations,  \* araxys:violations:<ip>
    violTtl,     \* its time to live; in memory, until it may be cleaned up
    ban,         \* the time to live of araxys:ban:<ip>; 0 is no ban
    progress,    \* what a request does next
    counters,    \* its dimensions
    pending,     \* those it has not counted yet
    over,        \* a counter came back above the limit
    banFor,      \* the ban it computed
    \* history
    counted,     \* the counters that still live since a request counted there
    admitted,    \* requests let through of those a counter has counted
    bansReplaced \* bans written over the one in force

limits == <<backend, count, countTtl, violations, violTtl, ban>>
requests == <<progress, counters, pending, over, banFor>>
history == <<counted, admitted, bansReplaced>>
rateVars == <<limits, requests, history>>

Least(a, b) == IF a <= b THEN a ELSE b
CleanupTtl == IF BanDuration > MaxBan THEN BanDuration ELSE MaxBan
LongestBan == IF TrapBan > MaxBan THEN TrapBan ELSE MaxBan

RateTypeOK ==
    /\ count \in [Counters -> 0..MaxRequests + Cardinality(Requests)]
    /\ countTtl \in [Counters -> 0..CountWindow]
    /\ violations \in 0..MaxViolations
    /\ backend \in {"redis", "memory"}
    /\ violTtl \in 0..(IF backend = "memory" THEN CleanupTtl ELSE ViolationTtl)
    /\ ban \in 0..LongestBan
    /\ progress \in [Requests -> {"idle", "banned?", "count", "violate", "ban",
                            "trapped?", "trap", "handler"}]
    /\ counters \in [Requests -> SUBSET Counters]
    /\ \A r \in Requests : pending[r] \subseteq counters[r]
    /\ over \in [Requests -> BOOLEAN]
    /\ banFor \in [Requests -> 0..MaxBan]
    /\ counted \in [Requests -> SUBSET Counters]
    /\ admitted \in [Counters -> Nat]
    /\ bansReplaced \in Nat
    /\ \A c \in Counters : countTtl[c] = 0 => count[c] = 0

RateInit ==
    /\ backend \in {"redis", "memory"}
    /\ count = [c \in Counters |-> 0]
    /\ countTtl = [c \in Counters |-> 0]
    /\ violations = 0
    /\ violTtl = 0
    /\ ban = 0
    /\ progress = [r \in Requests |-> "idle"]
    /\ counters = [r \in Requests |-> {}]
    /\ pending = [r \in Requests |-> {}]
    /\ over = [r \in Requests |-> FALSE]
    /\ banFor = [r \in Requests |-> 0]
    /\ counted = [r \in Requests |-> {}]
    /\ admitted = [c \in Counters |-> 0]
    /\ bansReplaced = 0

\* What runs without suspending when the backend is in memory.
Checking == {"count", "violate", "ban"}
Undisturbed(r) ==
    backend = "memory" => \A q \in Requests \ {r} : progress[q] \notin Checking

\* A second: everything that is kept for a time comes closer to its end.  The
\* violations in memory stay.
RateTick ==
    /\ \A r \in Requests : Undisturbed(r)
    /\ countTtl' = [c \in Counters |-> IF countTtl[c] = 0 THEN 0 ELSE countTtl[c] - 1]
    /\ count' = [c \in Counters |-> IF countTtl[c] <= 1 THEN 0 ELSE count[c]]
    /\ admitted' = [c \in Counters |-> IF countTtl[c] <= 1 THEN 0 ELSE admitted[c]]
    /\ violTtl' = IF violTtl = 0 THEN 0 ELSE violTtl - 1
    /\ violations' = IF backend = "redis" /\ violTtl <= 1 THEN 0 ELSE violations
    /\ ban' = IF ban = 0 THEN 0 ELSE ban - 1
    /\ counted' = [r \in Requests |-> {c \in counted[r] : countTtl[c] > 1}]
    /\ bansReplaced' = IF ban <= 1 THEN 0 ELSE bansReplaced
    /\ UNCHANGED <<backend, requests>>

-----------------------------------------------------------------------------
(* RateLimitMiddleware.dispatch() and RateLimiter.check() *)

ProceedsTo(r, next) == progress' = [progress EXCEPT ![r] = next]

Finishes(r) ==
    /\ ProceedsTo(r, "idle")
    /\ counters' = [counters EXCEPT ![r] = {}]
    /\ pending' = [pending EXCEPT ![r] = {}]
    /\ over' = [over EXCEPT ![r] = FALSE]
    /\ banFor' = [banFor EXCEPT ![r] = 0]
    /\ counted' = [counted EXCEPT ![r] = {}]

\* A request for an excluded path goes straight to the next middleware.
Arrive(r) ==
    /\ progress[r] = "idle"
    /\ \E ks \in SUBSET Counters, next \in {"banned?", "trapped?"} :
           /\ Ip \in ks
           /\ counters' = [counters EXCEPT ![r] = ks]
           /\ pending' = [pending EXCEPT ![r] = ks]
           /\ ProceedsTo(r, next)
    /\ UNCHANGED <<limits, over, banFor, history>>

CheckBan(r) ==
    /\ progress[r] = "banned?"
    /\ IF ban > 0
       THEN Finishes(r)
       ELSE /\ ProceedsTo(r, "count")
            /\ UNCHANGED <<counters, pending, over, banFor, counted>>
    /\ UNCHANGED <<limits, admitted, bansReplaced>>

\* Mutant: EXPIRE is forgotten, and a counter never ends.
Tally_Endless(c) ==
    /\ count' = [count EXCEPT ![c] = @ + 1]
    /\ UNCHANGED countTtl

\* INCR, and EXPIRE with NX: a counter lives one window from its first
\* request.
Tally(c) ==
    /\ count' = [count EXCEPT ![c] = @ + 1]
    /\ countTtl' = [countTtl EXCEPT ![c] = IF @ = 0 THEN CountWindow ELSE @]

\* The mutant forgets what the earlier counters said.
Exceeds_LastOnly(r, c) == count[c] + 1 > MaxRequests

\* The IP comes first.  Every counter counts the request, whatever another
\* one says, and one above the limit is enough.
Exceeds(r, c) == over[r] \/ count[c] + 1 > MaxRequests

CountOne(r, c) ==
    LET last == pending[r] = {c}
        passes == last /\ ~Exceeds(r, c) IN
    /\ progress[r] = "count"
    /\ c \in pending[r]
    /\ c = Ip \/ Ip \notin pending[r]
    /\ count[c] < MaxRequests + Cardinality(Requests)
    /\ Tally(c)
    /\ pending' = [pending EXCEPT ![r] = @ \ {c}]
    /\ over' = [over EXCEPT ![r] = Exceeds(r, c)]
    /\ IF last THEN ProceedsTo(r, IF passes THEN "trapped?" ELSE "violate")
       ELSE UNCHANGED progress
    /\ counted' = [counted EXCEPT ![r] = @ \cup {c}]
    /\ admitted' = [k \in Counters |->
                       admitted[k] + (IF passes /\ k \in counted'[r] THEN 1 ELSE 0)]
    /\ UNCHANGED <<backend, violations, violTtl, ban, counters, banFor, bansReplaced>>

\* Base duration, escalated once per earlier violation, up to the cap.
Escalated(n) == Least(BanDuration * Multiplier ^ (n - 1), MaxBan)

Violate(r) ==
    /\ progress[r] = "violate"
    /\ violations < MaxViolations
    /\ violations' = violations + 1
    /\ violTtl' = CASE backend = "memory" -> CleanupTtl
                     [] backend = "redis" /\ violTtl = 0 -> ViolationTtl
                     [] backend = "redis" /\ violTtl > 0 -> violTtl
    /\ IF violations' >= BanThreshold
       THEN /\ banFor' = [banFor EXCEPT ![r] = Escalated(violations')]
            /\ ProceedsTo(r, "ban")
            /\ UNCHANGED <<counters, pending, over, counted>>
       ELSE Finishes(r)
    /\ UNCHANGED <<backend, count, countTtl, ban, admitted, bansReplaced>>

\* SETEX replaces whatever ban there is.
Bans(duration) ==
    /\ ban' = duration
    /\ bansReplaced' = IF ban > 0 THEN bansReplaced + 1 ELSE bansReplaced

BanIp(r) ==
    /\ progress[r] = "ban"
    /\ Bans(banFor[r])
    /\ Finishes(r)
    /\ UNCHANGED <<backend, count, countTtl, violations, violTtl, admitted>>

-----------------------------------------------------------------------------
(* The honeypot *)

\* The mutant does not look: the traps answer whoever comes.
CheckTrapBan_Unchecked(r) ==
    /\ progress[r] = "trapped?"
    /\ \E next \in {"trap", "handler"} : ProceedsTo(r, next)
    /\ UNCHANGED <<counters, pending, over, banFor, limits, history>>

\* HoneypotMiddleware.dispatch(); behind it are the application's routes and
\* the traps.
CheckTrapBan(r) ==
    /\ progress[r] = "trapped?"
    /\ IF ban > 0
       THEN Finishes(r)
       ELSE /\ \E next \in {"trap", "handler"} : ProceedsTo(r, next)
            /\ UNCHANGED <<counters, pending, over, banFor, counted>>
    /\ UNCHANGED <<limits, admitted, bansReplaced>>

HandleTrap(r) ==
    /\ progress[r] = "trap"
    /\ Bans(TrapBan)
    /\ Finishes(r)
    /\ UNCHANGED <<backend, count, countTtl, violations, violTtl, admitted>>

Respond(r) ==
    /\ progress[r] = "handler"
    /\ Finishes(r)
    /\ UNCHANGED <<limits, admitted, bansReplaced>>

\* The client goes away, or Redis fails.
Abandon(r) ==
    /\ progress[r] # "idle"
    /\ backend = "memory" => progress[r] \notin Checking
    /\ Finishes(r)
    /\ UNCHANGED <<limits, admitted, bansReplaced>>

-----------------------------------------------------------------------------
(* InMemoryBackend *)

\* _cleanup_violations(), when another address violates its limit.  An address
\* that violates its own has just been renewed.
CleanUp ==
    /\ backend = "memory" /\ violTtl = 0 /\ violations > 0
    /\ \A r \in Requests : Undisturbed(r)
    /\ violations' = 0
    /\ UNCHANGED <<backend, count, countTtl, violTtl, ban, requests, history>>

\* DELETE /ips/blocked/{ip}: the ban goes, the violations stay.  Over Redis it
\* answers 404.
UnbanIp ==
    /\ backend = "memory" /\ ban > 0
    /\ \A r \in Requests : Undisturbed(r)
    /\ ban' = 0
    /\ bansReplaced' = 0
    /\ UNCHANGED <<backend, count, countTtl, violations, violTtl, requests, counted,
                   admitted>>

RequestStep(r) ==
    /\ Undisturbed(r)
    /\ \/ Arrive(r) \/ CheckBan(r) \/ Violate(r) \/ BanIp(r)
       \/ \E c \in Counters : CountOne(r, c)
       \/ CheckTrapBan(r) \/ HandleTrap(r) \/ Respond(r) \/ Abandon(r)

RateNext == RateTick \/ CleanUp \/ UnbanIp \/ \E r \in Requests : RequestStep(r)

RateSpec == RateInit /\ [][RateNext]_rateVars

-----------------------------------------------------------------------------
(* Properties *)

\* In the life of a counter no more than max_requests of the requests that
\* it counts are let through, however they overlap and in whatever dimension
\* another counter rejects them.
AdmittedWithinLimit == \A c \in Counters : admitted[c] <= MaxRequests

\* A ban that is in force is replaced, by a shorter or a longer one, only by
\* requests that were let in before it, each of them once: nothing that
\* arrives during the ban counts as a violation or reaches a trap.
BanKeepsOut == bansReplaced <= Cardinality(Requests) - 1

\* The limiter and the trap under overlapping requests.
LimitsHold == AdmittedWithinLimit /\ BanKeepsOut

=============================================================================
