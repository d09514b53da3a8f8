------------------------------- MODULE Sessions -------------------------------
(***************************************************************************)
(* The server-side sessions of one user: SessionManager                    *)
(* (src/araxys/sessions/manager.py) over RedisSessionBackend               *)
(* (src/araxys/sessions/storage.py), with its cleanup loop.                *)
(*                                                                         *)
(* Redis holds a hash per session and a set of session ids per user, each  *)
(* with a time to live.  A Redis command or MULTI pipeline is one step;    *)
(* the calls of a request are interleaved with those of every other        *)
(* request, with the cleanup, and with the clock.                          *)
(***************************************************************************)
EXTENDS Integers, FiniteSets

CONSTANTS
    Creators,       \* concurrent calls of create()
    Requests,       \* concurrent calls of the other operations
    Cleaner,        \* the task of _cleanup_loop
    MaxConcurrent,  \* SessionConfig.max_concurrent_per_user
    Ttl,            \* SessionConfig.session_ttl_seconds, in ticks
    IdleTimeout,    \* SessionConfig.idle_timeout_seconds, 0 for None
    JtiBlacklist,   \* the manager has a jti_blacklist callback
    MaxSessions,    \* bound on the sessions created
    MaxTime         \* bound on the clock

ASSUME SessionAssumption ==
    /\ IsFiniteSet(Creators)
    /\ Creators \cap Requests = {}
    /\ Cleaner \notin Creators \cup Requests
    /\ MaxConcurrent \in Nat \ {0}
    /\ Ttl \in Nat \ {0}
    /\ IdleTimeout \in Nat
    /\ JtiBlacklist \in BOOLEAN
    /\ MaxSessions \in Nat
    /\ MaxTime \in Nat

VARIABLES
    now,          \* the clock
    created,      \* sessions created; their ids are 1, 2, ... in that order
    \* Redis
    hash,         \* a session's hash: full, partial (no identity), or none
    deadline,     \* when it expires; 0 when it has no time to live
    activity,     \* last_activity_at, or created_at
    index,        \* the user's set of session ids
    indexUntil,   \* when that set expires
    blacklistUntil,  \* when the blacklist entry of a session's jti expires; 0
                     \* when there is none
    \* the calls in progress
    pc,           \* what a call does next
    sid,          \* the session it is about
    left,         \* the ids it has yet to read
    found,        \* the records list_sessions has found
    remaining,    \* the time to live with which revoke() will blacklist
    \* history
    revoked,      \* sessions for which revoke() has returned True
    due,          \* when those would have expired; 0 when that is past or no
                  \* more than a second away
    overtaken,    \* sessions refreshed while a revoke() was under way
    revivals      \* late touches that made a session active again that was idle

redis == <<hash, deadline, activity, index, indexUntil>>
tokens == <<blacklistUntil, remaining>>
calls == <<pc, sid, left, found>>
history == <<revoked, due, overtaken, revivals>>
vars == <<now, created, redis, tokens, calls, history>>

Ids == 1..MaxSessions
Procs == Creators \cup Requests \cup {Cleaner}

TypeOK ==
    /\ now \in 0..MaxTime
    /\ created \in 0..MaxSessions
    /\ hash \in [Ids -> {"none", "partial", "full"}]
    /\ deadline \in [Ids -> Nat]
    /\ \A s \in Ids : deadline[s] <= now + Ttl
    /\ activity \in [Ids -> 0..now]
    /\ index \in SUBSET (1..created)
    /\ indexUntil \in 0..(now + Ttl)
    /\ blacklistUntil \in [Ids -> 0..(now + Ttl)]
    /\ remaining \in [Procs -> 0..Ttl]
    /\ pc \in [Procs -> {"idle", "members", "fetch", "evict", "create",
                         "blacklist", "revoke", "delete", "refresh", "touch",
                         "clean", "cidle", "cdelete", "srem"}]
    /\ sid \in [Procs -> {0} \cup Ids]
    /\ left \in [Procs -> SUBSET Ids]
    /\ found \in [Procs -> SUBSET Ids]
    /\ {revoked, overtaken} \subseteq SUBSET Ids
    /\ due \in [Ids -> Nat]
    /\ revivals \in Nat

Init ==
    /\ now = 0
    /\ created = 0
    /\ hash = [s \in Ids |-> "none"]
    /\ deadline = [s \in Ids |-> 0]
    /\ activity = [s \in Ids |-> 0]
    /\ index = {}
    /\ indexUntil = 0
    /\ blacklistUntil = [s \in Ids |-> 0]
    /\ remaining = [p \in Procs |-> 0]
    /\ pc = [p \in Procs |-> "idle"]
    /\ sid = [p \in Procs |-> 0]
    /\ left = [p \in Procs |-> {}]
    /\ found = [p \in Procs |-> {}]
    /\ revoked = {}
    /\ due = [s \in Ids |-> 0]
    /\ overtaken = {}
    /\ revivals = 0

-----------------------------------------------------------------------------
(* Redis *)

\* _is_session_idle.
Idle(s) == IdleTimeout > 0 /\ now - activity[s] > IdleTimeout

\* get_session: it returns a record, or None, or raises KeyError on a hash
\* that lacks the fields of a record.
Found(s) == hash[s] = "full" /\ ~Idle(s)
KeyError(s) == hash[s] = "partial"
Missing(s) == ~Found(s) /\ ~KeyError(s)

\* A second passes: what has reached its deadline is gone.
Expired(until) == until # 0 /\ until <= now + 1

Tick ==
    /\ now < MaxTime
    /\ now' = now + 1
    /\ hash' = [s \in Ids |-> IF Expired(deadline[s]) THEN "none" ELSE hash[s]]
    /\ deadline' = [s \in Ids |-> IF Expired(deadline[s]) THEN 0 ELSE deadline[s]]
    /\ activity' = [s \in Ids |-> IF Expired(deadline[s]) THEN 0 ELSE activity[s]]
    /\ index' = IF Expired(indexUntil) THEN {} ELSE index
    /\ indexUntil' = IF Expired(indexUntil) THEN 0 ELSE indexUntil
    /\ blacklistUntil' = [s \in Ids |-> IF Expired(blacklistUntil[s]) THEN 0
                                        ELSE blacklistUntil[s]]
    /\ due' = [s \in Ids |-> IF due[s] > now + 2 THEN due[s] ELSE 0]
    /\ UNCHANGED <<created, remaining, calls, revoked, overtaken, revivals>>

\* DEL of the hash.
DeleteHash(s) ==
    /\ hash' = [hash EXCEPT ![s] = "none"]
    /\ deadline' = [deadline EXCEPT ![s] = 0]
    /\ activity' = [activity EXCEPT ![s] = 0]

\* HSET of a single field: it creates the hash if there is none.
HSetField(s) ==
    hash' = [hash EXCEPT ![s] = IF hash[s] = "none" THEN "partial" ELSE hash[s]]

\* revoke_session's pipeline: DEL of the hash and SREM from the user's set.
DeleteSession(s) ==
    /\ DeleteHash(s)
    /\ index' = index \ {s}
    /\ UNCHANGED indexUntil

-----------------------------------------------------------------------------
(* Calls *)

Go(p, from, to) ==
    /\ pc[p] = from
    /\ pc' = [pc EXCEPT ![p] = to]

EndCall(p) ==
    /\ pc' = [pc EXCEPT ![p] = "idle"]
    /\ sid' = [sid EXCEPT ![p] = 0]
    /\ left' = [left EXCEPT ![p] = {}]
    /\ found' = [found EXCEPT ![p] = {}]

\* create. Mutant: > instead of >=.
CreateCount_OffByOne(w) ==
    /\ Go(w, "idle", IF Cardinality(index) > MaxConcurrent
                     THEN "members" ELSE "create")
    /\ UNCHANGED <<now, created, redis, tokens, sid, left, found,
                   history>>

\* count_sessions: SCARD of the user's set.
CreateCount(w) ==
    /\ Go(w, "idle", IF Cardinality(index) >= MaxConcurrent
                     THEN "members" ELSE "create")
    /\ UNCHANGED <<now, created, redis, tokens, sid, left, found,
                   history>>

\* revoke_oldest, list_sessions: SMEMBERS, then get_session of each member.
Members(w) ==
    /\ Go(w, "members", "fetch")
    /\ left' = [left EXCEPT ![w] = index]
    /\ UNCHANGED <<now, created, redis, tokens, sid, found,
                   history>>

Fetch(w, s) ==
    /\ pc[w] = "fetch"
    /\ s \in left[w]
    /\ ~KeyError(s)
    /\ left' = [left EXCEPT ![w] = left[w] \ {s}]
    /\ found' = [found EXCEPT ![w] = found[w] \cup {t \in {s} : Found(t)}]
    /\ UNCHANGED <<now, created, redis, tokens, pc, sid, history>>

\* A KeyError ends the create() it happens in.
FetchRaises(w, s) ==
    /\ pc[w] = "fetch"
    /\ s \in left[w]
    /\ KeyError(s)
    /\ EndCall(w)
    /\ UNCHANGED <<now, created, redis, tokens, history>>

\* revoke_session(oldest) begins with another get_session; without records,
\* or without that one, create_session follows.
EvictGet(w, s) ==
    /\ pc[w] = "fetch"
    /\ left[w] = {}
    /\ s \in found[w]
    /\ \A t \in found[w] : s <= t
    /\ Found(s)
    /\ pc' = [pc EXCEPT ![w] = "evict"]
    /\ sid' = [sid EXCEPT ![w] = s]
    /\ found' = [found EXCEPT ![w] = {}]
    /\ UNCHANGED <<now, created, redis, tokens, left, history>>

NothingToEvict(w) ==
    /\ pc[w] = "fetch"
    /\ left[w] = {}
    /\ \A s \in found[w] : (\A t \in found[w] : s <= t) => Missing(s)
    /\ pc' = [pc EXCEPT ![w] = "create"]
    /\ found' = [found EXCEPT ![w] = {}]
    /\ UNCHANGED <<now, created, redis, tokens, sid, left, history>>

EvictDelete(w) ==
    /\ Go(w, "evict", "create")
    /\ DeleteSession(sid[w])
    /\ sid' = [sid EXCEPT ![w] = 0]
    /\ UNCHANGED <<now, created, tokens, left, found, history>>

\* create_session: one pipeline.
Create(w) ==
    /\ pc[w] = "create"
    /\ created < MaxSessions
    /\ created' = created + 1
    /\ hash' = [hash EXCEPT ![created + 1] = "full"]
    /\ deadline' = [deadline EXCEPT ![created + 1] = now + Ttl]
    /\ activity' = [activity EXCEPT ![created + 1] = now]
    /\ index' = index \cup {created + 1}
    /\ indexUntil' = now + Ttl
    /\ EndCall(w)
    /\ UNCHANGED <<now, tokens, history>>

\* The calls that begin with get_session go on only when it finds a record;
\* otherwise they return False, or raise, and have done nothing.
GetThen(w, s, to) ==
    /\ Found(s)
    /\ Go(w, "idle", to)
    /\ sid' = [sid EXCEPT ![w] = s]
    /\ UNCHANGED <<now, created, redis, tokens, left, found,
                   history>>

\* revoke: the jti is blacklisted first, if there is a callback, for the whole
\* seconds that the session had left when it was read.
RevokeGet(w, s) ==
    /\ Found(s)
    /\ Go(w, "idle", IF JtiBlacklist THEN "blacklist" ELSE "revoke")
    /\ sid' = [sid EXCEPT ![w] = s]
    /\ \E cut \in {0, 1} :
           remaining' = [remaining EXCEPT ![w] =
               IF deadline[s] > now + cut THEN deadline[s] - now - cut ELSE 0]
    /\ UNCHANGED <<now, created, redis, blacklistUntil, left, found,
                   history>>

\* Mutant: the failure is logged and revoke() goes on.
Blacklist_Ignored(w) ==
    /\ Go(w, "blacklist", "revoke")
    /\ UNCHANGED <<now, created, redis, tokens, sid, left, found, history>>

\* SETEX, which refuses a time to live of 0; when it fails, revoke() is over.
Blacklist(w) ==
    /\ Go(w, "blacklist", "revoke")
    /\ remaining[w] > 0
    /\ blacklistUntil' = [blacklistUntil EXCEPT ![sid[w]] = now + remaining[w]]
    /\ remaining' = [remaining EXCEPT ![w] = 0]
    /\ UNCHANGED <<now, created, redis, sid, left, found, history>>

\* revoke_session: get_session again, then the pipeline.
RevokeSessionGet(w) ==
    /\ Go(w, "revoke", "delete")
    /\ Found(sid[w])
    /\ UNCHANGED <<now, created, redis, tokens, sid, left, found,
                   history>>

RevokeDelete(w) ==
    /\ pc[w] = "delete"
    /\ DeleteSession(sid[w])
    /\ revoked' = revoked \cup {sid[w]}
    /\ due' = [due EXCEPT ![sid[w]] =
                   IF hash[sid[w]] = "full" /\ deadline[sid[w]] > now + 1
                   THEN deadline[sid[w]] ELSE @]
    /\ EndCall(w)
    /\ UNCHANGED <<now, created, tokens, overtaken, revivals>>

\* refresh_session: the pipeline HSET expires_at and EXPIRE of both keys.
RefreshGet(w, s) == GetThen(w, s, "refresh")

\* The session, if a revoke() has read it and is under way.
Revoking(s) ==
    {t \in {s} : \E p \in Requests :
        sid[p] = t /\ pc[p] \in {"blacklist", "revoke", "delete"}}

\* Mutants: the whole record is written back; the user's set is forgotten; the
\* remaining time is extended.
RefreshSet_Rewrites(w) ==
    /\ pc[w] = "refresh"
    /\ hash' = [hash EXCEPT ![sid[w]] = "full"]
    /\ deadline' = [deadline EXCEPT ![sid[w]] = now + Ttl]
    /\ indexUntil' = IF index = {} THEN indexUntil ELSE now + Ttl
    /\ overtaken' = overtaken \cup Revoking(sid[w])
    /\ EndCall(w)
    /\ UNCHANGED <<now, created, activity, index, tokens, revoked,
                   due, revivals>>

RefreshSet_OneKey(w) ==
    /\ pc[w] = "refresh"
    /\ HSetField(sid[w])
    /\ deadline' = [deadline EXCEPT ![sid[w]] = now + Ttl]
    /\ overtaken' = overtaken \cup Revoking(sid[w])
    /\ EndCall(w)
    /\ UNCHANGED <<now, created, activity, index, indexUntil, tokens, revoked,
                   due, revivals>>

RefreshSet_Extends(w) ==
    /\ pc[w] = "refresh"
    /\ HSetField(sid[w])
    /\ deadline' = [deadline EXCEPT ![sid[w]] = deadline[sid[w]] + Ttl]
    /\ indexUntil' = IF index = {} THEN indexUntil ELSE now + Ttl
    /\ overtaken' = overtaken \cup Revoking(sid[w])
    /\ EndCall(w)
    /\ UNCHANGED <<now, created, activity, index, tokens, revoked,
                   due, revivals>>

RefreshSet(w) ==
    /\ pc[w] = "refresh"
    /\ HSetField(sid[w])
    /\ deadline' = [deadline EXCEPT ![sid[w]] = now + Ttl]
    /\ indexUntil' = IF index = {} THEN indexUntil ELSE now + Ttl
    /\ overtaken' = overtaken \cup Revoking(sid[w])
    /\ EndCall(w)
    /\ UNCHANGED <<now, created, activity, index, tokens, revoked,
                   due, revivals>>

\* touch_session: HSET last_activity_at, without a time to live.
TouchGet(w, s) == GetThen(w, s, "touch")

TouchSet(w) ==
    /\ pc[w] = "touch"
    /\ HSetField(sid[w])
    /\ activity' = [activity EXCEPT ![sid[w]] = now]
    /\ revivals' = IF hash[sid[w]] = "full" /\ Idle(sid[w])
                   THEN revivals + 1 ELSE revivals
    /\ EndCall(w)
    /\ UNCHANGED <<now, created, deadline, index, indexUntil, tokens, revoked,
                   due, overtaken>>

\* A call ends where it is: a Redis call raises, blacklist_jti fails, the
\* second get_session finds nothing, or the request is cancelled.
Broken(w) ==
    /\ pc[w] # "idle"
    /\ remaining' = [remaining EXCEPT ![w] = 0]
    /\ EndCall(w)
    /\ UNCHANGED <<now, created, redis, blacklistUntil, history>>

-----------------------------------------------------------------------------
(* cleanup_expired *)

\* The loop wakes up, SCANs the users' sets and reads SMEMBERS of this one.
CleanScan ==
    /\ index # {}
    /\ Go(Cleaner, "idle", "clean")
    /\ left' = [left EXCEPT ![Cleaner] = index]
    /\ UNCHANGED <<now, created, redis, tokens, sid, found, history>>

\* Go on with one member at "to".
CleanOne(s, to) ==
    /\ s \in left[Cleaner]
    /\ Go(Cleaner, "clean", to)
    /\ left' = [left EXCEPT ![Cleaner] = left[Cleaner] \ {s}]
    /\ sid' = [sid EXCEPT ![Cleaner] = IF to = "clean" THEN 0 ELSE s]
    /\ UNCHANGED <<now, created, redis, tokens, found, history>>

\* Mutant: only a hash without a time to live is taken for a dead one.
CleanTtl_NoTtlOnly(s) ==
    CleanOne(s, IF hash[s] # "none" /\ deadline[s] = 0 THEN "srem"
                ELSE IF IdleTimeout > 0 THEN "cidle" ELSE "clean")

\* _cleanup_one: TTL is negative for a missing hash and for one without TTL.
CleanTtl(s) ==
    CleanOne(s, IF deadline[s] = 0 THEN "srem"
                ELSE IF IdleTimeout > 0 THEN "cidle" ELSE "clean")

Cleaned(from, to) ==
    /\ Go(Cleaner, from, to)
    /\ sid' = [sid EXCEPT ![Cleaner] = IF to = "clean" THEN 0 ELSE sid[Cleaner]]
    /\ UNCHANGED <<now, created, tokens, left, found, history>>

\* HGETALL: an idle session is to be deleted.
CleanIdle ==
    /\ Cleaned("cidle", IF hash[sid[Cleaner]] = "full" /\ Idle(sid[Cleaner])
                        THEN "cdelete" ELSE "clean")
    /\ UNCHANGED redis

CleanDelete ==
    /\ Cleaned("cdelete", "srem")
    /\ DeleteHash(sid[Cleaner])
    /\ UNCHANGED <<index, indexUntil>>

CleanSrem ==
    /\ Cleaned("srem", "clean")
    /\ index' = index \ {sid[Cleaner]}
    /\ UNCHANGED <<hash, deadline, activity, indexUntil>>

CleanEnd ==
    /\ pc[Cleaner] = "clean"
    /\ left[Cleaner] = {}
    /\ EndCall(Cleaner)
    /\ UNCHANGED <<now, created, redis, tokens, history>>

\* A Redis call raises and the loop logs it, or the task is cancelled, before
\* the cycle is done.
CleanFails ==
    /\ pc[Cleaner] # "idle"
    /\ left[Cleaner] # {} \/ pc[Cleaner] # "clean"
    /\ EndCall(Cleaner)
    /\ UNCHANGED <<now, created, redis, tokens, history>>

-----------------------------------------------------------------------------
Creation(w) ==
    \/ CreateCount(w) \/ Members(w) \/ NothingToEvict(w) \/ EvictDelete(w)
    \/ Create(w)
    \/ \E s \in Ids : Fetch(w, s) \/ FetchRaises(w, s) \/ EvictGet(w, s)

Request(w) ==
    \/ \E s \in Ids : RevokeGet(w, s) \/ RefreshGet(w, s) \/ TouchGet(w, s)
    \/ Blacklist(w) \/ RevokeSessionGet(w) \/ RevokeDelete(w)
    \/ RefreshSet(w) \/ TouchSet(w)

Cleanup ==
    \/ CleanScan \/ CleanIdle \/ CleanDelete \/ CleanSrem \/ CleanEnd
    \/ \E s \in Ids : CleanTtl(s)

Next ==
    \/ Tick
    \/ \E w \in Creators : Creation(w)
    \/ \E w \in Requests : Request(w)
    \/ \E w \in Creators \cup Requests : Broken(w)
    \/ Cleanup
    \/ CleanFails

Spec == Init /\ [][Next]_vars

\* The cleanup loop runs every cleanup_interval_seconds and survives failed
\* cycles, which do not come for ever; no request need ever come or go on.
LiveSpec == Spec /\ WF_vars(Cleanup) /\ <>[][~CleanFails]_vars

-----------------------------------------------------------------------------
(* Properties *)

\* A session that has been revoked, evicted or cleaned up, or has expired,
\* never again reads as a session: no refresh or touch that was under way
\* writes a record back. Only create_session makes one.
EndedForGood ==
    [][\A s \in Ids : hash'[s] = "full" /\ hash[s] # "full" => s > created]_vars

\* A live session is in the set of its user, where listing and eviction find
\* it: the set never expires before a session in it, and neither the cleanup
\* nor a revocation takes out an id whose hash is still there.
IndexedLive == \A s \in Ids : hash[s] = "full" => s \in index

\* When revoke() has returned True, the session is gone, and its token is on
\* the blacklist up to the last second that the session would have lived,
\* whatever ran, failed or expired in between, if there is a blacklist and no
\* refresh gave the session more time after revoke() had read it.
RevocationCovers ==
    \A s \in revoked :
        /\ hash[s] # "full"
        /\ JtiBlacklist /\ s \notin overtaken /\ due[s] # 0 =>
               blacklistUntil[s] # 0

Live == {s \in Ids : Found(s)}

\* One create() at a time keeps the limit: a session beyond it is owed to a
\* touch that had read a session before it went idle and brought it back when
\* its place was taken. create() evicts one session, so it stays beyond.
LimitKept ==
    Cardinality(Creators) = 1 => Cardinality(Live) <= MaxConcurrent + revivals

\* The cleanup ends what get_session has given up: a session that has gone
\* idle, long before its time to live is over, and an id without a hash.
Stale(s) == s \in index /\ Missing(s)
StaleReclaimed == \A s \in Ids : Stale(s) ~> ~Stale(s)

\* "Max concurrent sessions per user with auto-revoke of oldest".
MaxConcurrentSessions == Cardinality(Live) <= MaxConcurrent

=============================================================================
