------------------------------ MODULE ThreatIntel ------------------------------
(***************************************************************************)
(* Threat-intelligence feeds: ThreatIntelScheduler and IPResolver          *)
(* (src/araxys/threat_intel/) and the blocklist of the IP access backend   *)
(* that they fill (src/araxys/ip_access/).                                 *)
(*                                                                         *)
(* Two workers use one resolver: the background loop, and a caller of the  *)
(* scheduler's refresh() and purge().  The resolver's own methods do not   *)
(* suspend; every fetch, batch and removal is an await and ends a step.    *)
(* The process may restart: Redis keeps the blocklist, while the resolver  *)
(* and all that its workers were at are lost with the memory.              *)
(***************************************************************************)
EXTENDS Integers, FiniteSets

CONSTANTS
    Ips,        \* addresses or networks
    Excluded,   \* those that exclude_ips overlaps
    Feeds,      \* enabled feeds
    FeedTtl,    \* ttl_seconds of every feed
    Agents      \* the background loop and, if it is there, the caller

ASSUME FeedAssumption ==
    /\ Excluded \subseteq Ips
    /\ FeedTtl \in Nat \ {0}
    /\ {"loop"} \subseteq Agents /\ Agents \subseteq {"loop", "caller"}

VARIABLES
    ttlMap,     \* _ttl_map: what is left to live of "ip:feed"; Absent is no key
    seen,       \* _seen_ips
    blocklist,  \* araxys:ip_access:blocklist
    worker,     \* where a worker stands
    batch,      \* the addresses it has to add
    removals,   \* the keys whose address it has to remove
    \* history
    manual,     \* addresses an operator blocked and nobody removed
    unsynced,   \* tracked addresses whose insertion failed
    stuck,      \* addresses whose removal failed or overtook the insertion
    overlooked, \* addresses removed while they were seen or had another key
    abandoned   \* addresses blocked for a feed before a restart, and since
                \* then neither listed by a feed nor removed

resolver == <<ttlMap, seen>>
jobs == <<worker, batch, removals>>
blocked == <<blocklist, manual, unsynced, stuck, overlooked, abandoned>>
threatVars == <<resolver, jobs, blocked>>

FeedKeys == Ips \X Feeds
Absent == -1
Tracked(map) == {ip \in Ips : \E f \in Feeds : map[<<ip, f>>] # Absent}

ThreatTypeOK ==
    /\ ttlMap \in [FeedKeys -> {Absent} \cup 0..FeedTtl]
    /\ {seen, blocklist, manual, unsynced, stuck, overlooked, abandoned}
           \subseteq SUBSET Ips
    /\ worker \in [Agents -> {"idle", "fetch", "sync", "evict", "purge", "ended"}]
    /\ batch \in [Agents -> SUBSET Ips]
    /\ removals \in [Agents -> SUBSET FeedKeys]
    /\ \A a \in Agents : batch[a] # {} <=> worker[a] = "sync"
    /\ \A a \in Agents : removals[a] # {} <=> worker[a] \in {"evict", "purge"}

\* The process starts with what the Redis blocklist holds.
ThreatInit ==
    /\ ttlMap = [k \in FeedKeys |-> Absent]
    /\ seen = {}
    /\ blocklist \in SUBSET Ips
    /\ manual \in SUBSET blocklist
    /\ abandoned = blocklist \ manual
    /\ worker = [a \in Agents |-> "idle"]
    /\ batch = [a \in Agents |-> {}]
    /\ removals = [a \in Agents |-> {}]
    /\ unsynced = {}
    /\ stuck = {}
    /\ overlooked = {}

\* What the removal of an address from the blocklist overlooks: it may still
\* count as seen, or have a key.
Overlooks(ip, map) == {ip} \cap (seen \cup Tracked(map))

Becomes(a, next) == worker' = [worker EXCEPT ![a] = next]

ThreatTick ==
    /\ ttlMap' = [k \in FeedKeys |-> IF ttlMap[k] > 0 THEN ttlMap[k] - 1 ELSE ttlMap[k]]
    /\ UNCHANGED <<seen, jobs, blocked>>

OperatorBlocks(ip) ==
    /\ blocklist' = blocklist \cup {ip}
    /\ manual' = manual \cup {ip}
    /\ unsynced' = unsynced \ {ip}
    /\ overlooked' = overlooked \ {ip}
    /\ abandoned' = abandoned \ {ip}
    /\ UNCHANGED <<resolver, jobs, stuck>>

-----------------------------------------------------------------------------
(* IPResolver *)

\* _is_excluded(): networks that overlap one of exclude_ips are skipped.
\* The mutant skips none.
Kept_All(ips) == ips
Kept(ips) == ips \ Excluded

Recorded(f, ips) ==
    [k \in FeedKeys |-> IF k[2] = f /\ k[1] \in ips THEN FeedTtl ELSE ttlMap[k]]

Expired(map) == {k \in FeedKeys : map[k] = 0}

Without(map, gone) == [k \in FeedKeys |-> IF k \in gone THEN Absent ELSE map[k]]

\* evict_expired(): the keys go at once, the addresses of the blocklist one
\* by one after it.  An address is forgotten when its last key goes; the code
\* tells that by the prefix "ip:" of the keys, which is taken to be exact.
Evict(a, map, tracked) ==
    LET gone == Expired(map) IN
    /\ ttlMap' = Without(map, gone)
    /\ seen' = tracked \ ({k[1] : k \in gone} \ Tracked(ttlMap'))
    /\ removals' = [removals EXCEPT ![a] = gone]
    /\ Becomes(a, IF gone = {} THEN "idle" ELSE "evict")

-----------------------------------------------------------------------------
(* ThreatIntelScheduler._refresh_one() *)

RefreshBegins(a) ==
    /\ worker[a] = "idle"
    /\ Becomes(a, "fetch")
    /\ UNCHANGED <<resolver, batch, removals, blocked>>

\* An HTTP error is a result without addresses; an exception, and no result.
FetchFails(a) ==
    /\ worker[a] = "fetch"
    /\ Becomes(a, "idle")
    /\ UNCHANGED <<resolver, batch, removals, blocked>>

\* deduplicate(): every address lives on, and those nobody has seen are new.
FetchEnds(a, f, ips) ==
    LET allowed == Kept(ips)
        new == allowed \ seen IN
    /\ worker[a] = "fetch"
    /\ batch' = [batch EXCEPT ![a] = new]
    /\ IF new = {}
       THEN Evict(a, Recorded(f, allowed), seen)
       ELSE /\ ttlMap' = Recorded(f, allowed)
            /\ seen' = seen \cup new
            /\ Becomes(a, "sync")
            /\ UNCHANGED removals
    /\ overlooked' = overlooked \ new
    /\ abandoned' = abandoned \ allowed
    /\ UNCHANGED <<blocklist, manual, unsynced, stuck>>

\* sync_to_backend(), one batch of the new addresses after the other.
SyncBatch(a) ==
    /\ worker[a] = "sync"
    /\ \E ips \in SUBSET batch[a] \ {{}} :
           /\ blocklist' = blocklist \cup ips
           /\ unsynced' = unsynced \ ips
           /\ overlooked' = overlooked \ ips
           /\ batch' = [batch EXCEPT ![a] = @ \ ips]
           /\ stuck' = stuck \cup (ips \ Tracked(ttlMap))
    /\ IF batch'[a] = {} THEN Evict(a, ttlMap, seen)
       ELSE UNCHANGED <<ttlMap, seen, worker, removals>>
    /\ UNCHANGED <<manual, abandoned>>

RemoveOne(a, k) ==
    /\ worker[a] = "evict"
    /\ k \in removals[a]
    /\ blocklist' = blocklist \ {k[1]}
    /\ manual' = manual \ {k[1]}
    /\ stuck' = stuck \ {k[1]}
    /\ abandoned' = abandoned \ {k[1]}
    /\ removals' = [removals EXCEPT ![a] = @ \ {k}]
    /\ IF removals'[a] = {} THEN Becomes(a, "idle") ELSE UNCHANGED worker
    /\ overlooked' = overlooked \cup Overlooks(k[1], ttlMap)
    /\ UNCHANGED <<resolver, batch, unsynced>>

\* The backend raises, or stop() cancels: the rest of the job is lost.
Drops(a) ==
    /\ unsynced' = unsynced \cup batch[a]
    /\ stuck' = IF worker[a] = "evict" THEN stuck \cup {k[1] : k \in removals[a]}
                ELSE stuck
    /\ batch' = [batch EXCEPT ![a] = {}]
    /\ removals' = [removals EXCEPT ![a] = {}]
    /\ UNCHANGED <<resolver, blocklist, manual, overlooked, abandoned>>

JobFails(a) ==
    /\ worker[a] \in {"sync", "evict", "purge"}
    /\ Becomes(a, "idle")
    /\ Drops(a)

\* stop(), on shutdown.
StopLoop ==
    /\ worker["loop"] # "ended"
    /\ Becomes("loop", "ended")
    /\ Drops("loop")

-----------------------------------------------------------------------------
(* ThreatIntelScheduler.purge() *)

PurgeBegins ==
    LET gone == {k \in FeedKeys : ttlMap[k] # Absent} IN
    /\ "caller" \in Agents
    /\ worker["caller"] = "idle"
    /\ removals' = [removals EXCEPT !["caller"] = gone]
    /\ IF gone = {} THEN seen' = {} /\ UNCHANGED worker
       ELSE Becomes("caller", "purge") /\ UNCHANGED seen
    /\ UNCHANGED <<ttlMap, batch, blocked>>

\* The address goes first and its key after it; it counts as seen until the
\* last has gone.  A key that an eviction has taken meanwhile is a KeyError,
\* and the purge ends.
PurgeOne(k) ==
    LET left == removals["caller"] \ {k} IN
    /\ "caller" \in Agents
    /\ worker["caller"] = "purge"
    /\ k \in removals["caller"]
    /\ blocklist' = blocklist \ {k[1]}
    /\ manual' = manual \ {k[1]}
    /\ stuck' = stuck \ {k[1]}
    /\ abandoned' = abandoned \ {k[1]}
    /\ ttlMap' = Without(ttlMap, {k})
    /\ IF ttlMap[k] = Absent
       THEN /\ removals' = [removals EXCEPT !["caller"] = {}]
            /\ UNCHANGED seen
       ELSE /\ removals' = [removals EXCEPT !["caller"] = left]
            /\ seen' = IF left = {} THEN {} ELSE seen
    /\ IF removals'["caller"] = {} THEN Becomes("caller", "idle") ELSE UNCHANGED worker
    /\ overlooked' = overlooked \cup Overlooks(k[1], ttlMap')
    /\ UNCHANGED <<batch, unsynced>>

-----------------------------------------------------------------------------
\* The process ends and another starts, with a new resolver and scheduler.
Restart ==
    /\ ttlMap' = [k \in FeedKeys |-> Absent]
    /\ seen' = {}
    /\ worker' = [a \in Agents |-> "idle"]
    /\ batch' = [a \in Agents |-> {}]
    /\ removals' = [a \in Agents |-> {}]
    /\ unsynced' = {}
    /\ stuck' = {}
    /\ overlooked' = {}
    /\ abandoned' = blocklist \ manual
    /\ UNCHANGED <<blocklist, manual>>

ThreatNext ==
    \/ ThreatTick
    \/ \E ip \in Ips : OperatorBlocks(ip)
    \/ \E a \in Agents :
           \/ RefreshBegins(a) \/ FetchFails(a) \/ SyncBatch(a) \/ JobFails(a)
           \/ \E f \in Feeds, ips \in SUBSET Ips : FetchEnds(a, f, ips)
           \/ \E k \in FeedKeys : RemoveOne(a, k)
    \/ StopLoop
    \/ PurgeBegins
    \/ \E k \in FeedKeys : PurgeOne(k)
    \/ Restart

ThreatSpec == ThreatInit /\ [][ThreatNext]_threatVars

-----------------------------------------------------------------------------
(* Properties *)

\* While a process lives, nothing stays blocked by accident: a blocked address
\* was blocked by an operator, has a key that will expire, or is about to be
\* removed, unless its removal failed or went before its insertion, or it was
\* abandoned by a restart, after which nothing but another listing can end
\* it; no feed blocks an excluded address; and an address a feed tracks is
\* blocked or about to be, unless its insertion failed or it was removed while
\* it counted as seen or had another key: by the end of another feed's key, or
\* by a purge that had not ended.
BlocklistFollowsFeeds ==
    /\ \A ip \in blocklist \ (manual \cup abandoned) :
           \/ ip \in Tracked(ttlMap) \cup stuck
           \/ \E a \in Agents, f \in Feeds : <<ip, f>> \in removals[a]
    /\ (blocklist \ (manual \cup abandoned)) \cap Excluded = {}
    /\ \A ip \in Tracked(ttlMap) :
           \/ ip \in blocklist \cup unsynced \cup overlooked
           \/ \E a \in Agents : ip \in batch[a]

\* "It MUST track per-feed TTL in Redis ZSET `araxys:threat_intel:ips`": the
\* time to live of a blocked address is forgotten only when it has run out,
\* or with the address.
TtlKept ==
    [][\A k \in FeedKeys : ttlMap[k] > 0 /\ k[1] \in blocklist =>
           ttlMap'[k] # Absent \/ k[1] \notin blocklist']_threatVars

=============================================================================
