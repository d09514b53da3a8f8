# A formal model of Araxys

Araxys is a Python library that gives FastAPI applications security features:
sessions, tokens, rate limits, intrusion lists, webhooks and so on.
`src/araxys/shield.py` wires the features together from a configuration
(`src/araxys/core/config.py`); most of them are a middleware or a manager over a
storage backend, in memory or in Redis. This directory holds TLA+ modules that
model the parts of it that keep state or decide, TLC configurations that check them
on small instances, and proofs that the TLA+ proof system (tlapm) checks.

Everything in Araxys runs on asyncio: between two `await`s a coroutine is not
interrupted by another one of the same process, and at each `await` anything may
happen. Several processes may share one Redis. So a step of a model is what one
task does between two awaits, and one Redis command or `MULTI` pipeline is
atomic. The in-memory backends await nothing: a call of theirs is one step, and
where that is all they do, the Redis backend is the one that is modelled.

Paths below are relative to the repository's root.

- [1. The system](#1-the-system)
- [2. Modules](#2-modules)
- [3. What the runs check](#3-what-the-runs-check)
- [4. What is proved](#4-what-is-proved)
- [5. Where code and documents disagree](#5-where-code-and-documents-disagree)
- [6. Not modelled, and the plan](#6-not-modelled-and-the-plan)
- [7. How to run](#7-how-to-run)

## 1. The system

### Components

| component (`src/araxys/...`) | state | operations | what is hard | what makes it correct |
|---|---|---|---|---|
| `webhooks/emitter.py` event bus | a bounded `asyncio.Queue`, its unfinished-task counter, `_running`, the consumer task, the subscribers | `subscribe`, `emit`, `start`, `stop` (drain or immediate) | cancellation at each await, timeouts of `wait_for`, restart, a subscriber that raises | in order, at most once, isolation of subscribers, drain, stop returns and leaves no task |
| `webhooks/delivery.py` delivery | fire-and-forget tasks, a semaphore | `_on_event`, `_deliver_with_retry` with back-off and HMAC signature | tasks nobody awaits, shutdown, retries | every event delivered, or in the DLQ, or dropped knowingly |
| `webhooks/dlq.py` dead-letter queue | Redis: a hash per event, sorted sets `dlq:pending` and `dlq:dead`; the consumer's batch | `enqueue`, `dequeue_eligible`, `_reschedule_or_mark_dead`, `remove`, `replay`, `purge_*`; the poll loop | read and write in separate calls, Redis errors in between, crashes, several processes | no undelivered event destroyed; hashes and sets agree; bounded retries; every entry settles |
| `webhooks/dlq_routes.py` | - | the operator's replay and purge | run against the consumer | as above |
| `sessions/` | Redis: a hash per session, a set of ids per user, both with a TTL; the token blacklist | `create` with eviction, `revoke`, `refresh_session`, `touch_session`, the cleanup loop | the count is stale when used, late writes to ended sessions, two keys that expire separately | ended is ended; live sessions are findable; the limit; revocation covers the token |
| `jwt_auth/` | blacklist and refresh families in Redis or memory; the keys of the configuration | create, verify, rotate, revoke, introspect | reuse detection against concurrent rotation, lifetimes of blacklist entries, restarts with other keys | a rotated or revoked token is refused as long as it is valid; a token opens what it was made for |
| `api_keys/` | key records by prefix | create, verify, rotate, revoke | `verify_key` writes a record back that it read earlier | a revoked key stays revoked, a valid one stays valid |
| `mfa/` | the application's recovery codes, TOTP windows | enrol, verify, use a recovery code | check and removal are two steps, clocks differ | a code is good for one login; the drift that is promised is tolerated |
| `oauth/`, `oidc/` | state store per process; discovery cache | login, callback; discover | concurrent callbacks and first requests, expiry on access, several workers | a state is used once; metadata is not older than promised |
| `csrf/` | none (a token with an expiry in a cookie) | issue, validate, refresh | the cookie changes under other pages of the client | own fresh tokens pass, others do not |
| `audit/` | hash chain, current file, backups | log, rotate, verify | chaining and writing are separate awaits; restart; rotation | an untouched log verifies, a changed one does not |
| `db_security/` pools | clients, slot counters, health loop, reconnection | acquire, release, reload, close | exceptions between count and use, reload against reconnect against close | slots accounted for, no client forgotten, the client follows the URL |
| `db_security/` secrets, rotation | cached secrets, scheduler | resolve, rotate | two workers, one failing secret among several, cancellation | pools get the newest secret, none is leaked |
| `db_security/` query validation, audit | none | classify a statement, log it | - | pure |
| `rate_limit/`, `honeypot/` | counters, violations, bans | check, count, ban, unban, traps | check, count and ban are separate calls; window arithmetic | limits hold, bans are not shortened |
| `brute_force/` | failures and lockouts by identifier | check, delay, attempt, count, lock, reset | separate calls, a sleep in between | failures lead to a lockout, few guesses pass it |
| `account_protection/` | failures by address, in memory | mask, count, report | counting among concurrent requests, a failing report | exact detection, every detection reported |
| `ip_access/`, `core/ip.py` | allow and block lists | the client's address, the decision | proxies, lists that change between lookups | judged by the client's address and by what the lists said |
| `threat_intel/` | indicators with TTLs, the block list, feeds | refresh, sync, evict, purge | two workers, one resolver | an indicator is blocked while some feed lists it, and no longer |
| `waf/` | a remote IP set, strikes | count, escalate | read-modify-write of the remote set by several processes | no lost update, nothing unearned |
| `webauthn/` | challenges, credentials, sign counts | register, authenticate | challenge looked up, verified and deleted in separate calls | a response is used once |
| `rbac/` | the role hierarchy and its caches | define, extend, remove roles; decide | caches, cycles | granted exactly what the hierarchy entitles to |
| `graphql/` | none | depth, breadth, cost, introspection | fragments nested in any order | what passes is within the limits |
| `shield.py` middlewares, `sanitize/`, `xxe/`, `malware/`, `prompt_injection/`, `headers/`, `cors/` | the order of the layers | scan, rewrite, refuse, replay a body | each written alone | no layer hides from another what the handler receives |
| `shield.py` life | background tasks | construct, `shutdown` | services stop one by one while others run | every task ends, what was accepted is dispatched |
| `admin/` | none | endpoints over the other managers | - | those of the managers |
| `metrics/`, `telemetry/`, `websocket/`, `cli.py` | counters; none; none; none | increment; trace; re-export; report | - | - |

### Interactions

Any middleware or manager emits a security event to the event bus. The bus hands
it to its subscribers, one of which is `WebhookDelivery._on_event`, which starts
one task per URL, another the escalation to the WAF. A delivery that exhausts its
attempts enqueues the event in the DLQ. The `DLQConsumer` takes entries from there
and calls the same `_deliver_with_retry` again (`shield.py:198-203`); operators
replay and purge the same entries over HTTP. `SessionManager` writes to its own store
and, on a revocation, to the blacklist of the token storage that `jwt_auth` reads.
The rate limiter and the honeypot share the bans of one backend, and an administrator
lifts them. Threat-intelligence feeds fill the block list that the IP middleware
reads. Secret rotation reloads the database pools, from a loop and from an operator's
request at once. The middlewares hand a request on in the order in which
`shield.py:391` registers them, and `shutdown()` ends the background tasks one after
the other.

`PROJECT.json` lists every component with its files, and under `hazards` the
places in the code that are hard to test, each with the properties that cover it.

## 2. Modules

| module | models | uses |
|---|---|---|
| `WebhookDLQ`, `MCWebhookDLQ` | the Redis DLQ, its consumers, the operator endpoints; the symmetry set of the runs | - |
| `BusParameters`, `EventChannel`, `EventBus` | shared constants; the abstract promise of the bus, a bounded channel; queue, task, start, stop, cancellation | `EventBus` refines `EventChannel` |
| `WebhookDelivery` | one task per event and URL, attempts, semaphore, hand-over to the DLQ | - |
| `Sessions` | the sessions of one user in Redis | - |
| `RefreshTokens`, `AccessTokens`, `ApiKeys` | rotation and reuse detection; claims, keys, binding, introspection; keys under their prefixes | - |
| `MCTokens` | one run for the three | the three |
| `RequestPipeline` | the middlewares around one request | - |
| `RateLimits`, `SlidingWindow` | limiter, traps and bans over both backends; the weighted window | - |
| `BruteForce`, `EnumerationWatch` | lockout of an identifier; detection of an address that guesses accounts | - |
| `CsrfTokens` | the double-submit cookie and the pages of one client | - |
| `IpAccess` | the client's address behind proxies, allow and block lists | - |
| `Rbac`, `GraphQLLimits` | the role engine against the closure of the hierarchy; the limits of a document against the ways an executor goes down it | - |
| `OAuthLogins`, `OidcDiscovery`, `MultiFactor`, `WebAuthn` | the four ways to log in | - |
| `RequestLimits`, `SecondFactors` | what limiter and window, lockout and detector, codes and passkeys promise together | the pairs they name |
| `MCRequests` | one run for all that meets a request | the above |
| `RedisPools`, `SecretRotation` | the three Redis pools; secret resolution, rotation and the PostgreSQL pool | - |
| `ThreatIntel`, `WafEscalation`, `AuditLog` | feeds and block list; strikes and the shared IP set; chain, files, verification | - |
| `ShieldLifecycle` | construction and shutdown with every background task | - |
| `MCBackground` | one run for all that runs beside the requests | the above |
| `Lemmas` | facts of arithmetic, of least numbers, of finite sets and of sequences, for the proofs | TLAPS |
| `WebhookDLQ_proofs`, `EventChannel_proofs`, `EventBus_proofs`, `Sessions_proofs`, `Tokens_proofs` | theorems about these modules; the last about the three that `MCTokens` joins | `Lemmas` or TLAPS |
| `Requests_proofs` | theorems about all that `MCRequests` joins | `Lemmas` |
| `Background_proofs` | theorems about all that `MCBackground` joins | `Lemmas` |

The MC modules check independent components together: a variable `part`, chosen
initially, says which of them a behaviour exercises, so the state space is the sum of
theirs and not the product. Components that do interact are in one module each:
limiter, honeypot and administrator; feeds and block list; loop, operator and
borrowers of a pool; delivery attempts and semaphore; all middlewares; all
background tasks.

Definitions named `<Action>_<Change>` are mutants: the definition they precede, with a
plausible bug. They are no part of any specification; `PROJECT.json` says which
property each of them must violate when it takes the definition's place, and so that
the property can fail.

### WebhookDLQ

| variable | in the code |
|---|---|
| `stored`, `hash` | keys `dlq:event:<id>`; of their fields the URL (which stands for all the payload fields: they are written together), `attempt_count` and `status` |
| `pending`, `due` | the sorted set `dlq:pending`; the members whose score has passed |
| `dead` | the sorted set `dlq:dead` |
| `aged` | entries older than `dlq_max_age_seconds` |
| `pc`, `fetching`, `batch`, `cur`, `count`, `todo` | where `_poll_loop` is suspended and its local variables |
| `op`, `cur`, `target`, `todo` | the same of an operator's request |
| `used`, `origin`, `settled`, `exposed`, `tries` | history, read only by properties and by the choice of a fresh id |
| `faults` | bounds the Redis errors, stops and broken-off requests |

The consumer goes round `select -> fetch -> dispatch -> ... -> scan -> purge ->
sleep`. Each step is one call to Redis: `SelectDue` is the `ZRANGEBYSCORE`,
`FetchEvent` one of the gathered `HGETALL`s, `Delivered`, `FailedAndCopied` and
`FailedOnly` the outcomes of `_deliver_with_retry`, `ReadAttempts` and
`Reschedule`/`MarkDead` the `HGET` and the pipeline of
`_reschedule_or_mark_dead`, `RemoveExists` and `Remove` those of `remove`,
`PurgeScan` and `PurgeExpired` the age purge that ends each cycle. `RedisError` is
the `except Exception` of the loop, `Stop` the cancellation or a crash. Operators
run `ReplayInspect -> ReplayZrem -> ReplayRequeue`, `PurgeAll` page by page, and
`PurgeByUrl` key by key.

Time is abstracted to what it changes: `BecomeDue` and `Age`. Back-off durations
and the endpoint's answers inside one `_deliver_with_retry` are left out (the
attempts are in `WebhookDelivery`), and so are `mark_dead` (no caller in `src/`),
the read-only endpoints and their authentication. Hashes without payload ("zombies")
that the bookkeeping recreates after a purge are modelled, since `HSET` creates a
hash.

### EventBus and EventChannel

`EventChannel` has a queue, the event being handed over, and a log per
subscriber. `EventBus` adds `_running`, the unfinished-task counter of
`asyncio.Queue`, the consumer task (`none`, `new`, `get`, `dispatch`, `done`,
`crashed`) and `stop()` (`join`, `joined`, `cancel`, `await`). The refinement maps
`current` to the event in `_dispatch` and `next` to the subscriber it awaits.

The cancellation by `stop()` is modelled for each place it can reach the task:
before its first step (`CancelNew`), in `queue.get()` (`CancelGet`), in
`wait_for(queue.get())` when the item has been taken already
(`CancelSwallowed`: the `wait_for` of Python 3.11 then returns the item), and in a
subscriber (`CancelDispatch`). Raising and returning subscribers have the same
effect in the code, since `_dispatch` catches `Exception`, and are one step.
`start()` and `stop()` are called by one owner, as the shield does, never
concurrently with each other; `emit()` may come at any time.

### WebhookDelivery

`event` counts what the bus has dispatched; `task`, `attempt` say where the task of
an event and a URL stands; `free` and `line` are `_delivery_semaphore` and its
waiters, first in first out. `_on_event` runs one iteration per URL, and the tasks it
started run when it awaits. A task holds its place during all its attempts and the
delays between them. `deadLetters` are the entries enqueued, `taken` the deliveries
the receiver has answered with a success. A stop of the process (`troubled`) ends the
tasks that run: nothing awaits them.

### Sessions

One user's sessions. `hash`, `deadline`, `activity` are the session's hash, its
TTL and its last activity; `index`, `indexUntil` the user's set and its TTL. A hash
is `full`, or `partial` when a late `HSET` has recreated it without the fields of a
record (`get_session` raises `KeyError` on it). Calls: `create` (`CreateCount`,
`Members`, `Fetch`, `EvictGet`, `EvictDelete`, `Create`), `revoke` (`RevokeGet`,
`Blacklist`, `RevokeSessionGet`, `RevokeDelete`), `refresh_session`,
`touch_session`, and the cleanup loop (`CleanScan`, `CleanTtl`, `CleanIdle`,
`CleanDelete`, `CleanSrem`). `Broken` ends a request anywhere: Redis raises, the
blacklist fails, the client disconnects. The clock is explicit, since two TTLs and
the idle timeout are compared with each other. `blacklistUntil` is the entry of a
session's token and when it expires, `remaining` the whole seconds that `revoke()` has
found left and will pass as its time to live; a manager without the callback
(`JtiBlacklist`) blacklists nothing.

Left out: the in-memory backend, binding of a session to address and user agent
(request-local), and events (the shield passes no bus to the session backends). The
model is of the backend made from a URL (`storage.py:296`, with
`decode_responses=True`).

### RefreshTokens, AccessTokens and ApiKeys

*Refresh tokens.* A token is its number; `exp` and `family` are its claims, `jtis` and
`families` the Redis keys that blacklist a token and a family, as the times at which
they expire. A call is suspended in `is_family_blacklisted` (`family`),
`try_blacklist_jti` (`claim`), between it and the new pair (`issue`), in the audit entry
of a detected reuse (`reuse`), or in `blacklist_jti` (`revoke`). The clock has several
ticks a second: `exp` is cut to a whole second when it is encoded, `remaining_ttl` is cut
again, Redis counts from the moment of the call, and a token is accepted
`leeway_seconds` beyond its `exp`. `parent`, `spent` and `reused` are history.
`Issue` is shared by a login and a rotation, as `create_token_pair` is: each pair
gets a family of its own.

*Access tokens.* Issued in pairs, checked without the store: `jwts` holds the claims,
with the key that signed them; `DecodesAs` is `decode_token` under the configuration
of the process that runs now, `Admits` the dependency. `Redeploy` restarts the service
with another configuration of keys and options while the tokens live on.
`introspect_token` decodes, awaits the blacklist, and answers.

*API keys.* `record` is what Redis holds under a prefix: a key's number and `is_active`;
the rest of a record is written and read with them. `timer` is the key whose `expires_at`
set the record's time to live, 0 when it has none. Every write of the storage is
`StoreRecord` (the `SET`, which takes the time to live away) followed by
`StoreExpire`; `VerifyGet`, `GetLapsed`, `RevokeGet`, `RotateGet` are the `GET`s
before it, and the record travels with the call (`copy`) in between. The clock is
abstracted to the four stretches of a key's life that the comparisons of the code
tell apart. Prefixes may collide, as eight characters may.

Left out: signatures, hashes, address checks of keys; key sets (JWKS).

### RequestPipeline

One request and its response. `place` is the layer whose turn it is, counted from the
outside in the order `shield.py` registers them (the last registered is the outermost);
`Chain` is the set of the places that are occupied, and `Inward` and `Outward` are the
next ones on either side; `request` holds its method, its content type, what scanners
would find in it (`threats`), and what they would find once its markup is stripped
(`beneath`); `body` is what the layer at `place` receives: a layer may read and replay
it, consume it, or rewrite it. Any layer and the handler may raise (`Raises`): the
exception passes every layer, and the server outside of them answers. A layer that
decides on a state of its own (bans, lockouts, tokens) may pass or refuse any request;
those decisions are in the other modules. `enabled` and `exempt` range over the
configurations that leave out or exempt at most `MaxAbsent` of the layers.

### RateLimits and SlidingWindow

A request of one address goes through `progress`: the ban is looked up, each of its
dimensions (`counters`) counted, a violation counted, a ban set -- each a call of
`RedisBackend` and a step, and a request may be abandoned between two of them -- and
then perhaps a trap of the honeypot, which bans in the same backend. Over
`InMemoryBackend` the whole check is one step. The TTLs of counters, violations
and the ban are explicit. The administrator's unban is an action. `SlidingWindow` is
the arithmetic of the weighted window: `current`, `began`, `previous` are the three
dictionaries of the backend for one key.

### BruteForce and EnumerationWatch

*Brute force.* A login goes `check -> (delay) -> handler -> record -> lock` or `reset`;
`attempts` and `lockout` are the two keys of Redis with their times to live. The lockout
is not looked at again after the delay. *Enumeration.* `failed` is the history of the
failures of each address, and `failures` the places in it that the detector still has,
pruned at each failure. A request that is detected awaits the audit callback, then the
bus.

### CsrfTokens

A token is its place in `issued`, which says when. The pages of one client share its
cookie (`jar`); a page reads the token, sends a request with header and cookie, is
judged by the middleware and perhaps again by the dependency, and its response may set
a new cookie (`auto_refresh_cookie`), which arrives in any order with others.

### IpAccess

`ClientIp` is `get_client_ip`: the first entry of `X-Forwarded-For` if the peer is a
trusted proxy, else the peer. A proxy appends to the header what called it, after what
the client has written there itself (`claim`, empty when it wrote nothing or when the
first proxy sets the header anew). An entry of a list is the set of addresses it
matches. With the lists in Redis, mode `hybrid` makes two lookups, and the lists may
change in between.

### Rbac and GraphQLLimits

Both compare an algorithm with a reference definition. `Rbac` keeps the three
dictionaries of the engine and runs `add_role`, `remove_role` in every order, cycles
included. `_expand` is a recursive function of the roles on the path and the role; the
reference (`Ancestors`) is the least set of roles that has the role and is closed under
`inherits`.

`GraphQLLimits` evaluates the depth, breadth and cost rules of the middleware and its
search for introspection, each with its own way to follow fragments. A document is what
the parser returns: definitions, and numbered selection sets of which each leads to
lower numbers only, through a field, an inline fragment or the name of a fragment
(`IsDocument`). Each measure is a recursive function of the number. So a document may
have any size, share a fragment any number of times and define it before, after or
twice, but its fragments are not recursive (when an operation reaches such a fragment,
the first measure ends in a `RecursionError` and the query is not passed on). The
reference says nothing of measures: it is the set of ways down (`Ways`) an executor that
enters every fragment may take. `Level` counts the fields on a way, and `Charges` has
for every way to a field as many members as the field costs.

### OAuthLogins, OidcDiscovery, MultiFactor, WebAuthn

*OAuth.* `states` is the `dict` of each process; a callback pops the state, exchanges the
code, asks for the user. The provider is external: a code is worth one exchange with the
verifier of its login. *OIDC.* Concurrent `discover()` calls over one cache and an issuer
that replaces its metadata. *Second factors.* `VerifyTotp` as a function of the clock of
the server and the drift of the device; the list of recovery codes is the application's
(external): a request loads it, verifies, saves. *WebAuthn.* One user with one
authenticator; a verification looks the challenge up, verifies, deletes it, reads and
writes the sign count. `setup` ranges over the stores, whether the authenticator counts,
and whether the caller also keeps the challenge.

### RedisPools and SecretRotation

*Pools.* `clients` are the clients made so far with the URL of each, `open` those not
closed; the health loop (`asleep -> closing -> probing`), `reload_url()`
(`trying -> waiting -> closing`) and `close()` replace and close the current one, the
first two under `_reconnect_lock`. `active` is the slot counter of `acquire()`. `kind`
is the class of the pool; they differ in `acquire()` and in the address a reconnection
uses. *Rotation.* Two workers, the loop and an operator's request, each with its list of
targets (`todo`): resolve, hand over, reload. The PostgreSQL pool is replaced in steps
(`try`, `create`, `close`); requests hold connections of whichever asyncpg pool was
current. `fail_closed` cancels the loop from within.

### ThreatIntel, WafEscalation, AuditLog

*Feeds.* `ttlMap` and `seen` are the resolver's, `blocklist` the Redis set; a worker
fetches, syncs its batch, evicts expired keys, purges a feed, with an await per address.
`Restart` loses what the resolver and the workers hold and leaves the Redis set;
`abandoned` are the addresses that a feed had put there. *WAF.* `strikes` per process,
as places in the log of what the process has seen; `GetIpSet` and `UpdateIpSet` are the
two calls to AWS, and an update succeeds only with the current lock token. *Audit.* A
hash is the sequence of entries it covers; `waiting` are the calls between chaining and
writing; rotation shifts `backups`; `Tamper` changes or removes a line; `Violations` is
`verify_integrity`.

### ShieldLifecycle

What the constructor starts for every subset of features, and `shutdown()` as it goes
through rotation, pools, bus, sessions, DLQ and feeds. The coroutine is `suspended` only
where it waits; tasks run only then, and whatever was ready before the wait has run when
it ends, since the event loop is first in first out.

## 3. What the runs check

| run | question | size |
|---|---|---|
| `dlq_safety` | Do redeliveries, replays, purges, Redis errors and restarts keep every undelivered event, in the right set? | 2 ids, 2 URLs, 1 consumer, 1 operator with all three calls, 1 fault, limit 2; 4.6 million states (symmetric ids) |
| `dlq_live` | Does every pending entry settle, within its retries, and every old one go? | 1 URL, replays only; 271 thousand states |
| `event_bus` | Does the bus implement the channel, stop, and drain? | 2 subscribers, queue of 2, 5 events, 2 starts; 18 thousand states |
| `sessions` | Do ended sessions stay ended, live ones indexed, revoked ones refused, and stale ones get reclaimed? | 2 sessions, 1 creator, 1 request at a time, TTL 2, idle 1, clock to 3; 1.5 million states |
| `tokens` | Is a refresh token good for one rotation, does an access token open what it was made for, is a revoked API key out and a valid one in? | 2 refresh tokens, 2 calls; 2 token pairs, 2 bearers, 1 restart; 2 keys, 2 prefixes, 2 calls; 3.0 million states |
| `requests` | Do the parts a request meets keep their promises? | see below; 890 thousand states (two requests, logins, clients and so on interchangeable) |
| `background` | Do the parts that run beside the requests? | see below; 2.1 million states |
| `access_bound` | Is a bound access token of use to its client alone? (No.) | as `tokens` |
| `drain` | Does a reload of the PostgreSQL pool come to an end? (Not always.) | 2 secrets, 1 request, 2 pools |
| `enumeration` | Is every detected enumeration reported? (No.) | 2 requests, 2 addresses |
| `tokens_family` | Does theft detection reach the tokens issued from the reused one? (No.) | as `tokens` |
| `keys_revoked` | Is a revoked key inactive? (Not always.) | as `tokens` |

### The properties

*Dead-letter queue.* `NoEventLost`: the payload of an entry survives until an endpoint
accepts it or a purge deletes it. `EntriesInPlace`: an entry with a payload is in a
sorted set, with enumerated exceptions (`Indexed`: a broken-off replay, `dlq.py:153`,
and a set that a concurrent `purge_all` deleted), and the two sets exclude each other
and agree with the hashes (`IndexAgrees`). `RetriesBounded`: at most `dlq_max_retries`
failed redeliveries of an entry before it is dead, plus one for each fault between a
failed delivery and its bookkeeping. It is a bound per entry and not per event: a failed
redelivery enqueues a copy that is an entry of its own (section 5). `PendingSettles` and
`AgedReclaimed`: no entry is pending for ever, and old entries are deleted, also those
no sorted set knows.

*Event bus.* `ImplementsChannel`, and through it `InOrderOnce` and `Isolated`.
`DrainedOnJoin`: when `join()` has returned, everything accepted before `stop()`
has reached every subscriber (first start only, see section 5). `OneTask`: no
task is left behind. `StopReturns`. `AcceptedDispatched`: an accepted event is
dispatched unless the bus is stopped.

*Deliveries.* `DeliveryAccounted`: a task that ends has delivered or enqueued its event,
with the reasons why not enumerated; never both; the semaphore is given back on every way
out.

*Sessions.* `EndedForGood` (an action property): only `create_session` makes a hash that
reads as a session. `IndexedLive`: a live session is in its user's set.
`RevocationCovers`: after `revoke()` has returned True the session is gone, and its
token is on the blacklist up to the last second the session would have lived, whatever
ran, failed or expired in between, if there is a blacklist and no refresh gave the
session more time after `revoke()` had read it (`overtaken`). Beyond the session's life
it says nothing, since the entry ends there (section 5). `LimitKept`: one `create()` at
a time exceeds the limit by no more than the number of touches that brought back a
session, read before it went idle, whose place was taken by then (`revivals`).
`StaleReclaimed`: the cleanup takes expired and idle sessions out of the set.

*Tokens and keys.* `SpentForGood` (an action property): a refresh token that has been
rotated or revoked is not rotated again, up to the last second before its `exp`. The
exception is the code's: whole seconds and the leeway let the blacklist entry
expire while the token is still accepted; without the exception the property
fails. `TokensJudged`: a request is admitted by an access token only, signed under the
configuration of the moment, in time, for scopes the application gave that very token;
and introspection calls no withdrawn token active and no acceptable one inactive.
`KeysHonoured`: a key revoked while no verification of it is under way has no active
record under any prefix again (`RevokedStaysOut`), and a key that nobody revokes and
that has not expired keeps its active record, unless another key is given its prefix
(`ValidKept`).

*Requests.* `LayersCompose`: nothing an active scanner rejects reaches the handler by
the doing of another layer, but for what the stripping of markup brings about; and every
response has the security headers but CORS rejections and the server's own answer to an
exception. `RatesHold`: a counter lets no more through than its limit in its life, a ban
in force is replaced only by requests let in before it, and the sliding window admits
over any span no more than the limit and the part of it that the span has of a window.
`FailuresCounted`: from the last allowed failure on the identifier is locked or about to
be; under a lockout only what was let in before still guesses, once each; and
enumeration is detected exactly when the failures within the window reach the threshold.
`CsrfHonoured`: a request passes only with the client's own fresh token, and is refused
only for the named reasons. `IpJudged`: a request is judged by its client's address if
it has passed trusted proxies only and the client has begun no header of its own, by its
peer's if that is no trusted proxy, and by what the lists said while it was judged.
`WalksExact`: the role engine grants exactly what the hierarchy entitles to, stale
caches excepted, and no way down an accepted query, through whatever fragments, is
beyond the limits. `StateTakenOnce` (an action property): an OAuth state is taken once
and in time, and a login completes only with its own code and provider. `MetadataAge`:
replaced OIDC metadata is not returned after the cache's lifetime and one fetch. That a
fetch has a bound at all is an assumption: the timeout of httpx (`oidc/client.py:57-60`)
is one per operation on the connection. `FactorsHonoured`: the promised drift and no
more is tolerated, a recovery code is good once unless a save overwrote another, a
passkey response is accepted once under the named conditions.

*Background.* `PoolConsistent`: slots counted are slots borrowed or leaked by a failed
check, the client follows the URL, replaced clients are closed. `RotationConsistent`:
the pool in use is open and made for the DSN on record, others are closed or about to
be. `BlocklistFollowsFeeds`: while a process lives, blocked means blocked by an operator
or tracked, tracked means blocked, with the enumerated races; what a feed had blocked
before a restart (`abandoned`) is exempt until a feed lists it again or it is removed.
`LogTrusted`: what an untouched log reports is one line per gap, tampering is reported,
and the files are the end of what was written: `before` says how many lines were written
before those of each file. `EscalationsKept` (an action property): only earned addresses
are added and none is lost. `ShutdownComplete`: no task is left and no accepted event
undispatched, with two named exceptions.

Several properties name exceptions. Each of them is something the code does; it was
found as a counterexample of the property without it, and is listed in section 5 when it
disagrees with a document.

### Bounds, and why they are enough

Two DLQ ids let a failed redelivery make its copy, and let two entries compete in
one batch; a limit of two reaches a rescheduling and a dead entry, with
`RetryMax = 0` so that an entry starts below the limit (the bound that matters is
the difference). The batch is as large as the number of ids, so that starvation of
the queue by orphaned ids is out of the runs' reach (a listed hazard). One fault
breaks any call at any point; combinations of faults are covered by the proofs,
which have no bound. A bus with five events on a queue of two overflows, drains and
is restarted with items left. Two sessions with a limit of one make every creation
evict; a clock that reaches 3 with a TTL of 2 and an idle timeout of 1 lets a
session go idle, expire, be refreshed past its first deadline, and lets the user's
set outlive it. Two refresh tokens are a token and its successor; two calls race for
one of them; two ticks a second are the fewest that tell a second's beginning from
its end, a life of two seconds and a clock of three reach the leeway. Two token pairs
are a login and a rotation, or two logins; one restart changes the algorithm or a key.
Two keys on two prefixes may collide or not, and two calls overlap a write-back with a
revocation.

| part | instance | what happens in it |
|---|---|---|
| `pipeline` | at most one layer missing or exempt | every pair of layers meets every kind of content |
| `rates` | 2 requests, 2 dimensions, limit 1, threshold 1, trap longer than ban | both over the limit, both banning, trap against escalation, every expiry |
| `window` | window of 4 ticks, limit 3, 12 ticks | three windows, a stale previous count |
| `brute` | 3 logins, 2 attempts, lockout 2, attempts live 3 | a lockout in the middle of two others, expiry of each key before the other |
| `webauthn` | 2 verifications, 2 challenges, 2 responses | a replay against a fresh response, both stores |
| `oauth`, `oidc`, `mfa` | 2 processes, 2 callbacks, 2 logins; 2 calls, 2 versions; 2 requests, 2 set-ups | mixed-up callbacks; a slow answer over a newer one; a set-up between load and save |
| `rbac`, `graphql` | 3 roles, 4 changes, all orders; 13440 documents of 3 selection sets of 1 or 2 selections (3 if no selection leads further), 1 fragment | cycles and redefinitions; fragments nested, repeated, before or after the operation |
| `csrf` | 2 pages, 2 tokens, expiry 1 | responses in any order, expiry between send and check |
| `enumeration`, `ip` | 2 requests, threshold 2, window 2; 2 clients, 2 proxies, 2 hops | detection across pruning; an untrusted proxy before or after a trusted one, a header the client has begun, in its own name or another's |
| `pools` | 2 borrowers, 1 slot, 2 reloads, 3 clients, 1 retry | reconnection against reload against close |
| `rotation` | 2 secrets, 1 request, 3 pools | both workers in one reload, cancelled anywhere |
| `feeds` | 2 addresses, 1 of them excluded, 2 feeds, TTL 1 | one feed's key expires while another tracks the address, a restart in the middle of a sync (two addresses that no list excludes are left to the proof) |
| `audit` | 5 entries, files of 1 or 3 lines, 3 backups, 1 restart | a backup falls off; a restart inside a file |
| `delivery` | 2 URLs, 2 events, 1 or 2 retries, 1 delay, 2 places | the semaphore full, the list of delays shorter than the retries |
| `waf` | 2 processes, 2 addresses, 3 strikes each | two updates with one token |
| `shield` | every subset of 7 features, queue of 2, 3 events | a full queue at shutdown |

`RetryDelays` scales the three delays of `delivery.py:34` to one: what matters is whether
`retry_max` exceeds their number. `dlq_*` bound the ids; when they run out, `FailedOnly`
(the enqueue fails) stays possible, so no run deadlocks on the bound.
`CHECK_DEADLOCK FALSE` is given where the system may stop: a stopped bus, logins that are
over, a clock at its bound.

### Fairness, and why the code justifies it

- `WF(ConsumerStep(c))`, `WF(Start(c))`: the event loop resumes a task whose await
  has completed, every Redis call and every HTTP attempt has a timeout, and a
  stopped process is started again. Faults are bounded; an endpoint that always
  fails is allowed.
- `WF(BecomeDue(e))`: time passes. Nothing is assumed of `Age`, nor of operators.
- `WF(Consumer)`, `WF(Stopper)`: the loop runs the bus's task and the caller of
  `stop()`, and every subscriber returns or raises. Nobody need emit, start or stop.
- `WF(Cleanup)`: the cleanup loop wakes up every `cleanup_interval_seconds` and
  survives failed cycles, as many as there are; `<>[][~CleanFails]_vars` says that from
  some time on Redis answers it. The clock and the requests need not go on.
- `FairRotationSpec` (run `drain`): a worker goes on when what it awaits is done, and
  every request gives its connection back. Nobody need change a secret or rotate.

## 4. What is proved

All theorems hold for every value of the constants that satisfies the module's
assumption: any number of ids, URLs, consumers, operators, subscribers, sessions,
processes, borrowers, requests, any queue size, limit, TTL, and any number of faults.
The assumptions give the constants their types, and say of the sets that a property
counts or a search exhausts (`Requests` of the limiter, `Logins`, `Creators`,
`Addresses`, `Roles`) that they are finite, as whatever a process holds is. That of
`GraphQLLimits` says of every query that it is a document (`IsDocument`). One is a fact
of arithmetic, `PowersArePositive` of `RateLimits`: the provers know nothing of
exponentiation.

**WebhookDLQ_proofs** (from `ConfigAssumption`).
`TypeCorrect`. `NothingLost`: `NoEventLost` is not inductive, since `remove()`
deletes a payload two calls after the delivery succeeded; `RemovesSettled` (whatever
is in `remove()` has been accepted) closes the gap. `EntriesIndexed`: `Indexed` is
inductive with the types. `SortedSetsAgree`: `IndexAgrees` for a single consumer. Its
invariant says what the consumer has in hand: it is pending and not dead (`HandsFree`),
it is there once (`OneCopy`), a replay owns its event between its two calls
(`ReplayAlone`), and nothing refers to an unused id (`Fresh`). A single consumer is
needed: two processes may have the same entry in hand, and one marks dead what the other
reschedules. `EntriesStayInPlace` joins the two in the form the run checks.
`RetriesStayBounded`: with a single consumer, again; the invariant relates the tries of
an entry to the count in its hash (`CountedFor`) and to the count the consumer has read
and not yet written (`ReadFor`). With two consumers the property is false: both retry an
entry and count one retry.

**EventChannel_proofs** (from `ChannelAssumption`). `ChannelInOrderOnce`: the
invariant `Ordered` arranges the logs before the current event and that before the
queue. `ChannelIsolated`: `Level` says that two logs differ only in the current
event and in abandoned ones.

**EventBus_proofs** (from `ChannelAssumption` and `BusAssumption`). `TypeCorrect` and
`StopLeavesNoTask` need each other: `start()` makes a task only when there is none.
`BusImplementsChannel`: each step of the bus is a step of the channel or a stutter.
`BusInOrderOnce` and `BusIsolated` follow from the channel's theorems by
instantiation. `StopDrains`: the invariant says of the first start that the join counter
is the length of the queue with the event being dispatched, and that what `stop()` has
promised is finished, in the queue or being dispatched.

**Sessions_proofs** (from `SessionAssumption`). `TypeCorrect`, with the facts that only
created ids occur anywhere. `NoResurrection`: by cases on the steps.
`LiveSessionsIndexed`: the inductive invariant is that the set expires no earlier than
any session in it, and that the cleanup is about to take out only an id that no longer
reads as a session; the second part holds because of `NoResurrection`.
`RevocationComplete`: a `revoke()` that has read the session knows to a second how long
it lives, and one past the blacklisting has covered that time (`Covering`), unless a
refresh has overtaken it; `TokenInv` carries this over to the session that has gone. It
holds for any number of concurrent requests, with a blacklist or without.
`LimitAlwaysKept`, for one `create()` at a time: `Bounded` says at each step of the
creation how many live sessions there can be: it has found, or has yet to read, all but
the ones brought back since it listed them, and when it goes on there is room for one.

**Tokens_proofs** (from `TokenAssumption`, `AccessAssumption` and `KeyAssumption`).
`TokensTyped`, with the facts that calls and history are about issued tokens and that no
`exp` is further away than a life. `SpentForever`: the inductive invariant `SpentInv` says
that a spent token is in its last second or has an entry that lasts up to it, and
that the entry a call has computed but not yet set will (`CallsCover`); the rounding
is in `SecondsLeftOK`. `TokensAlwaysJudged`: `AccessInv` adds to the types that a token's
type goes with its place in the pair, that its scopes were chosen for it, and that a
blacklist entry outlives the token it is for. `KeysTyped`, `RevocationLasts`: a record is
that of a key with its prefix, and no call has the active record of a quietly revoked key
in hand to write (`CallOK`). `ValidKeysKept`: `ValidKept` is inductive with that
invariant, which also says whose time to live a record has (`TimerOK`) and that a record
is written as inactive only by a revocation or after the expiry. `KeysAlwaysHonoured`
joins the two in the form the run checks, and `CredentialsTyped` the types of the three,
under the specification of the run.

**Requests_proofs** (from the assumptions of the modules it joins).
- `LayersAlwaysCompose`: on the way in, what each installed scanner behind which the
  request stands would have rejected is not in what is kept of the request (`ScannedBy`,
  `Sanitized`), only a malware scan that has been passed empties the body, and once
  sanitized nothing else sees it (`BodyInv`); on the way out the headers are set or yet
  to be set, unless the server answers for an exception (`HeadersInv`).
- `LimitsAlwaysHold`: a counter counts every request it has admitted and every one that
  may still be admitted (`Contenders`), and the requests that may still write a ban
  (`Banning`), with those that did, are fewer than all. `LockoutAlwaysHolds` is shaped
  alike: who may still guess under a lockout was let in before it.
- `NeverDoubleBurst`: an admission belongs to the window that is open, among the
  `current` ones, or to the one before, among `previous`; the estimate by which a request
  is let in then bounds any span.
- `DetectionAlwaysExact`: what the detector has pruned has left the window (`KeptFor`),
  so that the count at the request's own failure is the count of all (`JudgedFor`).
- `IpAlwaysJudged`: what is found by a route of trusted proxies and no claim is the
  client (`ClientFound`), behind no trusted peer the peer (`PeerFound`); what an
  undecided request has seen of the lists includes what they say now.
  `CsrfAlwaysHonoured`: a page agrees with the jar unless a response came in between
  (`AgreementInv`); tokens are genuine wherever they travel.
- `MetadataNeverOld`: an answer under way was current after its request was sent
  (`InFlightInv`), so that a replaced version gets into the cache within one timeout.
- `CodesAlwaysHonoured`: the drift is arithmetic of quotients (`PeriodsCount`); recovery
  codes have no repetition, and what a request holds is what it loaded without its own
  code. `ResponsesHonouredOnce`: a challenge that a verification found was not used before
  it began, and is gone from the store before it is compared (`ChallengeFor`); the count
  it read is at least those accepted before (`CountFor`).
- `StateAlwaysTakenOnce`, an action property: an entry of a store belongs to a login,
  carries its expiry, is in one store only and has not been taken (`StatesInv`); the code
  of a callback that asks for the user is that of its state (`CallbacksInv`).
- `RolesGrantedExactly`: `_expand` finds what can be reached from the role without
  passing the roles on its path, for any hierarchy, cyclic or not. That this is a walk as
  the code has it follows from one step of reachability (`OneStep`, `WalkExists`); that it
  is the only one, from a pair of path and role at which two walks differ with the most
  roles on the path (`WalkUnique`); with an empty path it is the closure
  (`ExpandIsEntitled`). A cache that is not `outdated` then holds what a fresh expansion
  would (`RbacInv`): `add_role` marks the heirs, and no other role's entitlement changes
  (`EntitlementKept`); `remove_role` fills every cache again.
- `QueriesWithinLimits`, for documents of any size. The recursive functions exist by a
  fixed point over the numbers of the selection sets (`CourseOfValues`). A way
  is no longer than the depth and takes no position beyond the breadth (`RouteBounds`),
  and the field it meets is in the tree of some definition, its own or that of the last
  fragment on the way, all of which are searched (`RouteNames`). The charges
  of a selection set are apart by the first selection of the way, and each part is that
  selection's own with those below it (`BegunIs`), so that their number is exactly the
  cost with all fragments known (`CostIsCharged`), which is what the code computes when
  they precede the operation. `WalksAlwaysExact` joins the two in the form the run checks.
- `RatesAlwaysHold`, `FailuresAlwaysCounted`, `FactorsAlwaysHonoured` join two of these
  each, in the form the run checks.
- `RequestsTyped`: the types of all parts, under the specification that the run checks,
  with the bounds that only the types need (`PipelineTyping`, `RateTyping`,
  `EnumerationTyping`, `OAuthTyping`, `FactorTyping`, `WebAuthnTyping`).

**Background_proofs** (from the assumptions of the modules that `MCBackground` joins).
- `PoolTyped`, `PoolAlwaysConsistent`: none of the three parts of `PoolConsistent` is
  inductive. `LockInv` says that the lock is held by exactly the task that is replacing
  the client, so that the client a reload is about to close is the one it replaced;
  `ShutInv` that `close()` has ended the health loop before it marks the pool, so that
  only a reload can open it again; `SlotsInv` that the callers under way are finitely
  many, and with the count of the leaked slots the counter stays within `max_size`.
- `ShieldTyped`, `ShutdownAlwaysComplete`: the invariant goes along the stages of
  `shutdown()`: what each has ended stays ended (`HealthInv`, `BusInv`, `RestInv`); a wait
  lets the event loop catch up, so that with pools or webhooks `start_cleanup()` has run
  before the sessions are stopped (`LoopInv` and the last lines of `HealthInv`,
  `BusInv`); and while `join()` waits, what is owed is in the queue or being dispatched
  (`OwedInv`).
- `RotationAlwaysConsistent`: a worker never closes the pool in use (`ClosesAnother`), and
  one that has recorded a DSN and not yet made its pool either holds the DSN on record or
  will find that its pool was replaced (`RecordedByLast`).
- `BlocklistAlwaysFollows`, over any number of restarts: `FeedsInv` says it of every
  address that the resolver knows, tracked or only seen, since a purge keeps an address
  seen until its end; a restart forgets them all, and moves what it leaves blocked to
  `abandoned`.
- `LogAlwaysTrusted`, in three parts. The lines of the file and those that wait for the
  lock are one chain in which at most `gaps` entries follow a break (`GapsCounted`, with
  the set of these entries as a witness that rotation, a lost line and a restart each
  enlarge by one). Without gaps the hash of a line tells which line it was, so that a
  change or a removal leaves a trace that no later line covers (`ChangesEvident`). Each
  file knows its place in what was written (`RotationKeepsTail` itself).
- `EscalationsAlwaysKept`, an action property: an escalation that holds the current token
  has read the current set, since every update has added one address and moved the token
  (`EscalationOK`, `SetCounted`).
- `DeliveryAlwaysAccounted`: a task waits in line once (`LineInv`), a retry sleeps for a
  delay that exists (`AttemptInv`), and the places are counted with the line's head
  (`PlacesInv`).
- `BackgroundTyped`: the types of all parts, under the specification that the run checks;
  the joint inductive invariant is the conjunction of those above, with the bounds that
  only the types need (`AuditBounded`: a hash covers entries there are, and a file that
  rotates is never longer than its size; `ClockBounded`).

Two properties turned out to say too much when they were to be proved for every value of
the constants, on instances larger than the runs': `BlocklistFollowsFeeds` with two
addresses that no list excludes, since the end of one feed's key, or a purge, unblocks an
address that counts as seen (`overlooked`); and `LimitKept`, where one session may be
brought back again and again (`revivals` counts the times). Both are stated accordingly.

**Model-checked only.** The liveness properties (`PendingSettles`, `AgedReclaimed`,
`StopReturns`, `AcceptedDispatched`, `StaleReclaimed`): the prover has no support for
fairness. Every invariant and every action property of a passing run is proved, two of the
dead-letter queue (`IndexAgrees`, `RetriesBounded`) for the single consumer of the run.

## 5. Where code and documents disagree

Five runs find what a document or comment of the repository rules out; the
findings in `PROJECT.json` quote both sides.

- `tokens_family`: each rotation draws a new family id, so blacklisting the family of a
  reused token covers that token alone and not what was issued from it.
- `keys_revoked`: `verify_key` stores the whole record it read before awaiting the
  audit, and so undoes a revocation in between.
- `access_bound`: `TokenPayload` declares no `bind`, so the comparison of the dependency
  is never reached.
- `drain`: `release()` gives a connection to the pool of the moment, so after a reload
  the old pool waits for ever for one borrowed before.
- `enumeration`: the audit callback the shield passes raises `AttributeError`, so that
  the event never reaches the bus.

Four configurations beside the runs give counterexamples by hand:

- `WebhookDLQ_copies.cfg` (with `MCWebhookDLQ`): the function that redelivers from the DLQ
  also enqueues on failure (`delivery.py:267-274`), so that each failed redelivery leaves
  two entries for the event, each with retries of its own; an event is then redelivered
  without the bound of `config.py:667-671` ("Max retry attempts from the DLQ before
  marking dead").
- `Sessions_limit.cfg` (with `Sessions`): `create()` counts and creates in separate
  calls, so two logins exceed `max_concurrent_sessions`.
- `ThreatIntel_restart.cfg` (with `ThreatIntel`): the times to live of blocked addresses
  are in the memory of the resolver only (`resolver.py:45-48`; the Redis client that its
  docstring has "for ZSET-backed TTL tracking" is never used), while the block list is in
  Redis (`shield.py:781-798`). After a restart what a feed had blocked stays blocked for
  ever, unless a feed lists it again. `openspec/specs/threat-intel-feeds/spec.md:65`: "It
  MUST track per-feed TTL in Redis ZSET" (likewise `:69`, `:77`).
- `IpAccess_spoofed.cfg` (with `IpAccess`): `core/ip.py:3-5` says that spoofing
  `X-Forwarded-For` is prevented by a list of trusted proxies, and `config.py:1382-1384`
  that the header is honoured from those only. But `core/ip.py:50-51` takes its first
  entry, which behind a trusted proxy that appends to the header is whatever the client
  wrote; only a proxy that sets the header anew prevents it. All that limits or lists
  addresses depends on it.

Noticed on the way:

*Webhooks.*
- An entry enters the DLQ with the attempts of its first delivery, so with the defaults
  (`retry_max` 3, `dlq_max_retries` 5) it is dead after one failed retry.
- A `get()` that is cancelled calls `task_done()` for nothing; after a restart the real
  `task_done()` raises `ValueError`, the task ends and the bus stays marked as running.
- With `retry_max` above 3 the list of delays (`delivery.py:34`) is too short: the task
  ends with an `IndexError` and enqueues nothing.
- `dlq.py:507` calls the update of the attempts "atomic read-and-update"; it is two
  calls, and with two consumers the sorted sets may disagree.
- `dlq_routes.py:250-256` does not look at the result of `replay()`: replaying an
  entry that is not dead is answered as a success.
- `verify_signature` uses the raw secret while the sender derives a key from it.

*Sessions, tokens, keys.*
- `sessions/manager.py:36-41` has the blacklist "so that revoking a session also
  invalidates the token". The entry lasts as long as the session would have
  (`manager.py:113-120`, an hour if it has no expiry), so a token that lives longer is
  accepted again after it; without a callback (`manager.py:112`) nothing is blacklisted.
  A session that `create()` evicts or the cleanup ends leaves its token valid, and a
  refresh during a revocation gives the session time that the entry does not cover.
- `RedisPool` makes its client without `decode_responses`, so a `RedisSessionBackend`
  given such a pool reads bytes and `get_session` raises `KeyError`.
- `revoke()` with less than a second left passes a TTL of 0 to the blacklist, which
  Redis refuses, and so returns False.
- A refresh token carries no scopes and no binding, so `rotate_tokens` without its
  `scopes` argument issues an access token without any (`jwt_auth/tokens.py:363`).
- Introspection does not look at blacklisted families. The `is_active` of a stored key
  (`jwt_auth/storage.py`) is never read, and tokens have no `kid`.
- `rotate_api_key` promises "create new with same params" (`admin/router.py:267`), but
  the new key has no `ttl_days`, and is created also when `revoke_key` returned False.
- A lapsed key record is written back without a time to live
  (`api_keys/storage.py:143-145`) and stays in Redis for good.

*Pools and rotation.*
- `acquire()` that times out or fails its check leaks its slot.
- A cluster given `startup_nodes` and reloaded with a URL goes back to the nodes at the
  next reconnection.
- `AI.md:127` calls `reload_url()` and `reload_dsn()` atomic; both have awaits between
  recording the new address and replacing the client.
- The specification of secret rotation says "Credential unchanged -- no rotation event
  emitted"; the event is emitted by every rotation. `fail_closed` does not prevent the
  next resolution. `stop()` of the scheduler does not await its task.
- A store that took `get_redis_client()` keeps the old client after a reload.

*Limits and lists.*
- A span of nearly a window still admits nearly twice the limit
  (`rate_limit/backends.py:106`): the estimate assumes requests spread evenly.
- A violation counted while a ban is in force may replace a longer ban of a trap by a
  shorter one. Violations in memory never decay by themselves and survive an unban.
- With Redis, the configured allow and block lists (`config.py:443,447`: "always
  allowed", "always blocked") are never loaded (`shield.py:781-804`). `README.md:145,176`
  use `ip_access=` for a field named `ip_control`.
- A proxy that the socket reports as `::ffff:x.x.x.x` is not recognised as trusted
  (`core/ip.py:80`). `account_protection` and `sanitize` call `get_client_ip` without the
  trusted proxies, CSRF takes the peer.
- A failed login over a non-JSON response loses its body; a JSON array raises.
  `enumeration_detection_enabled` is never consulted.
- The end of one feed's key unblocks an address that another feed still tracks (against
  `openspec/specs/threat-intel-feeds/spec.md:65`); a purge that races a sync can leave
  an address blocked until the process ends, and then abandoned; the in-memory block
  list of the feeds is not the middleware's.

*Logins.*
- `verify_recovery_code` leaves saving to the caller; two saves may restore a used code.
  A TOTP code is accepted again within its window.
- The OAuth state is not tied to the provider of the route, and the store is per process:
  with several workers a callback may meet the wrong one.
- With a caller that passes the challenge it kept, a passkey response is accepted again
  after the store's challenge has expired or was used (`challenges.py:6-7`); overlapping
  writes may lower the sign count. One challenge per user serves registration and
  authentication.
- `csrf/tokens.py:124` writes `HttpOnly=False`, which browsers take as `HttpOnly`.

*Requests, log, WAF, shutdown.*
- `headers/middleware.py:3` "Automatically injects security headers into every response":
  an exception of the handler or of a layer inside passes `call_next` (`:137`), and the
  response of status 500 that the server makes outside of all layers has none.
- `sanitize/filters.py:97-118` searches a value for SQL before its tags are stripped, and
  the prompt scan has run before that: what only the stripping puts together is searched
  by neither. `strip_xss` takes markup only; other text the patterns know stays.
- The malware middleware consumes a multipart body although its docstring says "Files are
  **not consumed**". Rejections of the CORS layer have no security headers. The order of
  the layers in `AI.md:117` and `README.md:414` differs from the code's.
- GraphQL fragments that follow the operation are not costed.
- `add_role` leaves the caches of heirs as they were.
- Restarts and rotations make `verify_integrity` report genuine logs
  (`config.py:386-392`); the removal of the last lines is not noticed;
  `log_backup_count=0` keeps one backup.
- boto3 returns `LockToken` beside `IPSet`, the code reads it inside. Bus events wait
  while an AWS call runs.
- `AI.md:290-295` says that `shutdown()` stops delivery tasks; nothing stops or awaits
  them. Feeds are stopped last and emit into a stopped bus. A constructor that refuses a
  DLQ without Redis leaves the bus running, and construction needs a running event loop
  when a background feature is on, unlike the module-level example `README.md:42`.

## 6. Not modelled, and the plan

Not modelled:

- Text and formats: patterns and scores of `sanitize`, `prompt_injection`, `xxe`,
  `malware`, query validation of `db_security`, parsing of feeds and of GraphQL, COSE and
  attestation formats, TOTP's HMAC. They are functions of one input without state; a model
  would restate them. What the layers do with their verdicts is in `RequestPipeline`.
- Cryptography: signatures, hashes and encryption hold in the models by construction.
- The in-memory twins of backends whose calls do not await, where the module says so.
- Read-only endpoints, metrics, tracing, the command line, the documentation routes.
- External systems beyond what the code relies on: Redis evicting keys, AWS WAF quotas,
  OAuth providers that break their protocol.
- JWKS rotation, `refresh_access_token` and the signed state helpers of `oauth/flow.py`
  (no caller), recursive GraphQL fragments, dry runs of the WAF.

Plan:

1. `WebhookPipeline`: composes bus, deliveries and DLQ up to the end of the process, with
   the abstract promise "delivered, in the DLQ, or counted as lost", and its proof from
   the invariants of the three.
2. Liveness of the background loops: a failed reconnection is tried again, an expired
   indicator is removed.

## 7. How to run

    tlc -workers 2 -config WebhookDLQ_safety.cfg MCWebhookDLQ.tla
    tlapm WebhookDLQ_proofs.tla

and likewise for the other runs and proof modules in `PROJECT.json`. No run takes more
than three minutes, no proof module more than fifteen.
