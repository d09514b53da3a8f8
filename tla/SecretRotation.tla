---------------------------- MODULE SecretRotation ----------------------------
(***************************************************************************)
(* Rotation of database credentials: SecretsRotationScheduler              *)
(* (src/araxys/db_security/rotation.py), the chain of resolvers            *)
(* (secrets.py), DatabaseSecurityManager (manager.py) and the PostgreSQL   *)
(* pool that reload_dsn() replaces (pg_pool.py).                           *)
(*                                                                         *)
(* Two workers rotate: the background loop and an operator's request,      *)
(* POST /secrets/rotate.  Requests meanwhile hold connections of the       *)
(* PostgreSQL pool.  The reload of a Redis pool is one step here; module   *)
(* RedisPools has its interleavings.  Every await is the end of a step.    *)
(***************************************************************************)
EXTENDS Integers, Sequences

CONSTANTS
    Secrets,     \* connection strings
    None,        \* what a resolver returns when it finds nothing
    Redis,       \* the target of the Redis pool
    Postgres,    \* the target of the PostgreSQL pool
    FailClosed,  \* fail_closed
    DbCalls,     \* requests that use the PostgreSQL pool
    MaxPools     \* bound on the asyncpg pools created

ASSUME RotationAssumption ==
    /\ None \notin Secrets
    /\ Redis # Postgres
    /\ FailClosed \in BOOLEAN
    /\ MaxPools \in Nat \ {0}

VARIABLES
    secret,      \* what the chain of resolvers finds for a target
    redisUrl,    \* the URL of the Redis pool
    dsn,         \* PGPool._dsn
    pgPool,      \* PGPool._pool: a number, 0 is None
    pools,       \* the DSN each asyncpg pool was created with
    openPools,   \* those that are not closed
    todo,        \* the targets a worker has not finished
    rotationStep,  \* what it does with the first of them
    newValue,    \* the credential it is about to install
    oldPool,     \* the asyncpg pool it is about to close
    borrowed,    \* the asyncpg pool whose connection a request holds, or 0
    byHand,      \* the requests that hold it by acquire(), not by fetch()
    stranded,    \* pools with a connection that never comes back
    cancelled,   \* a failure under fail_closed cancelled the loop
    lifecycle,   \* of AraxysShield.shutdown()
    \* history
    orphaned,    \* pools that were replaced while another worker replaced them
    halfSwapped  \* a DSN was recorded and its pool could not be created

pgVars == <<dsn, pgPool, pools, openPools, oldPool, orphaned, halfSwapped>>
callVars == <<borrowed, byHand, stranded>>
workVars == <<todo, rotationStep, newValue, cancelled>>
rotationVars == <<secret, redisUrl, pgVars, callVars, workVars, lifecycle>>

Rotators == {"loop", "operator"}
Targets == {Redis, Postgres}
Target(w) == Head(todo[w])

RotationTypeOK ==
    /\ secret \in [Targets -> Secrets \cup {None}]
    /\ redisUrl \in Secrets
    /\ dsn \in Secrets
    /\ pools \in Seq(Secrets)
    /\ pgPool \in 0..Len(pools)
    /\ openPools \subseteq 1..Len(pools)
    /\ oldPool \in [Rotators -> 0..Len(pools)]
    /\ borrowed \in [DbCalls -> 0..Len(pools)]
    /\ byHand \subseteq DbCalls
    /\ stranded \subseteq 1..Len(pools)
    /\ todo \in [Rotators -> Seq(Targets)]
    /\ rotationStep \in [Rotators -> {"idle", "resolve", "hand over", "reload", "try",
                             "create", "close", "ended"}]
    /\ \A w \in Rotators : todo[w] = <<>> <=> rotationStep[w] \in {"idle", "ended"}
    /\ newValue \in [Rotators -> Secrets \cup {None}]
    /\ cancelled \in {"no", "pending", "thrown"}
    /\ lifecycle \in {"up", "stopped", "closing", "down"}
    /\ orphaned \subseteq 1..Len(pools)
    /\ halfSwapped \in BOOLEAN

\* The loop rotates on start-up, without waiting for its interval.
RotationInit ==
    /\ secret \in [Targets -> Secrets]
    /\ redisUrl \in Secrets
    /\ dsn \in Secrets
    /\ pools = <<dsn>>
    /\ pgPool = 1
    /\ openPools = {1}
    /\ todo = [w \in Rotators |-> IF w = "loop" THEN <<Redis, Postgres>> ELSE <<>>]
    /\ rotationStep = [w \in Rotators |-> IF w = "loop" THEN "resolve" ELSE "idle"]
    /\ newValue = [w \in Rotators |-> None]
    /\ oldPool = [w \in Rotators |-> 0]
    /\ borrowed = [d \in DbCalls |-> 0]
    /\ byHand = {}
    /\ stranded = {}
    /\ cancelled = "no"
    /\ lifecycle = "up"
    /\ orphaned = {}
    /\ halfSwapped = FALSE

-----------------------------------------------------------------------------
(* What the steps share *)

RotatesTo(w, next) == rotationStep' = [rotationStep EXCEPT ![w] = next]

\* rotate_targets() goes on to the next target, whatever became of this one.
NextTarget(w) ==
    /\ todo' = [todo EXCEPT ![w] = Tail(@)]
    /\ RotatesTo(w, IF Len(todo[w]) > 1 THEN "resolve" ELSE "idle")
    /\ newValue' = [newValue EXCEPT ![w] = None]

Rotated(w) == NextTarget(w) /\ UNCHANGED cancelled

\* fail_closed cancels the task of the loop, whoever failed.  The loop itself
\* goes on until an await suspends it; an operator's failure finds it
\* suspended.
Failed(w) ==
    /\ NextTarget(w)
    /\ cancelled' = IF FailClosed
                    THEN IF w = "loop" THEN "pending" ELSE "thrown"
                    ELSE cancelled

\* What a cancelled loop no longer does: finish an await that suspends, or
\* anything at all.
Resumes(w) == w = "loop" => cancelled = "no"
Runs(w) == w = "loop" => cancelled # "thrown"

-----------------------------------------------------------------------------
(* The workers *)

\* Somebody changes a credential in the secret store, or the store fails:
\* the resolvers turn their exceptions into None.
StoreChanges(t) ==
    /\ \E s \in Secrets \cup {None} : secret' = [secret EXCEPT ![t] = s]
    /\ UNCHANGED <<redisUrl, pgVars, callVars, workVars, lifecycle>>

\* The interval is over.
LoopWakes ==
    /\ rotationStep["loop"] = "idle"
    /\ Resumes("loop")
    /\ todo' = [todo EXCEPT !["loop"] = <<Redis, Postgres>>]
    /\ RotatesTo("loop", "resolve")
    /\ UNCHANGED <<secret, redisUrl, pgVars, callVars, newValue, cancelled, lifecycle>>

\* An operator's request names its targets.
OperatorAsks ==
    /\ rotationStep["operator"] = "idle"
    /\ lifecycle = "up"
    /\ \E t \in Targets : todo' = [todo EXCEPT !["operator"] = <<t>>]
    /\ RotatesTo("operator", "resolve")
    /\ UNCHANGED <<secret, redisUrl, pgVars, callVars, newValue, cancelled, lifecycle>>

\* The scheduler resolves the secret only to skip a target that has none.
Resolve(w) ==
    /\ rotationStep[w] = "resolve"
    /\ Runs(w)
    /\ IF secret[Target(w)] = None
       THEN NextTarget(w)
       ELSE RotatesTo(w, "hand over") /\ UNCHANGED <<todo, newValue>>
    /\ UNCHANGED <<secret, redisUrl, pgVars, callVars, cancelled, lifecycle>>

\* The manager resolves it once more.  Nothing to install, or nothing new,
\* also counts as a rotation.
HandOver(w) ==
    LET value == secret[Target(w)]
        inUse == IF Target(w) = Postgres THEN dsn ELSE redisUrl IN
    /\ rotationStep[w] = "hand over"
    /\ Runs(w)
    /\ \/ /\ value \in {None, inUse}
          /\ Rotated(w)
       \/ /\ value \notin {None, inUse}
          /\ newValue' = [newValue EXCEPT ![w] = value]
          /\ RotatesTo(w, IF Target(w) = Postgres THEN "try" ELSE "reload")
          /\ UNCHANGED <<todo, cancelled>>
    /\ UNCHANGED <<secret, redisUrl, pgVars, callVars, lifecycle>>

ReloadRedis(w) ==
    /\ rotationStep[w] = "reload"
    /\ Resumes(w)
    /\ \/ redisUrl' = newValue[w] /\ Rotated(w)
       \/ Failed(w) /\ UNCHANGED redisUrl
    /\ UNCHANGED <<secret, pgVars, callVars, lifecycle>>

\* The mutant, like the comment on the swap, closes the old pool first.
TryDsn_ClosesFirst(w) ==
    /\ rotationStep[w] = "try"
    /\ Resumes(w)
    /\ \/ /\ oldPool' = [oldPool EXCEPT ![w] = pgPool]
          /\ dsn' = newValue[w]
          /\ openPools' = openPools \ {pgPool}
          /\ RotatesTo(w, "create")
          /\ UNCHANGED <<todo, newValue, cancelled>>
       \/ Failed(w) /\ UNCHANGED <<dsn, oldPool, openPools>>
    /\ UNCHANGED <<secret, redisUrl, pgPool, pools, orphaned, halfSwapped,
                   callVars, lifecycle>>

\* This mutant records the DSN whether or not it works.
TryDsn_RecordsFirst(w) ==
    /\ rotationStep[w] = "try"
    /\ Resumes(w)
    /\ dsn' = newValue[w]
    /\ \/ /\ oldPool' = [oldPool EXCEPT ![w] = pgPool]
          /\ RotatesTo(w, "create")
          /\ UNCHANGED <<todo, newValue, cancelled>>
       \/ Failed(w) /\ UNCHANGED oldPool
    /\ UNCHANGED <<secret, redisUrl, pgPool, pools, openPools, orphaned,
                   halfSwapped, callVars, lifecycle>>

\* SELECT 1 in a temporary pool.  Then the old pool is read and the DSN
\* recorded, before the new pool exists.
TryDsn(w) ==
    /\ rotationStep[w] = "try"
    /\ Resumes(w)
    /\ \/ /\ oldPool' = [oldPool EXCEPT ![w] = pgPool]
          /\ dsn' = newValue[w]
          /\ RotatesTo(w, "create")
          /\ UNCHANGED <<todo, newValue, cancelled>>
       \/ Failed(w) /\ UNCHANGED <<dsn, oldPool>>
    /\ UNCHANGED <<secret, redisUrl, pgPool, pools, openPools, orphaned,
                   halfSwapped, callVars, lifecycle>>

CreatePool(w) ==
    /\ rotationStep[w] = "create"
    /\ Resumes(w)
    /\ \/ /\ Len(pools) < MaxPools
          /\ pools' = Append(pools, newValue[w])
          /\ pgPool' = Len(pools) + 1
          /\ openPools' = openPools \cup {Len(pools) + 1}
          /\ orphaned' = IF pgPool = oldPool[w] THEN orphaned
                         ELSE orphaned \cup {pgPool}
          /\ RotatesTo(w, "close")
          /\ UNCHANGED <<oldPool, halfSwapped, todo, newValue, cancelled>>
       \/ /\ Failed(w)
          /\ halfSwapped' = TRUE
          /\ oldPool' = [oldPool EXCEPT ![w] = 0]
          /\ UNCHANGED <<pools, pgPool, openPools, orphaned>>
    /\ UNCHANGED <<secret, redisUrl, dsn, callVars, lifecycle>>

\* close() waits until every connection of the pool has been released.
ClosePool(w) ==
    /\ rotationStep[w] = "close"
    /\ Resumes(w)
    /\ oldPool[w] \notin stranded \cup {borrowed[d] : d \in DbCalls}
    /\ openPools' = openPools \ {oldPool[w]}
    /\ oldPool' = [oldPool EXCEPT ![w] = 0]
    /\ Rotated(w)
    /\ UNCHANGED <<secret, redisUrl, dsn, pgPool, pools, orphaned, halfSwapped,
                   callVars, lifecycle>>

\* CancelledError leaves the loop at its await; asyncpg terminates a pool
\* whose close() is cancelled.
LoopThrown ==
    /\ todo' = [todo EXCEPT !["loop"] = <<>>]
    /\ RotatesTo("loop", "ended")
    /\ newValue' = [newValue EXCEPT !["loop"] = None]
    /\ oldPool' = [oldPool EXCEPT !["loop"] = 0]
    /\ openPools' = IF rotationStep["loop"] = "close" THEN openPools \ {oldPool["loop"]}
                    ELSE openPools
    /\ halfSwapped' = (halfSwapped \/ rotationStep["loop"] = "create")
    /\ UNCHANGED <<secret, redisUrl, dsn, pgPool, pools, orphaned, callVars,
                   cancelled>>

LoopEnds ==
    /\ cancelled # "no"
    /\ rotationStep["loop"] # "ended"
    /\ Runs("loop") => rotationStep["loop"] \notin {"resolve", "hand over"}
    /\ LoopThrown
    /\ UNCHANGED lifecycle

WorkerStep(w) ==
    \/ Resolve(w) \/ HandOver(w) \/ ReloadRedis(w)
    \/ TryDsn(w) \/ CreatePool(w) \/ ClosePool(w)

-----------------------------------------------------------------------------
(* The requests: acquire() and release(), or fetch() and execute() *)

Borrow(d) ==
    /\ borrowed[d] = 0
    /\ lifecycle = "up" /\ pgPool \in openPools
    /\ borrowed' = [borrowed EXCEPT ![d] = pgPool]
    /\ \/ byHand' = byHand \cup {d}
       \/ byHand' = byHand \ {d}
    /\ UNCHANGED <<secret, redisUrl, pgVars, stranded, workVars, lifecycle>>

\* fetch() and execute() return the connection to the pool they took it from.
\* release() hands it to the pool of the moment, which refuses a connection
\* that is not its own.
GiveBack(d) ==
    /\ borrowed[d] # 0
    /\ stranded' = IF d \in byHand /\ borrowed[d] # pgPool
                   THEN stranded \cup {borrowed[d]} ELSE stranded
    /\ borrowed' = [borrowed EXCEPT ![d] = 0]
    /\ UNCHANGED <<secret, redisUrl, pgVars, byHand, workVars, lifecycle>>

-----------------------------------------------------------------------------
(* AraxysShield.shutdown(), which the server calls when no request is left *)

\* SecretsRotationScheduler.stop() cancels the loop.
StopScheduler ==
    /\ lifecycle = "up"
    /\ rotationStep["operator"] = "idle"
    /\ \A d \in DbCalls : borrowed[d] = 0
    /\ lifecycle' = "stopped"
    /\ LoopThrown

\* DatabaseSecurityManager.shutdown(): PGPool.shutdown() awaits the close of
\* the pool it found and then forgets whichever pool there is.
ShutdownPools ==
    /\ lifecycle = "stopped"
    /\ lifecycle' = "closing"
    /\ openPools' = openPools \ {pgPool}
    /\ UNCHANGED <<secret, redisUrl, dsn, pgPool, pools, oldPool, orphaned,
                   halfSwapped, callVars, workVars>>

ShutdownEnds ==
    /\ lifecycle = "closing"
    /\ lifecycle' = "down"
    /\ pgPool' = 0
    /\ UNCHANGED <<secret, redisUrl, dsn, pools, openPools, oldPool, orphaned,
                   halfSwapped, callVars, workVars>>

RotationNext ==
    \/ \E t \in Targets : StoreChanges(t)
    \/ LoopWakes \/ OperatorAsks \/ LoopEnds
    \/ \E w \in Rotators : WorkerStep(w)
    \/ \E d \in DbCalls : Borrow(d) \/ GiveBack(d)
    \/ StopScheduler \/ ShutdownPools \/ ShutdownEnds

RotationSpec == RotationInit /\ [][RotationNext]_rotationVars

\* Every await of a worker ends, and every request returns its connection.
FairRotationSpec ==
    /\ RotationSpec
    /\ \A w \in Rotators : WF_rotationVars(WorkerStep(w))
    /\ \A d \in DbCalls : WF_rotationVars(GiveBack(d))

-----------------------------------------------------------------------------
(* Properties *)

\* However the loop, an operator, failures and cancellations interleave, the
\* pool that acquire() uses is open until shutdown() closes it, and every
\* other pool is closed or is about to be; only pools that two workers
\* replaced at once are forgotten.  After shutdown() none is open.
PoolsAccounted ==
    /\ lifecycle \in {"up", "stopped"} => pgPool \in openPools
    /\ openPools \ orphaned \subseteq
           {pgPool} \cup {oldPool[w] : w \in {v \in Rotators :
                                               rotationStep[v] = "close"}}
    /\ lifecycle = "down" => openPools \subseteq orphaned

\* The DSN on record is the one the pool in use was created with, unless two
\* workers replaced it at once, or its pool could not be created: from then
\* on every rotation to that DSN is a success that installs nothing.
DsnIsLive ==
    \/ halfSwapped \/ orphaned # {}
    \/ \E w \in Rotators : rotationStep[w] = "create"
    \/ lifecycle = "down"
    \/ pools[pgPool] = dsn

\* What overlapping rotations, cancelled or not, leave of PGPool.
RotationConsistent == PoolsAccounted /\ DsnIsLive

\* "The existing pool is drained" (openspec/specs/pool-reload/spec.md:33): a
\* reload that waits for the old pool to close does not wait for ever, when
\* every request gives its connection back.
DrainEnds ==
    \A w \in Rotators : rotationStep[w] = "close" ~> rotationStep[w] # "close"

=============================================================================
