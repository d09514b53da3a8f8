------------------------------- MODULE BruteForce -------------------------------
(***************************************************************************)
(* Brute-force protection: BruteForceMiddleware and its two backends       *)
(* (src/araxys/brute_force/limiter.py), for the concurrent login requests  *)
(* that name one identifier.                                               *)
(*                                                                         *)
(* Every call of the backend, the progressive delay and the handler end a  *)
(* step.  Over InMemoryBruteForceBackend calls do not suspend: its         *)
(* behaviours are among these, but that each failure renews the life of    *)
(* the counter.                                                            *)
(***************************************************************************)
EXTENDS Integers, FiniteSets

CONSTANTS
    Logins,       \* concurrent login requests
    MaxAttempts,  \* max_attempts
    LockoutTime,  \* lockout_duration_seconds
    AttemptTtl,   \* attempt_ttl_seconds
    MaxFailures   \* bound on the failures counted

ASSUME BruteForceAssumption ==
    /\ IsFiniteSet(Logins) /\ Logins # {}
    /\ {MaxAttempts, LockoutTime, AttemptTtl, MaxFailures} \subseteq Nat \ {0}

VARIABLES
    inMemory,     \* the backend
    attempts,     \* the counter of failed attempts
    attemptsTtl,  \* its time to live; 0 is no key
    lockout,      \* the time to live of the lockout; 0 is none
    login,        \* what a request does next
    \* history
    lapsed,       \* since attempts began, a lockout ended or was not set
    late          \* attempts made under the lockout in force

guard == <<attempts, attemptsTtl, lockout>>
bruteVars == <<inMemory, guard, login, lapsed, late>>

BruteTypeOK ==
    /\ inMemory \in BOOLEAN
    /\ attempts \in 0..MaxFailures
    /\ attemptsTtl \in 0..AttemptTtl
    /\ attempts = 0 <=> attemptsTtl = 0
    /\ lockout \in 0..LockoutTime
    /\ login \in [Logins -> {"idle", "check", "delay", "handler", "record",
                             "lock", "reset"}]
    /\ lapsed \in BOOLEAN
    /\ late \in Nat

BruteInit ==
    /\ inMemory \in BOOLEAN
    /\ attempts = 0
    /\ attemptsTtl = 0
    /\ lockout = 0
    /\ login = [l \in Logins |-> "idle"]
    /\ lapsed = FALSE
    /\ late = 0

Unlocks == late' = 0 /\ lapsed' = (attempts' > 0)

\* A second: Redis, or the time stamps of the dictionaries, end both keys.
BruteTick ==
    /\ attemptsTtl' = IF attemptsTtl = 0 THEN 0 ELSE attemptsTtl - 1
    /\ attempts' = IF attemptsTtl <= 1 THEN 0 ELSE attempts
    /\ lockout' = IF lockout = 0 THEN 0 ELSE lockout - 1
    /\ IF lockout = 1 THEN Unlocks
       ELSE /\ lapsed' = (lapsed /\ attempts' > 0)
            /\ UNCHANGED late
    /\ UNCHANGED <<inMemory, login>>

Advances(l, from, to) ==
    /\ login[l] = from
    /\ login' = [login EXCEPT ![l] = to]

\* The body names the identifier; a request without it is not tracked.
Submit(l) ==
    /\ Advances(l, "idle", "check")
    /\ UNCHANGED <<inMemory, guard, lapsed, late>>

\* The mutant asks for the delay alone.
CheckLockout_Delays(l) ==
    /\ \/ Advances(l, "check", "handler")
       \/ attempts > 0 /\ Advances(l, "check", "delay")
    /\ UNCHANGED <<inMemory, guard, lapsed, late>>

\* With progressive_delay, a request with failures before it sleeps next.
CheckLockout(l) ==
    /\ \/ lockout > 0 /\ Advances(l, "check", "idle")
       \/ lockout = 0 /\ Advances(l, "check", "handler")
       \/ lockout = 0 /\ attempts > 0 /\ Advances(l, "check", "delay")
    /\ UNCHANGED <<inMemory, guard, lapsed, late>>

\* The lockout is not looked at again after the sleep.
Wake(l) ==
    /\ Advances(l, "delay", "handler")
    /\ UNCHANGED <<inMemory, guard, lapsed, late>>

\* 401, a status below 300, or neither.
Attempt(l) ==
    /\ \E next \in {"record", "reset", "idle"} : Advances(l, "handler", next)
    /\ late' = IF lockout > 0 THEN late + 1 ELSE late
    /\ UNCHANGED <<inMemory, guard, lapsed>>

\* The mutant locks one attempt too late.
RecordAttempt_Late(l) ==
    /\ attempts < MaxFailures
    /\ attempts' = attempts + 1
    /\ attemptsTtl' = IF attempts = 0 \/ inMemory THEN AttemptTtl ELSE attemptsTtl
    /\ Advances(l, "record", IF attempts + 1 > MaxAttempts THEN "lock" ELSE "idle")
    /\ UNCHANGED <<inMemory, lockout, lapsed, late>>

\* record_attempt(): INCR, and EXPIRE with NX.
RecordAttempt(l) ==
    /\ attempts < MaxFailures
    /\ attempts' = attempts + 1
    /\ attemptsTtl' = IF attempts = 0 \/ inMemory THEN AttemptTtl ELSE attemptsTtl
    /\ Advances(l, "record", IF attempts + 1 >= MaxAttempts THEN "lock" ELSE "idle")
    /\ UNCHANGED <<inMemory, lockout, lapsed, late>>

SetLockout(l) ==
    /\ Advances(l, "lock", "idle")
    /\ lockout' = LockoutTime
    /\ UNCHANGED <<inMemory, attempts, attemptsTtl, lapsed, late>>

\* A success forgets the failures and unlocks.
Reset(l) ==
    /\ Advances(l, "reset", "idle")
    /\ attempts' = 0
    /\ attemptsTtl' = 0
    /\ lockout' = 0
    /\ Unlocks
    /\ UNCHANGED inMemory

\* The request is cancelled or its backend fails before the next call.
AbandonLogin(l) ==
    /\ login[l] # "idle"
    /\ login' = [login EXCEPT ![l] = "idle"]
    /\ lapsed' = (lapsed \/ (login[l] = "lock" /\ attempts > 0))
    /\ UNCHANGED <<inMemory, guard, late>>

LoginStep(l) ==
    \/ Submit(l) \/ CheckLockout(l) \/ Wake(l) \/ Attempt(l)
    \/ RecordAttempt(l) \/ SetLockout(l) \/ Reset(l) \/ AbandonLogin(l)

BruteNext == BruteTick \/ \E l \in Logins : LoginStep(l)

BruteSpec == BruteInit /\ [][BruteNext]_bruteVars

-----------------------------------------------------------------------------
(* Properties *)

\* From the max_attempts-th failure on, the identifier is locked, or the
\* request that failed is about to lock it; it takes the end of a lockout, or
\* a request abandoned in between, for the failures to stand without a lock.
LockedOnceOver ==
    attempts >= MaxAttempts =>
        lockout > 0 \/ lapsed \/ \E l \in Logins : login[l] = "lock"

\* Under a lockout only requests that were let in before it, asleep in the
\* progressive delay or in the handler, still try a password, each once.
FewGuessesUnderLockout == late <= Cardinality(Logins) - 1

\* The lockout under overlapping logins.
LockoutHolds == LockedOnceOver /\ FewGuessesUnderLockout

=============================================================================
