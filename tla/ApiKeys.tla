-------------------------------- MODULE ApiKeys --------------------------------
(***************************************************************************)
(* API keys: APIKeyManager (src/araxys/api_keys/manager.py) over           *)
(* RedisAPIKeyStorage (src/araxys/api_keys/storage.py), with the endpoint  *)
(* that rotates a key (src/araxys/admin/router.py).                        *)
(*                                                                         *)
(* Redis holds one record under each 8-character prefix, always written as *)
(* a whole: SET, which also takes away the key's time to live, and then    *)
(* EXPIRE.  Each of them is a step, and so is each GET.  Of the clock only *)
(* the stretch before a key's expires_at matters: "last" is its last       *)
(* second, in which the remaining whole seconds are zero.                  *)
(***************************************************************************)
EXTENDS Integers

CONSTANTS
    Calls,       \* concurrent calls
    Prefixes,    \* the prefixes token_urlsafe() can yield
    NoPrefix,    \* the prefix of a key that has not been created
    MaxKeys      \* bound on the keys created

ASSUME KeyAssumption ==
    /\ NoPrefix \notin Prefixes
    /\ MaxKeys \in Nat

VARIABLES
    created,     \* keys created so far; a key is its number
    prefix,      \* its first 8 characters
    life,        \* how its expires_at stands: unlimited, fresh, last, expired
    record,      \* what Redis holds under a prefix
    timer,       \* the key whose expires_at set that record's time to live
    stage,       \* what a call does next
    doing,       \* what it is about
    copy,        \* the record it has in hand
    \* history
    revoked,     \* keys that a revocation has written as inactive
    quiet        \* those of them that no other call was about to write back

keyStore == <<created, prefix, life, record, timer>>
keyCalls == <<stage, doing, copy>>
keyVars == <<keyStore, keyCalls, revoked, quiet>>

Keys == 1..MaxKeys
Record == [key: 0..MaxKeys, active: BOOLEAN]
NoRecord == [key |-> 0, active |-> FALSE]
Inactive(rec) == [rec EXCEPT !.active = FALSE]

KeyTypeOK ==
    /\ created \in 0..MaxKeys
    /\ prefix \in [Keys -> Prefixes \cup {NoPrefix}]
    /\ life \in [Keys -> {"unlimited", "fresh", "last", "expired"}]
    /\ record \in [Prefixes -> Record]
    /\ timer \in [Prefixes -> 0..MaxKeys]
    /\ \A p \in Prefixes : record[p].key = 0 => ~record[p].active
    /\ stage \in [Calls -> {"idle", "get", "store", "expire", "create"}]
    /\ doing \in [Calls -> {"none", "create", "verify", "refuse", "revoke",
                            "rotate"}]
    /\ copy \in [Calls -> Record]
    /\ \A c \in Calls : /\ stage[c] \in {"get", "store", "expire"} =>
                               copy[c].key \in 1..created
                        /\ stage[c] = "store" /\ copy[c].active =>
                               doing[c] = "verify"
    /\ revoked \in SUBSET Keys
    /\ quiet \in SUBSET revoked

KeyInit ==
    /\ created = 0
    /\ prefix = [k \in Keys |-> NoPrefix]
    /\ life = [k \in Keys |-> "unlimited"]
    /\ record = [p \in Prefixes |-> NoRecord]
    /\ timer = [p \in Prefixes |-> 0]
    /\ stage = [c \in Calls |-> "idle"]
    /\ doing = [c \in Calls |-> "none"]
    /\ copy = [c \in Calls |-> NoRecord]
    /\ revoked = {}
    /\ quiet = {}

-----------------------------------------------------------------------------
(* Time *)

Ages(k) ==
    /\ k \in 1..created
    /\ life[k] \in {"fresh", "last"}
    /\ life' = [life EXCEPT ![k] = IF life[k] = "fresh" THEN "last" ELSE "expired"]
    /\ UNCHANGED <<created, prefix, record, timer, keyCalls, revoked, quiet>>

\* A time to live of whole seconds runs out in the last second or after it.
Vanishes(p) ==
    /\ timer[p] # 0
    /\ life[timer[p]] \in {"last", "expired"}
    /\ record' = [record EXCEPT ![p] = NoRecord]
    /\ timer' = [timer EXCEPT ![p] = 0]
    /\ UNCHANGED <<created, prefix, life, keyCalls, revoked, quiet>>

-----------------------------------------------------------------------------
(* Calls *)

Proceed(c, to, what, rec) ==
    /\ stage' = [stage EXCEPT ![c] = to]
    /\ doing' = [doing EXCEPT ![c] = what]
    /\ copy' = [copy EXCEPT ![c] = rec]

\* SET: it replaces whatever is there and takes its time to live away.
SetRecord(p, rec) ==
    /\ record' = [record EXCEPT ![p] = rec]
    /\ timer' = [timer EXCEPT ![p] = 0]

\* create_key: a new key, with or without a ttl, and the SET of its record.
NewKey(c, p, term) ==
    /\ created < MaxKeys
    /\ created' = created + 1
    /\ prefix' = [prefix EXCEPT ![created + 1] = p]
    /\ life' = [life EXCEPT ![created + 1] = term]
    /\ SetRecord(p, [key |-> created + 1, active |-> TRUE])
    /\ Proceed(c, "expire", "create", [key |-> created + 1, active |-> TRUE])
    /\ UNCHANGED <<revoked, quiet>>

CreateKey(c, p, term) ==
    /\ stage[c] = "idle"
    /\ term \in {"unlimited", "fresh"}
    /\ NewKey(c, p, term)

\* Mutant: the comparison the wrong way round.
Lapsed_Inverted(p) == record[p].key # 0 /\ life[record[p].key] = "fresh"

\* get_by_prefix finds a record whose expires_at has passed; it writes it back
\* as inactive and returns None.
Lapsed(p) == record[p].key # 0 /\ life[record[p].key] = "expired"

GetLapsed(c, p) ==
    /\ stage[c] = "idle"
    /\ Lapsed(p)
    /\ Proceed(c, "store", "refuse", Inactive(record[p]))
    /\ UNCHANGED <<keyStore, revoked, quiet>>

\* Usable: what else get_by_prefix returns.
Usable(p) == record[p].active /\ ~Lapsed(p)

\* verify_key: the record is this key's and in order. The audit entry is
\* awaited before the record is written back with a new last_used_at.
VerifyGet(c, k) ==
    /\ stage[c] = "idle"
    /\ k \in 1..created
    /\ Usable(prefix[k])
    /\ record[prefix[k]].key = k
    /\ Proceed(c, "store", "verify", record[prefix[k]])
    /\ UNCHANGED <<keyStore, revoked, quiet>>

\* Mutant: model_copy without the update.
RevokeGet_Unchanged(c, p) ==
    /\ stage[c] = "idle"
    /\ Usable(p)
    /\ Proceed(c, "store", "revoke", record[p])
    /\ UNCHANGED <<keyStore, revoked, quiet>>

\* revoke: a record that is missing, inactive or lapsed is not revoked.
RevokeGet(c, p) ==
    /\ stage[c] = "idle"
    /\ Usable(p)
    /\ Proceed(c, "store", "revoke", Inactive(record[p]))
    /\ UNCHANGED <<keyStore, revoked, quiet>>

\* rotate_api_key: list_keys has found the key, revoke_key begins.
RotateList(c, p) ==
    /\ stage[c] = "idle"
    /\ record[p].active
    /\ Proceed(c, "get", "rotate", record[p])
    /\ UNCHANGED <<keyStore, revoked, quiet>>

\* revoke_key: an active record is written back as inactive, and so is, by
\* get_by_prefix, any lapsed one. Its answer is not looked at.
RotateGet(c) ==
    /\ stage[c] = "get"
    /\ LET p == prefix[copy[c].key] IN
       IF record[p].active \/ Lapsed(p)
       THEN Proceed(c, "store", "rotate", Inactive(record[p]))
       ELSE Proceed(c, "create", "rotate", NoRecord)
    /\ UNCHANGED <<keyStore, revoked, quiet>>

RotateCreate(c, p) ==
    /\ stage[c] = "create"
    /\ NewKey(c, p, "unlimited")

Active(k) == [key |-> k, active |-> TRUE]
AboutToWrite(k) == \E c \in Calls : stage[c] = "store" /\ copy[c] = Active(k)

Writes(c) ==
    /\ Proceed(c, "expire", doing[c], copy[c])
    /\ revoked' = revoked \cup {k \in {copy[c].key} :
                                 doing[c] \in {"revoke", "rotate"}}
    /\ quiet' = quiet \cup {k \in revoked' \cap {copy[c].key} :
                             ~copy[c].active /\ ~AboutToWrite(k)}
    /\ UNCHANGED <<created, prefix, life>>

\* Mutant: an error of the SET is swallowed.
StoreRecord_Swallows(c) ==
    /\ stage[c] = "store"
    /\ SetRecord(prefix[copy[c].key], copy[c]) \/ UNCHANGED <<record, timer>>
    /\ Writes(c)

\* store: the SET of the record in hand.
StoreRecord(c) ==
    /\ stage[c] = "store"
    /\ SetRecord(prefix[copy[c].key], copy[c])
    /\ Writes(c)

\* store: the EXPIRE, if whole seconds remain. It is about whatever record is
\* there now.
StoreExpire(c) ==
    /\ stage[c] = "expire"
    /\ LET p == prefix[copy[c].key] IN
       timer' = IF life[copy[c].key] = "fresh" /\ record[p].key # 0
                THEN [timer EXCEPT ![p] = copy[c].key] ELSE timer
    /\ IF doing[c] = "rotate" THEN Proceed(c, "create", "rotate", NoRecord)
                              ELSE Proceed(c, "idle", "none", NoRecord)
    /\ UNCHANGED <<created, prefix, life, record, revoked, quiet>>

\* A Redis call or the audit raises, or the request is cancelled.
KeyCallBreaks(c) ==
    /\ stage[c] # "idle"
    /\ Proceed(c, "idle", "none", NoRecord)
    /\ UNCHANGED <<keyStore, revoked, quiet>>

-----------------------------------------------------------------------------
KeyCall(c) ==
    \/ \E k \in Keys : VerifyGet(c, k)
    \/ \E p \in Prefixes :
        \/ GetLapsed(c, p) \/ RevokeGet(c, p) \/ RotateList(c, p)
        \/ RotateCreate(c, p)
        \/ \E term \in {"unlimited", "fresh"} : CreateKey(c, p, term)
    \/ RotateGet(c) \/ StoreRecord(c) \/ StoreExpire(c) \/ KeyCallBreaks(c)

KeyNext ==
    \/ \E k \in Keys : Ages(k)
    \/ \E p \in Prefixes : Vanishes(p)
    \/ \E c \in Calls : KeyCall(c)

KeySpec == KeyInit /\ [][KeyNext]_keyVars

-----------------------------------------------------------------------------
(* Properties *)

\* A key that is revoked while no verification of it is under way is never
\* accepted again, whatever later verifications, rotations, expiries and keys
\* with the same prefix write.
RevokedStaysOut == \A k \in quiet, p \in Prefixes : record[p] # Active(k)

\* A key that nobody revokes and that has not expired stays valid: no write-
\* back, no time to live and no rotation of another key takes it away. (Keys
\* that share a prefix overwrite each other.)
Alone(k) == \A j \in 1..created : prefix[j] = prefix[k] => j = k
ValidKept ==
    \A k \in 1..created :
        k \notin revoked /\ life[k] \in {"unlimited", "fresh"} /\ Alone(k) =>
            record[prefix[k]] = Active(k)

\* A key is honoured exactly as its owner would wish, both ways.
KeysHonoured == RevokedStaysOut /\ ValidKept

\* "Revoke an API key. Returns True if the key was found and revoked": what
\* has been revoked is not active.
RevokedInactive == \A k \in revoked, p \in Prefixes : record[p] # Active(k)

=============================================================================
