----------------------------- MODULE RefreshTokens -----------------------------
(***************************************************************************)
(* The refresh tokens of one user: JWTManager                              *)
(* (src/araxys/jwt_auth/tokens.py) over RedisTokenStorage                  *)
(* (src/araxys/jwt_auth/storage.py).  A token is a signed claim that lives *)
(* until its exp; what the server keeps are Redis keys that blacklist a    *)
(* token or a token family for a number of seconds.                        *)
(*                                                                         *)
(* A step is what a call does between two awaits.  The clock has several   *)
(* ticks a second, since exp and the lifetimes of the keys are whole       *)
(* seconds and the calls are not.                                          *)
(***************************************************************************)
EXTENDS Integers

CONSTANTS
    Rotations,    \* concurrent calls of rotate_tokens, revoke_refresh_token
    Second,       \* ticks in a second
    RefreshTtl,   \* JWTConfig.refresh_token_ttl_days, in ticks
    Leeway,       \* JWTConfig.leeway_seconds, in ticks
    FamilyTtl,    \* the life of a blacklisted family, in ticks
    MaxTokens,    \* bound on the refresh tokens issued
    MaxTime       \* bound on the clock

ASSUME TokenAssumption ==
    /\ Second \in Nat \ {0}
    /\ RefreshTtl \in Nat \ {0}
    /\ RefreshTtl >= Second
    /\ Leeway \in Nat
    /\ FamilyTtl \in Nat \ {0}
    /\ MaxTokens \in Nat
    /\ MaxTime \in Nat

VARIABLES
    now,         \* the clock
    issued,      \* refresh tokens issued so far; a token is its number
    exp,         \* the exp claim of a token
    family,      \* its family claim; a family is named by its first token
    jtis,        \* when the key that blacklists a token expires, 0 if none
    families,    \* the same for the key that blacklists a family
    step,        \* what a call does next
    token,       \* the token it was given
    remaining,   \* the seconds it will blacklist that token for
    \* history
    parent,      \* the token a token was rotated from, 0 after a login
    spent,       \* tokens that have been rotated or revoked
    reused       \* tokens whose reuse has been detected and dealt with

store == <<jtis, families>>
claims == <<issued, exp, family, parent>>
call == <<step, token, remaining>>
tokenVars == <<now, claims, store, call, spent, reused>>

Tokens == 1..MaxTokens
MaxSeconds == RefreshTtl \div Second

TokenTypeOK ==
    /\ now \in 0..MaxTime
    /\ issued \in 0..MaxTokens
    /\ exp \in [Tokens -> Nat]
    /\ family \in [Tokens -> 0..MaxTokens]
    /\ jtis \in [Tokens -> Nat]
    /\ families \in [Tokens -> Nat]
    /\ step \in [Rotations -> {"idle", "family", "claim", "issue", "reuse",
                               "revoke"}]
    /\ token \in [Rotations -> 0..MaxTokens]
    /\ remaining \in [Rotations -> Nat]
    /\ \A r \in Rotations : step[r] \in {"claim", "revoke"} =>
                                remaining[r] \in 1..MaxSeconds
    /\ parent \in [Tokens -> 0..MaxTokens]
    /\ spent \in SUBSET Tokens
    /\ reused \in SUBSET Tokens

TokenInit ==
    /\ now = 0
    /\ issued = 0
    /\ exp = [t \in Tokens |-> 0]
    /\ family = [t \in Tokens |-> 0]
    /\ jtis = [t \in Tokens |-> 0]
    /\ families = [t \in Tokens |-> 0]
    /\ step = [r \in Rotations |-> "idle"]
    /\ token = [r \in Rotations |-> 0]
    /\ remaining = [r \in Rotations |-> 0]
    /\ parent = [t \in Tokens |-> 0]
    /\ spent = {}
    /\ reused = {}

-----------------------------------------------------------------------------
\* The clock ticks; a Redis key whose time is over is gone.
KeysAt(time, keys) ==
    [t \in Tokens |-> IF keys[t] <= time THEN 0 ELSE keys[t]]

Tick ==
    /\ now < MaxTime
    /\ now' = now + 1
    /\ jtis' = KeysAt(now + 1, jtis)
    /\ families' = KeysAt(now + 1, families)
    /\ UNCHANGED <<claims, call, spent, reused>>

\* create_token_pair: exp is cut to a whole second, and every refresh token
\* gets a family of its own.
Issue(of) ==
    /\ issued < MaxTokens
    /\ issued' = issued + 1
    /\ exp' = [exp EXCEPT ![issued + 1] = Second * ((now + RefreshTtl) \div Second)]
    /\ family' = [family EXCEPT ![issued + 1] = issued + 1]
    /\ parent' = [parent EXCEPT ![issued + 1] = of]

Login ==
    /\ Issue(0)
    /\ UNCHANGED <<now, store, call, spent, reused>>

\* decode_token accepts a token.
Decodes(t) == t \in 1..issued /\ now < exp[t] + Leeway

\* Mutant: no minimum of one second; Redis refuses a life of zero.
SecondsLeft_Zero(t) == (exp[t] - now) \div Second

\* The life of a blacklist entry: the remaining seconds, rounded down, and one
\* second at least.
SecondsLeft(t) ==
    IF exp[t] - now < Second THEN 1 ELSE (exp[t] - now) \div Second

Return(r) ==
    /\ step' = [step EXCEPT ![r] = "idle"]
    /\ token' = [token EXCEPT ![r] = 0]
    /\ remaining' = [remaining EXCEPT ![r] = 0]

-----------------------------------------------------------------------------
(* rotate_tokens *)

\* The token is decoded, and its family's key looked up.
RotateDecode(r, t) ==
    /\ step[r] = "idle"
    /\ Decodes(t)
    /\ step' = [step EXCEPT ![r] = "family"]
    /\ token' = [token EXCEPT ![r] = t]
    /\ UNCHANGED <<now, claims, store, remaining, spent, reused>>

\* is_family_blacklisted has answered: TokenRevoked, or go on.
FamilyRevoked(r) ==
    /\ step[r] = "family"
    /\ families[family[token[r]]] # 0
    /\ Return(r)
    /\ UNCHANGED <<now, claims, store, spent, reused>>

FamilyFine(r) ==
    /\ step[r] = "family"
    /\ families[family[token[r]]] = 0
    /\ step' = [step EXCEPT ![r] = "claim"]
    /\ remaining' = [remaining EXCEPT ![r] = SecondsLeft(token[r])]
    /\ UNCHANGED <<now, claims, store, token, spent, reused>>

Blacklisted(r) ==
    jtis' = [jtis EXCEPT ![token[r]] = now + Second * remaining[r]]

\* Mutant: a SET without NX.
Claim_Overwrites(r) ==
    /\ step[r] = "claim"
    /\ Blacklisted(r)
    /\ step' = [step EXCEPT ![r] = "issue"]
    /\ spent' = spent \cup {token[r]}
    /\ UNCHANGED <<now, claims, families, token, remaining, reused>>

\* try_blacklist_jti, a SET NX EX, has set the key.
Claim(r) ==
    /\ step[r] = "claim"
    /\ jtis[token[r]] = 0
    /\ Blacklisted(r)
    /\ step' = [step EXCEPT ![r] = "issue"]
    /\ spent' = spent \cup {token[r]}
    /\ UNCHANGED <<now, claims, families, token, remaining, reused>>

Rotate(r) ==
    /\ step[r] = "issue"
    /\ Issue(token[r])
    /\ Return(r)
    /\ UNCHANGED <<now, store, spent, reused>>

\* try_blacklist_jti has found the key: the audit entry is awaited first.
ReuseDetected(r) ==
    /\ step[r] = "claim"
    /\ jtis[token[r]] # 0
    /\ step' = [step EXCEPT ![r] = "reuse"]
    /\ UNCHANGED <<now, claims, store, token, remaining, spent, reused>>

\* blacklist_family, then TokenRevoked.
BlacklistFamily(r) ==
    /\ step[r] = "reuse"
    /\ families' = [families EXCEPT ![family[token[r]]] = now + FamilyTtl]
    /\ reused' = reused \cup {token[r]}
    /\ Return(r)
    /\ UNCHANGED <<now, claims, jtis, spent>>

-----------------------------------------------------------------------------
(* revoke_refresh_token *)

RevokeDecode(r, t) ==
    /\ step[r] = "idle"
    /\ Decodes(t)
    /\ step' = [step EXCEPT ![r] = "revoke"]
    /\ token' = [token EXCEPT ![r] = t]
    /\ remaining' = [remaining EXCEPT ![r] = SecondsLeft(t)]
    /\ UNCHANGED <<now, claims, store, spent, reused>>

\* blacklist_jti, a SETEX.
Revoke(r) ==
    /\ step[r] = "revoke"
    /\ Blacklisted(r)
    /\ spent' = spent \cup {token[r]}
    /\ Return(r)
    /\ UNCHANGED <<now, claims, families, reused>>

\* A Redis call or the audit raises, or the request is cancelled.
Breaks(r) ==
    /\ step[r] # "idle"
    /\ Return(r)
    /\ UNCHANGED <<now, claims, store, spent, reused>>

-----------------------------------------------------------------------------
RotationStep(r) ==
    \/ \E t \in Tokens : RotateDecode(r, t) \/ RevokeDecode(r, t)
    \/ FamilyRevoked(r) \/ FamilyFine(r) \/ Claim(r) \/ Rotate(r)
    \/ ReuseDetected(r) \/ BlacklistFamily(r) \/ Revoke(r) \/ Breaks(r)

TokenNext == Tick \/ Login \/ \E r \in Rotations : RotationStep(r)

TokenSpec == TokenInit /\ [][TokenNext]_tokenVars

-----------------------------------------------------------------------------
(* Properties *)

\* A refresh token that has been rotated or revoked is never rotated again, in
\* any order of the awaits of concurrent calls -- up to the last second before
\* its exp. In that second, and in the leeway after it, the blacklist entry may
\* already have expired while the token is still accepted.
SpentForGood ==
    [][\A r \in Rotations :
        step[r] = "claim" /\ step'[r] = "issue" =>
            \/ token[r] \notin spent
            \/ now + Second > exp[token[r]]]_tokenVars

\* "Revoke all tokens in a refresh token family (theft detection)": once the
\* reuse of a token has been dealt with, what was issued from it is refused.
Rotatable(t) == Decodes(t) /\ jtis[t] = 0 /\ families[family[t]] = 0
DescendantsRevoked ==
    \A t \in Tokens : parent[t] \in reused => ~Rotatable(t)

=============================================================================
