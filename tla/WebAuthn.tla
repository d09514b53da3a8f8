-------------------------------- MODULE WebAuthn --------------------------------
(***************************************************************************)
(* WebAuthn ceremonies of one user with one authenticator:                 *)
(* WebAuthnManager with its challenge and credential stores                *)
(* (src/araxys/webauthn/).  Every call of a store that Redis answers ends  *)
(* a step; the in-memory credential store hands out its own record, so its *)
(* callers see what others write to it.  (They are left with an old record *)
(* when a repeated registration's save() puts a new one in its place; here *)
(* they see that one.)                                                     *)
(*                                                                         *)
(* Parsing, signatures and attestation are left out: every response here   *)
(* is one the authenticator made.                                          *)
(***************************************************************************)
EXTENDS Integers, FiniteSets

CONSTANTS
    Ceremonies,      \* concurrent verifications
    MaxChallenges,   \* bound on the challenges issued
    ChallengeTtl,    \* _CHALLENGE_TTL
    MaxResponses     \* bound on the responses of the authenticator

ASSUME WebAuthnAssumption ==
    {MaxChallenges, ChallengeTtl, MaxResponses} \subseteq Nat \ {0}

VARIABLES
    setup,         \* the stores, the authenticator and the caller
    challenges,    \* the challenges issued are 1..challenges
    challenge,     \* the one in the challenge store, or 0
    challengeTtl,
    responses,     \* what the authenticator has signed
    signCount,     \* of the stored credential; NoCredential if there is none
    ceremony,      \* where a verification stands
    response,      \* the response it verifies
    kept,          \* the challenge its caller passes
    loaded,        \* the sign count it has read
    found,         \* the challenge it has found in the store
    \* history
    before,        \* what had been accepted when it began
    accepted,      \* responses accepted
    replayed,      \* those accepted by a call that began after an acceptance
    lowered        \* a write lowered the sign count

stores == <<challenge, challengeTtl, signCount>>
calls == <<ceremony, response, kept, loaded, found, before>>
webAuthnVars == <<setup, challenges, stores, responses, calls, accepted, replayed,
                  lowered>>

NoCredential == -1
NoResponse == [challenge |-> 0, count |-> 0, type |-> "none"]
Responses == [challenge : 1..MaxChallenges, count : 0..MaxResponses,
              type : {"create", "get"}]

WebAuthnTypeOK ==
    /\ challenges \in 0..MaxChallenges
    /\ challenge \in 0..challenges
    /\ challengeTtl \in 0..ChallengeTtl
    /\ challenge = 0 <=> challengeTtl = 0
    /\ responses \subseteq Responses
    /\ signCount \in {NoCredential} \cup 0..MaxResponses
    /\ ceremony \in [Ceremonies -> {"idle", "load", "challenge", "delete",
                                    "check", "save", "update"}]
    /\ \A c \in Ceremonies : response[c] \in responses \cup {NoResponse}
    /\ kept \in [Ceremonies -> 0..challenges]
    /\ loaded \in [Ceremonies -> {NoCredential} \cup 0..MaxResponses]
    /\ found \in [Ceremonies -> 0..challenges]
    /\ replayed \subseteq accepted /\ accepted \subseteq responses

\* counts: the authenticator supports sign counts.  keeps: the caller passes
\* the latest challenge it created, and not only what is in the store.
WebAuthnInit ==
    /\ setup \in [store : BOOLEAN, redis : BOOLEAN, counts : BOOLEAN, keeps : BOOLEAN]
    /\ challenges = 0
    /\ challenge = 0
    /\ challengeTtl = 0
    /\ responses = {}
    /\ signCount = NoCredential
    /\ ceremony = [c \in Ceremonies |-> "idle"]
    /\ response = [c \in Ceremonies |-> NoResponse]
    /\ kept = [c \in Ceremonies |-> 0]
    /\ loaded = [c \in Ceremonies |-> NoCredential]
    /\ found = [c \in Ceremonies |-> 0]
    /\ before = [c \in Ceremonies |-> {}]
    /\ accepted = {}
    /\ replayed = {}
    /\ lowered = FALSE

-----------------------------------------------------------------------------
(* Challenges and responses *)

\* Both kinds of ceremony keep one challenge per user; a new one replaces it.
CreateChallenge ==
    /\ challenges < MaxChallenges
    /\ challenges' = challenges + 1
    /\ IF setup.store
       THEN challenge' = challenges + 1 /\ challengeTtl' = ChallengeTtl
       ELSE UNCHANGED <<challenge, challengeTtl>>
    /\ UNCHANGED <<setup, responses, signCount, calls, accepted, replayed, lowered>>

\* The authenticator raises its counter with every signature, if it has one.
Sign ==
    /\ Cardinality(responses) < MaxResponses
    /\ \E n \in 1..challenges, type \in {"create", "get"} :
           responses' = responses \cup
               {[challenge |-> n, type |-> type,
                 count |-> IF setup.counts THEN Cardinality(responses) + 1 ELSE 0]}
    /\ UNCHANGED <<setup, challenges, stores, calls, accepted, replayed, lowered>>

ChallengeAges ==
    /\ challengeTtl > 0
    /\ challengeTtl' = challengeTtl - 1
    /\ challenge' = IF challengeTtl = 1 THEN 0 ELSE challenge
    /\ UNCHANGED <<setup, challenges, responses, signCount, calls, accepted, replayed,
                   lowered>>

-----------------------------------------------------------------------------
(* verify_registration() and verify_authentication() *)

At(c, next) == ceremony[c] = next
GoesTo(c, next) == ceremony' = [ceremony EXCEPT ![c] = next]

EndsCeremony(c) ==
    /\ GoesTo(c, "idle")
    /\ response' = [response EXCEPT ![c] = NoResponse]
    /\ kept' = [kept EXCEPT ![c] = 0]
    /\ loaded' = [loaded EXCEPT ![c] = NoCredential]
    /\ found' = [found EXCEPT ![c] = 0]
    /\ before' = [before EXCEPT ![c] = {}]

Verify(c, r) ==
    /\ At(c, "idle")
    /\ response' = [response EXCEPT ![c] = r]
    /\ kept' = [kept EXCEPT ![c] = IF setup.keeps THEN challenges ELSE 0]
    /\ before' = [before EXCEPT ![c] = accepted]
    /\ GoesTo(c, IF r.type = "create" THEN "challenge" ELSE "load")
    /\ UNCHANGED <<setup, challenges, stores, responses, loaded, found, accepted,
                   replayed, lowered>>

\* The credential, or "Credential not found".
LoadCredential(c) ==
    /\ At(c, "load")
    /\ IF signCount = NoCredential
       THEN EndsCeremony(c)
       ELSE /\ loaded' = [loaded EXCEPT ![c] = signCount]
            /\ GoesTo(c, "challenge")
            /\ UNCHANGED <<response, kept, found, before>>
    /\ UNCHANGED <<setup, challenges, stores, responses, accepted, replayed, lowered>>

\* A challenge that a registration does not match stays; one that an
\* authentication finds is deleted first and compared afterwards.
GetChallenge(c) ==
    LET matches == response[c].challenge = challenge IN
    /\ At(c, "challenge")
    /\ IF challenge # 0 /\ response[c].type = "create" /\ ~matches
       THEN EndsCeremony(c)
       ELSE /\ found' = [found EXCEPT ![c] = challenge]
            /\ GoesTo(c, IF challenge # 0 THEN "delete" ELSE "check")
            /\ UNCHANGED <<response, kept, loaded, before>>
    /\ UNCHANGED <<setup, challenges, stores, responses, accepted, replayed, lowered>>

DeleteChallenge(c) ==
    /\ At(c, "delete")
    /\ challenge' = 0
    /\ challengeTtl' = 0
    /\ GoesTo(c, "check")
    /\ UNCHANGED <<setup, challenges, signCount, responses, response, kept, loaded,
                   found, before, accepted, replayed, lowered>>

\* Without a stored challenge the caller's counts.
ChallengeMatches(c) ==
    response[c].challenge = IF found[c] # 0 THEN found[c] ELSE kept[c]

\* The in-memory store has handed out its own record.
Known(c) == IF setup.redis THEN loaded[c] ELSE signCount

\* The mutant takes an assertion whose count has not grown.
CountGrows_NotShrinks(c) == response[c].count >= Known(c)

\* Two zeros are an authenticator without sign counts.
CountGrows(c) ==
    \/ response[c].count = 0 /\ Known(c) = 0
    \/ response[c].count > Known(c)

Check(c) ==
    /\ At(c, "check")
    /\ IF ChallengeMatches(c) /\ (response[c].type = "get" => CountGrows(c))
       THEN /\ GoesTo(c, IF response[c].type = "get" THEN "update" ELSE "save")
            /\ signCount' = IF response[c].type = "get" /\ ~setup.redis
                            THEN response[c].count ELSE signCount
            /\ UNCHANGED <<response, kept, loaded, found, before>>
       ELSE EndsCeremony(c) /\ UNCHANGED signCount
    /\ UNCHANGED <<setup, challenges, challenge, challengeTtl, responses, accepted,
                   replayed, lowered>>

\* save() or update_sign_count(): whatever count is stored by now.
Store(c) ==
    LET r == response[c] IN
    /\ ceremony[c] \in {"save", "update"}
    /\ signCount' = r.count
    /\ lowered' = (lowered \/ r.count < signCount)
    /\ accepted' = accepted \cup {r}
    /\ replayed' = IF r \in before[c] THEN replayed \cup {r} ELSE replayed
    /\ EndsCeremony(c)
    /\ UNCHANGED <<setup, challenges, challenge, challengeTtl, responses>>

\* The request is cancelled, or a store fails.
AbandonCeremony(c) ==
    /\ ceremony[c] # "idle"
    /\ EndsCeremony(c)
    /\ UNCHANGED <<setup, challenges, stores, responses, accepted, replayed, lowered>>

WebAuthnNext ==
    \/ CreateChallenge \/ Sign \/ ChallengeAges
    \/ \E c \in Ceremonies :
           \/ \E r \in responses : Verify(c, r)
           \/ LoadCredential(c) \/ GetChallenge(c) \/ DeleteChallenge(c)
           \/ Check(c) \/ Store(c) \/ AbandonCeremony(c)

WebAuthnSpec == WebAuthnInit /\ [][WebAuthnNext]_webAuthnVars

-----------------------------------------------------------------------------
(* Properties *)

\* A verification that begins after a response was accepted does not accept
\* it again, if the authenticator counts and no overlapping write lowered the
\* stored count, or if the caller leaves the challenge to the store.
ResponseOnce ==
    \A r \in replayed :
        \/ r.type = "create" /\ setup.keeps
        \/ r.type = "get" /\ setup.keeps /\ (lowered \/ ~setup.counts)

=============================================================================
