----------------------------- MODULE AccessTokens -----------------------------
(***************************************************************************)
(* The access tokens of JWTManager (src/araxys/jwt_auth/tokens.py), the    *)
(* dependency that admits a request by one (jwt_auth/dependencies.py), and *)
(* the introspection of a token.                                           *)
(*                                                                         *)
(* An access token is checked without the store: what it opens follows     *)
(* from its claims and from the configuration of the process that checks   *)
(* it.  The service may be restarted with other keys, another algorithm or *)
(* other options while its tokens live on.  Of the store the module keeps  *)
(* the blacklist of single tokens; families are in RefreshTokens.          *)
(***************************************************************************)
EXTENDS Integers

CONSTANTS
    Bearers,         \* clients: an IP address with a User-Agent
    NoBearer,        \* the bind claim of a token without one
    Rights,          \* Scope
    KeyPairs,        \* keys for RS256 and ES256
    NoPair,          \* a key that is not configured
    SecretKey,       \* the shared secret for HS256
    AccessTtl,       \* access_token_ttl_minutes
    RefreshLife,     \* refresh_token_ttl_days
    ClockLeeway,     \* leeway_seconds
    Deployments,     \* the configurations the service may be started with
    MaxPairs,        \* bound on the token pairs issued
    MaxDeployments,  \* bound on the restarts
    MaxJwtTime       \* bound on the clock

\* What of JWTConfig the module uses.
Configs ==
    [asymmetric : BOOLEAN, binding : BOOLEAN,
     private : KeyPairs \cup {NoPair}, public : KeyPairs \cup {NoPair}]

ASSUME AccessAssumption ==
    /\ AccessTtl \in Nat \ {0}
    /\ RefreshLife \in Nat \ {0}
    /\ ClockLeeway \in Nat
    /\ {MaxPairs, MaxDeployments, MaxJwtTime} \subseteq Nat
    /\ Deployments \subseteq Configs
    /\ NoBearer \notin Bearers
    /\ NoPair \notin KeyPairs
    /\ SecretKey \notin KeyPairs \cup {NoPair}

VARIABLES
    clock,      \* the time
    jwtConfig,  \* JWTConfig of the running process
    deployed,   \* how often it has been restarted
    jwts,       \* the claims of the tokens issued, and their signature
    blocked,    \* until when a token is blacklisted, 0 if it is not
    lookup,     \* the introspection under way: its token, 0 if there is none
    outcome,    \* what introspect_token has just returned
    \* history
    holder,     \* the client a token was issued to
    chosen,     \* the scopes the application named for its pair
    withdrawn   \* whether its token was blacklisted before it was called

jwtState == <<jwtConfig, deployed, jwts, blocked, holder, chosen>>
accessVars == <<clock, jwtState, lookup, outcome, withdrawn>>

Jwts == 1..(2 * MaxPairs)
Claims ==
    [type : {"none", "access", "refresh"}, scopes : SUBSET Rights, exp : Nat,
     bind : Bearers \cup {NoBearer}, signed : KeyPairs \cup {SecretKey, NoPair}]
NoClaims ==
    [type |-> "none", scopes |-> {}, exp |-> 0, bind |-> NoBearer, signed |-> NoPair]

Nothing == [token |-> 0, active |-> FALSE, early |-> FALSE]
Issued == {t \in Jwts : jwts[t].type # "none"}

AccessTypeOK ==
    /\ clock \in 0..MaxJwtTime
    /\ jwtConfig \in Deployments
    /\ deployed \in 0..MaxDeployments
    /\ jwts \in [Jwts -> Claims]
    /\ \A t \in Issued : jwts[t].signed # NoPair
    /\ blocked \in [Jwts -> Nat]
    /\ lookup \in 0..(2 * MaxPairs)
    /\ outcome \in [token : 0..(2 * MaxPairs), active : BOOLEAN, early : BOOLEAN]
    /\ holder \in [Jwts -> Bearers \cup {NoBearer}]
    /\ chosen \in [Jwts -> SUBSET Rights]
    /\ withdrawn \in BOOLEAN

AccessInit ==
    /\ clock = 0
    /\ jwtConfig \in Deployments
    /\ deployed = 0
    /\ jwts = [t \in Jwts |-> NoClaims]
    /\ blocked = [t \in Jwts |-> 0]
    /\ lookup = 0
    /\ outcome = Nothing
    /\ holder = [t \in Jwts |-> NoBearer]
    /\ chosen = [t \in Jwts |-> {}]
    /\ withdrawn = FALSE

-----------------------------------------------------------------------------
(* Keys *)

\* _get_signing_key raises ValueError where this is NoPair.
SigningKey == IF jwtConfig.asymmetric THEN jwtConfig.private ELSE SecretKey

\* _get_verification_key derives the public key from the private one if it has
\* none; it raises ConfigurationError where this is NoPair.
VerificationKey ==
    IF ~jwtConfig.asymmetric THEN SecretKey
    ELSE IF jwtConfig.public # NoPair THEN jwtConfig.public ELSE jwtConfig.private

-----------------------------------------------------------------------------
(* create_token_pair *)

\* The pair takes the next two numbers. Only the access token has the scopes and
\* the bind claim.
NewPair(b, S, bind, named) ==
    \E t \in {n \in Jwts : n % 2 = 1 /\ Issued = 1..(n - 1)} :
        LET access  == [type |-> "access", scopes |-> S, exp |-> clock + AccessTtl,
                        bind |-> bind, signed |-> SigningKey]
            refresh == [type |-> "refresh", scopes |-> {}, exp |-> clock + RefreshLife,
                        bind |-> NoBearer, signed |-> SigningKey]
        IN  /\ jwts' = [jwts EXCEPT ![t] = access, ![t + 1] = refresh]
            /\ holder' = [holder EXCEPT ![t] = b, ![t + 1] = b]
            /\ chosen' = [chosen EXCEPT ![t] = named, ![t + 1] = named]

\* The application logs a client in and passes its address as bind_ip.
CreatePair(b, S) ==
    /\ SigningKey # NoPair
    /\ NewPair(b, S, IF jwtConfig.binding THEN b ELSE NoBearer, S)
    /\ outcome' = Nothing
    /\ UNCHANGED <<clock, jwtConfig, deployed, blocked, lookup, withdrawn>>

-----------------------------------------------------------------------------
(* decode_token *)

\* Mutant: the token_type claim is not compared.
DecodesAs_AnyType(t, type) ==
    /\ t \in Issued
    /\ jwts[t].signed = VerificationKey
    /\ clock < jwts[t].exp + ClockLeeway

\* The token is signed with the verification key, in time and of the expected
\* type. Otherwise, and without a verification key, an exception is raised.
DecodesAs(t, type) ==
    /\ t \in Issued
    /\ jwts[t].signed = VerificationKey
    /\ clock < jwts[t].exp + ClockLeeway
    /\ jwts[t].type = type

\* TokenPayload(**payload): the model ignores the claims it does not declare.
Payload(t) == [claim \in {"type", "scopes", "exp"} |-> jwts[t][claim]]

-----------------------------------------------------------------------------
(* rotate_tokens, as far as it makes the next pair *)

IsBlacklisted(t) == clock < blocked[t]

\* Until its exp, and for a second at least.
Block(t) ==
    blocked' = [blocked EXCEPT ![t] = clock + IF jwts[t].exp - clock < 1 THEN 1
                                             ELSE jwts[t].exp - clock]

\* The application may name scopes; if it names none, those of the refresh token
\* are taken. The new access token is bound to nobody.
RotatePair(t, S) ==
    /\ DecodesAs(t, "refresh")
    /\ ~IsBlacklisted(t)
    /\ SigningKey # NoPair
    /\ Block(t)
    /\ NewPair(holder[t], IF S # {} THEN S ELSE Payload(t).scopes, NoBearer, S)
    /\ outcome' = Nothing
    /\ UNCHANGED <<clock, jwtConfig, deployed, lookup, withdrawn>>

\* revoke_refresh_token
RevokeRefresh(t) ==
    /\ DecodesAs(t, "refresh")
    /\ Block(t)
    /\ outcome' = Nothing
    /\ UNCHANGED <<clock, jwtConfig, deployed, jwts, lookup, holder, chosen, withdrawn>>

-----------------------------------------------------------------------------
(* require_jwt *)

\* The binding is checked if the payload has the claim.
BindingFits(b, payload) ==
    jwtConfig.binding /\ "bind" \in DOMAIN payload => payload.bind = b

\* A client that presents this token is admitted to an endpoint that requires
\* these scopes.
Admits(b, t, S) ==
    /\ DecodesAs(t, "access")
    /\ BindingFits(b, Payload(t))
    /\ S \subseteq Payload(t).scopes

-----------------------------------------------------------------------------
(* introspect_token: the store is asked after the token has been decoded *)

DecodesAny(t) == DecodesAs(t, "access") \/ DecodesAs(t, "refresh")

Returns(t, isActive, wasBlocked) ==
    outcome' = [token |-> t, active |-> isActive, early |-> wasBlocked]

Introspect(t) ==
    /\ lookup = 0
    /\ t \in Issued
    /\ IF DecodesAny(t)
       THEN lookup' = t /\ withdrawn' = (blocked[t] # 0) /\ outcome' = Nothing
       ELSE Returns(t, FALSE, FALSE) /\ UNCHANGED <<lookup, withdrawn>>
    /\ UNCHANGED <<clock, jwtState>>

\* Mutant: the answer of the store is taken for the answer of the call.
IsActive_Blacklisted(t) == IsBlacklisted(t)

IsActive(t) == ~IsBlacklisted(t)

LookupAnswers ==
    /\ lookup # 0
    /\ Returns(lookup, IsActive(lookup), withdrawn)
    /\ lookup' = 0
    /\ withdrawn' = FALSE
    /\ UNCHANGED <<clock, jwtState>>

-----------------------------------------------------------------------------
JwtTick ==
    /\ clock < MaxJwtTime
    /\ clock' = clock + 1
    /\ outcome' = Nothing
    /\ UNCHANGED <<jwtState, lookup, withdrawn>>

\* The service is restarted with another configuration; a call under way is lost.
Redeploy ==
    /\ deployed < MaxDeployments
    /\ deployed' = deployed + 1
    /\ jwtConfig' \in Deployments
    /\ lookup' = 0
    /\ withdrawn' = FALSE
    /\ outcome' = Nothing
    /\ UNCHANGED <<clock, jwts, blocked, holder, chosen>>

AccessNext ==
    \/ \E b \in Bearers, S \in SUBSET Rights : CreatePair(b, S)
    \/ \E t \in Jwts, S \in SUBSET Rights : RotatePair(t, S)
    \/ \E t \in Jwts : RevokeRefresh(t) \/ Introspect(t)
    \/ LookupAnswers
    \/ JwtTick
    \/ Redeploy

AccessSpec == AccessInit /\ [][AccessNext]_accessVars

-----------------------------------------------------------------------------
(* Properties *)

\* A request is admitted only by an access token, never by a refresh token, that
\* the configuration of the moment could have signed and that is in time, and the
\* application named every scope it needs when that very token was made -- over
\* rotations, and restarts with other keys.
AdmittedEntitled ==
    \A b \in Bearers, t \in Issued, S \in SUBSET Rights :
        Admits(b, t, S) =>
            /\ t % 2 = 1
            /\ S \subseteq chosen[t]
            /\ clock < jwts[t].exp + ClockLeeway
            /\ jwtConfig.asymmetric <=> jwts[t].signed # SecretKey

\* Introspection calls no token active that had been withdrawn before it was
\* asked, up to the leeway after its exp, and none inactive that a request or a
\* rotation would accept, whatever happens between its two looks.
IntrospectionTruthful ==
    outcome # Nothing =>
        LET t == outcome.token
        IN  /\ outcome.active /\ outcome.early => clock >= jwts[t].exp
            /\ ~outcome.active => ~DecodesAny(t) \/ IsBlacklisted(t)

\* Both: what a token is taken for agrees with how it was made.
TokensJudged == AdmittedEntitled /\ IntrospectionTruthful

\* The configuration says of token_binding that "a stolen token cannot be used
\* from a different IP or browser": with the option on, a token with a bind claim
\* admits only the client it was issued to.
BoundToClient ==
    \A b \in Bearers, t \in Issued :
        /\ jwtConfig.binding /\ jwts[t].bind # NoBearer
        /\ Admits(b, t, {})
        => b = holder[t]

=============================================================================
