------------------------------- MODULE CsrfTokens -------------------------------
(***************************************************************************)
(* The double-submit cookie: CSRFHandler (src/araxys/csrf/tokens.py),      *)
(* CSRFMiddleware (middleware.py) and the dependency csrf_protected        *)
(* (dependencies.py). The server keeps nothing: a token is a random part   *)
(* and its expiry, and the cookie and the header must agree. The pages of  *)
(* one client share its cookies, each with a request of its own under way, *)
(* and responses that replace the cookie arrive in any order.              *)
(***************************************************************************)
EXTENDS Integers, Sequences

CONSTANTS
    Pages,         \* pages of one client, each with one request at a time
    TokenExpiry,   \* CSRFConfig.token_expiry_seconds
    MaxTokens,     \* bound on the tokens issued
    MaxCsrfTime    \* bound on the clock

ASSUME CsrfAssumption ==
    /\ TokenExpiry \in Nat \ {0}
    /\ {MaxTokens, MaxCsrfTime} \subseteq Nat

VARIABLES
    autoRefresh,  \* CSRFConfig.auto_refresh_cookie
    csrfTime,     \* the clock, in seconds
    issued,       \* when each token was issued; its place stands for its random part
    jar,          \* the client's cookie
    token,        \* what a page has read from the cookie
    pageStep,     \* where the request of a page stands
    sent,         \* the header and the cookie of its request
    ruling,       \* what its response says
    fresh,        \* the token its response sets
    \* history
    stale,        \* the pages whose cookie was replaced since they read it
    overtaken,    \* those whose request was sent with a stale token
    judgedAt      \* when the last check of a request was made

csrfVars == <<autoRefresh, csrfTime, issued, jar, token, pageStep, sent, ruling,
              fresh, stale, overtaken, judgedAt>>

NoToken == [raw |-> 0, expiry |-> 0]
Tokens == [raw : 1..MaxTokens, expiry : TokenExpiry..(MaxCsrfTime + TokenExpiry)]
TokensOrNone == Tokens \cup {NoToken}

CsrfTypeOK ==
    /\ autoRefresh \in BOOLEAN
    /\ csrfTime \in 0..MaxCsrfTime
    /\ issued \in Seq(0..MaxCsrfTime) /\ Len(issued) <= MaxTokens
    /\ jar \in TokensOrNone
    /\ token \in [Pages -> TokensOrNone]
    /\ pageStep \in [Pages -> {"idle", "middleware", "route", "answered"}]
    /\ sent \in [Pages -> [header : TokensOrNone, cookie : TokensOrNone]]
    /\ ruling \in [Pages -> {"none", "passed", "missing", "mismatch"}]
    /\ fresh \in [Pages -> TokensOrNone]
    /\ stale \cup overtaken \subseteq Pages
    /\ judgedAt \in [Pages -> 0..MaxCsrfTime]

CsrfInit ==
    /\ autoRefresh \in BOOLEAN
    /\ csrfTime = 0
    /\ issued = <<>>
    /\ jar = NoToken
    /\ token = [p \in Pages |-> NoToken]
    /\ pageStep = [p \in Pages |-> "idle"]
    /\ sent = [p \in Pages |-> [header |-> NoToken, cookie |-> NoToken]]
    /\ ruling = [p \in Pages |-> "none"]
    /\ fresh = [p \in Pages |-> NoToken]
    /\ stale = {}
    /\ overtaken = {}
    /\ judgedAt = [p \in Pages |-> 0]

-----------------------------------------------------------------------------
(* CSRFHandler *)

\* generate_token(): into the response of p goes a token that is new.
Generate(p) ==
    /\ Len(issued) < MaxTokens
    /\ issued' = Append(issued, csrfTime)
    /\ fresh' = [fresh EXCEPT ![p] = [raw |-> Len(issued'),
                                      expiry |-> csrfTime + TokenExpiry]]

\* Mutant: a token is still good in the second it expires.
ValidateToken_Late(s) ==
    /\ csrfTime <= s.header.expiry /\ csrfTime <= s.cookie.expiry
    /\ s.header.raw = s.cookie.raw

\* validate_token()
ValidateToken(s) ==
    /\ csrfTime < s.header.expiry /\ csrfTime < s.cookie.expiry
    /\ s.header.raw = s.cookie.raw

\* What the middleware and csrf_protected say of a request.
CheckTokens(s) == IF NoToken \in {s.header, s.cookie} THEN "missing"
            ELSE IF ValidateToken(s) THEN "passed" ELSE "mismatch"

-----------------------------------------------------------------------------
(* A page and its request *)

PageGoesTo(p, next) == pageStep' = [pageStep EXCEPT ![p] = next]
Says(p, what) == /\ ruling' = [ruling EXCEPT ![p] = what]
                 /\ judgedAt' = [judgedAt EXCEPT ![p] = csrfTime]

\* The page copies the cookie, to send it in a header.
ReadCookie(p) ==
    /\ pageStep[p] = "idle"
    /\ token' = [token EXCEPT ![p] = jar]
    /\ stale' = stale \ {p}
    /\ UNCHANGED <<autoRefresh, csrfTime, issued, jar, pageStep, sent, ruling, fresh,
                   overtaken, judgedAt>>

\* A state-changing request: the page's header, and the cookie of this moment.
SendUnsafe(p) ==
    /\ pageStep[p] = "idle"
    /\ sent' = [sent EXCEPT ![p] = [header |-> token[p], cookie |-> jar]]
    /\ overtaken' = IF p \in stale THEN overtaken \cup {p} ELSE overtaken \ {p}
    /\ PageGoesTo(p, "middleware")
    /\ UNCHANGED <<autoRefresh, csrfTime, issued, jar, token, ruling, fresh, stale,
                   judgedAt>>

\* A safe request, whose handler calls set_csrf_cookie().
SetCsrfCookie(p) ==
    /\ pageStep[p] = "idle"
    /\ Generate(p)
    /\ PageGoesTo(p, "answered")
    /\ UNCHANGED <<autoRefresh, csrfTime, jar, token, sent, ruling, stale,
                   overtaken, judgedAt>>

\* CSRFMiddleware.dispatch(): a request that fails the check is denied.
Dispatch(p) ==
    /\ pageStep[p] = "middleware"
    /\ Says(p, CheckTokens(sent[p]))
    /\ PageGoesTo(p, IF CheckTokens(sent[p]) = "passed" THEN "route" ELSE "answered")
    /\ UNCHANGED <<autoRefresh, csrfTime, issued, jar, token, sent, fresh, stale,
                   overtaken>>

\* The middleware awaits the route, which may check again with csrf_protected;
\* a response gets a new cookie, whatever the route has said.
RouteAnswers(p) ==
    /\ pageStep[p] = "route"
    /\ \/ Says(p, CheckTokens(sent[p]))
       \/ UNCHANGED <<ruling, judgedAt>>
    /\ IF autoRefresh THEN Generate(p) ELSE UNCHANGED <<issued, fresh>>
    /\ PageGoesTo(p, "answered")
    /\ UNCHANGED <<autoRefresh, csrfTime, jar, token, sent, stale, overtaken>>

\* A response that reaches the client replaces the cookie, for every page.
ReceiveResponse(p) ==
    /\ pageStep[p] = "answered"
    /\ PageGoesTo(p, "idle")
    /\ ruling' = [ruling EXCEPT ![p] = "none"]
    /\ IF fresh[p] = NoToken
       THEN UNCHANGED <<jar, stale>>
       ELSE jar' = fresh[p] /\ stale' = Pages
    /\ fresh' = [fresh EXCEPT ![p] = NoToken]
    /\ UNCHANGED <<autoRefresh, csrfTime, issued, token, sent, overtaken, judgedAt>>

CsrfTick ==
    /\ csrfTime < MaxCsrfTime
    /\ csrfTime' = csrfTime + 1
    /\ UNCHANGED <<autoRefresh, issued, jar, token, pageStep, sent, ruling, fresh,
                   stale, overtaken, judgedAt>>

CsrfNext ==
    \/ CsrfTick
    \/ \E p \in Pages :
           \/ ReadCookie(p) \/ SendUnsafe(p) \/ SetCsrfCookie(p)
           \/ Dispatch(p) \/ RouteAnswers(p) \/ ReceiveResponse(p)

CsrfSpec == CsrfInit /\ [][CsrfNext]_csrfVars

-----------------------------------------------------------------------------
(* Properties *)

\* A check that reads nothing but the request is right about the client: it
\* passes a request only with the client's own cookie of less than TokenExpiry
\* seconds, and it refuses one only if its page had read no token, or a response
\* to another request had replaced the cookie before it was sent, or the token
\* is TokenExpiry seconds old.
CsrfHonoured ==
    \A p \in Pages :
        LET own == sent[p]
            age == judgedAt[p] - issued[own.cookie.raw]
        IN  /\ ruling[p] = "passed" =>
                   /\ own.header = own.cookie /\ own.cookie # NoToken
                   /\ age < TokenExpiry
            /\ ruling[p] \in {"missing", "mismatch"} =>
                   \/ own.header = NoToken \/ p \in overtaken
                   \/ age >= TokenExpiry

=============================================================================
