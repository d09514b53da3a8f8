------------------------------- MODULE OAuthLogins -------------------------------
(***************************************************************************)
(* OAuth2 logins with PKCE: the router's login and callback handlers with  *)
(* their state store (src/araxys/oauth/router.py) and the exchanges of     *)
(* OAuth2Flow (src/araxys/oauth/flow.py), in front of external providers.  *)
(* Each worker process has a state store of its own, lost when it stops.   *)
(*                                                                         *)
(* The n-th login draws a fresh state and verifier: both are n here, and   *)
(* the code a provider issues for it is bound to n by the PKCE challenge.  *)
(***************************************************************************)
EXTENDS Integers, FiniteSets

CONSTANTS
    Providers,        \* the flows of the router
    ServerProcesses,  \* the processes that serve it
    Callbacks,        \* concurrent requests to the callback route
    StateTtl,         \* ttl_seconds of the state store
    MaxLogins,        \* bound on the logins begun
    MaxLoginTime      \* bound on the time

ASSUME OAuthAssumption == {StateTtl, MaxLogins, MaxLoginTime} \subseteq Nat \ {0}

VARIABLES
    wall,        \* time.time()
    begun,       \* the provider and the start of every login
    states,      \* the store of each worker
    codes,       \* the logins whose codes are out
    codesSpent,  \* those whose codes the provider has exchanged
    callback,    \* what a callback does next, for which provider and code
    \* history
    redeemed,    \* pops that found the state of a login
    completed    \* logins completed: state, code, provider

oauthVars == <<wall, begun, states, codes, codesSpent, callback, redeemed, completed>>

LoginIds == 1..MaxLogins
LoginNumber == Cardinality(DOMAIN begun)
IdleCallback == [step |-> "idle"]

OAuthTypeOK ==
    /\ wall \in 0..MaxLoginTime
    /\ DOMAIN begun \subseteq LoginIds
    /\ \A n \in DOMAIN begun : begun[n] \in [provider : Providers, at : 0..wall]
    /\ \A w \in ServerProcesses : \A e \in states[w] :
           e.state \in DOMAIN begun /\ e.expires \in 0..wall + StateTtl
    /\ codesSpent \subseteq codes /\ codes \subseteq DOMAIN begun
    /\ \A c \in Callbacks : callback[c].step \in {"idle", "exchange", "userinfo"}
    /\ redeemed \in [LoginIds -> Nat]
    /\ completed \subseteq [state : LoginIds, code : codes, provider : Providers]

OAuthInit ==
    /\ wall = 0
    /\ begun = <<>>
    /\ states = [w \in ServerProcesses |-> {}]
    /\ codes = {}
    /\ codesSpent = {}
    /\ callback = [c \in Callbacks |-> IdleCallback]
    /\ redeemed = [n \in LoginIds |-> 0]
    /\ completed = {}

SecondPasses ==
    /\ wall < MaxLoginTime
    /\ wall' = wall + 1
    /\ UNCHANGED <<begun, states, codes, codesSpent, callback, redeemed, completed>>

\* _cleanup(), at the head of put() and pop().
Fresh(w) == {e \in states[w] : wall <= e.expires}

\* GET /login/{provider}: authorization_url() and put(), without an await.
BeginLogin(w, p) ==
    LET n == LoginNumber + 1
        entry == [state |-> n, expires |-> wall + StateTtl] IN
    /\ n \in LoginIds
    /\ begun' = [i \in 1..n |-> IF i = n THEN [provider |-> p, at |-> wall]
                                ELSE begun[i]]
    /\ states' = [states EXCEPT ![w] = Fresh(w) \cup {entry}]
    /\ UNCHANGED <<wall, codes, codesSpent, callback, redeemed, completed>>

\* External: the user consents, the provider issues a code.
Consent(n) ==
    /\ codes' = codes \cup {n}
    /\ UNCHANGED <<wall, begun, states, codesSpent, callback, redeemed, completed>>

\* The mutant reads the entry and leaves it in the store.
PopState_Keeps(w, s) == Fresh(w)

PopState(w, s) == {e \in Fresh(w) : e.state # s}

\* GET /callback/{provider}: the state is popped; without an entry the answer
\* is 400.  Nothing ties the state to the provider of the route.
Callback(c, w, p, code, s) ==
    /\ callback[c] = IdleCallback
    /\ states' = [states EXCEPT ![w] = PopState(w, s)]
    /\ IF \E e \in Fresh(w) : e.state = s
       THEN /\ callback' = [callback EXCEPT ![c] =
                                [step |-> "exchange", worker |-> w, provider |-> p,
                                 code |-> code, state |-> s]]
            /\ redeemed' = [redeemed EXCEPT ![s] = @ + 1]
       ELSE UNCHANGED <<callback, redeemed>>
    /\ UNCHANGED <<wall, begun, codes, codesSpent, completed>>

\* External: a code is worth one exchange, at the provider that issued it,
\* with the verifier and the redirect URI of its login.
Accepts(b) ==
    /\ b.code \notin codesSpent
    /\ b.provider = begun[b.code].provider
    /\ b.state = b.code

\* exchange_code(); any failure is a 400, also one after the exchange.
ExchangeCode(c) ==
    LET b == callback[c] IN
    /\ b.step = "exchange"
    /\ \/ /\ Accepts(b)
          /\ codesSpent' = codesSpent \cup {b.code}
          /\ \/ callback' = [callback EXCEPT ![c].step = "userinfo"]
             \/ callback' = [callback EXCEPT ![c] = IdleCallback]
       \/ callback' = [callback EXCEPT ![c] = IdleCallback] /\ UNCHANGED codesSpent
    /\ UNCHANGED <<wall, begun, states, codes, redeemed, completed>>

\* userinfo() and on_login(), or the 400 of a failure.
UserInfo(c) ==
    LET b == callback[c] IN
    /\ b.step = "userinfo"
    /\ callback' = [callback EXCEPT ![c] = IdleCallback]
    /\ \/ completed' = completed \cup {[state |-> b.state, code |-> b.code,
                                        provider |-> b.provider]}
       \/ UNCHANGED completed
    /\ UNCHANGED <<wall, begun, states, codes, codesSpent, redeemed>>

\* A worker stops: its store and its requests are gone.
WorkerRestarts(w) ==
    /\ states' = [states EXCEPT ![w] = {}]
    /\ callback' = [c \in Callbacks |->
                        IF callback[c] # IdleCallback /\ callback[c].worker = w
                        THEN IdleCallback ELSE callback[c]]
    /\ UNCHANGED <<wall, begun, codes, codesSpent, redeemed, completed>>

OAuthNext ==
    \/ SecondPasses
    \/ \E w \in ServerProcesses :
           \/ WorkerRestarts(w)
           \/ \E p \in Providers : BeginLogin(w, p)
    \/ \E n \in DOMAIN begun : Consent(n)
    \/ \E c \in Callbacks :
           \/ \E w \in ServerProcesses, p \in Providers :
                  \E k \in codes, s \in DOMAIN begun : Callback(c, w, p, k, s)
           \/ ExchangeCode(c) \/ UserInfo(c)

OAuthSpec == OAuthInit /\ [][OAuthNext]_oauthVars

-----------------------------------------------------------------------------
(* Properties *)

\* However callbacks are repeated, mixed up or served by other workers, a
\* state is taken once and before its time is over, and a login that
\* completes is completed by its own code at its own provider.
StateTakenOnce ==
    [][/\ \A n \in DOMAIN begun :
              redeemed'[n] > redeemed[n] =>
                  redeemed[n] = 0 /\ wall - begun[n].at <= StateTtl
       /\ \A done \in completed' :
              done.code = done.state /\ done.provider = begun[done.state].provider
      ]_oauthVars

=============================================================================
