-------------------------------- MODULE MCRequests --------------------------------
(***************************************************************************)
(* What happens on the way of a request, for TLC: the middlewares, the     *)
(* limits, the logins and the checks. The parts share no state, so each    *)
(* behaviour exercises one of them.                                        *)
(***************************************************************************)
EXTENDS RequestPipeline, RequestLimits, SecondFactors, OAuthLogins, OidcDiscovery,
        CsrfTokens, IpAccess, Rbac, GraphQLLimits

VARIABLE part

\* Only the part that is exercised chooses among its initial states.
MCInit ==
    /\ part \in {"pipeline", "rates", "window", "brute", "webauthn", "oauth", "oidc",
                 "mfa", "rbac", "graphql", "csrf", "enumeration", "ip"}
    /\ part # "graphql" => document = CHOOSE d \in Documents : TRUE
    /\ GraphQLInit
    /\ part # "pipeline" =>
           enabled = LayerNames /\ request = CHOOSE r \in Received : TRUE
    /\ PipelineInit
    /\ RateInit
    /\ part # "rates" => backend = "redis"
    /\ WindowInit
    /\ BruteInit
    /\ part # "brute" => inMemory
    /\ WebAuthnInit
    /\ part # "webauthn" =>
           setup = [store |-> TRUE, redis |-> TRUE, counts |-> TRUE, keeps |-> TRUE]
    /\ OAuthInit
    /\ DiscoveryInit
    /\ FactorInit
    /\ RbacInit
    /\ CsrfInit
    /\ part # "csrf" => autoRefresh
    /\ EnumerationInit
    /\ part # "enumeration" => audited
    /\ IpInit
    /\ part # "ip" => mode = "block" /\ ~shared /\ ~mapped

MCNext ==
    \/ /\ part = "pipeline" /\ PipelineNext
       /\ UNCHANGED <<part, rateVars, windowVars, bruteVars, webAuthnVars, oauthVars,
                      discoveryVars, factorVars, rbacVars, graphQLVars, csrfVars,
                      enumerationVars, ipVars>>
    \/ /\ part = "rates" /\ RateNext
       /\ UNCHANGED <<part, pipelineVars, windowVars, bruteVars, webAuthnVars,
                      oauthVars, discoveryVars, factorVars, rbacVars, graphQLVars,
                      csrfVars, enumerationVars, ipVars>>
    \/ /\ part = "window" /\ WindowNext
       /\ UNCHANGED <<part, pipelineVars, rateVars, bruteVars, webAuthnVars,
                      oauthVars, discoveryVars, factorVars, rbacVars, graphQLVars,
                      csrfVars, enumerationVars, ipVars>>
    \/ /\ part = "brute" /\ BruteNext
       /\ UNCHANGED <<part, pipelineVars, rateVars, windowVars, webAuthnVars,
                      oauthVars, discoveryVars, factorVars, rbacVars, graphQLVars,
                      csrfVars, enumerationVars, ipVars>>
    \/ /\ part = "webauthn" /\ WebAuthnNext
       /\ UNCHANGED <<part, pipelineVars, rateVars, windowVars, bruteVars, oauthVars,
                      discoveryVars, factorVars, rbacVars, graphQLVars, csrfVars,
                      enumerationVars, ipVars>>
    \/ /\ part = "oauth" /\ OAuthNext
       /\ UNCHANGED <<part, pipelineVars, rateVars, windowVars, bruteVars,
                      webAuthnVars, discoveryVars, factorVars, rbacVars, graphQLVars,
                      csrfVars, enumerationVars, ipVars>>
    \/ /\ part = "oidc" /\ DiscoveryNext
       /\ UNCHANGED <<part, pipelineVars, rateVars, windowVars, bruteVars,
                      webAuthnVars, oauthVars, factorVars, rbacVars, graphQLVars,
                      csrfVars, enumerationVars, ipVars>>
    \/ /\ part = "mfa" /\ FactorNext
       /\ UNCHANGED <<part, pipelineVars, rateVars, windowVars, bruteVars,
                      webAuthnVars, oauthVars, discoveryVars, rbacVars, graphQLVars,
                      csrfVars, enumerationVars, ipVars>>
    \/ /\ part = "rbac" /\ RbacNext
       /\ UNCHANGED <<part, pipelineVars, rateVars, windowVars, bruteVars,
                      webAuthnVars, oauthVars, discoveryVars, factorVars, graphQLVars,
                      csrfVars, enumerationVars, ipVars>>
    \/ /\ part = "graphql" /\ GraphQLNext
       /\ UNCHANGED <<part, pipelineVars, rateVars, windowVars, bruteVars,
                      webAuthnVars, oauthVars, discoveryVars, factorVars, rbacVars,
                      csrfVars, enumerationVars, ipVars>>
    \/ /\ part = "csrf" /\ CsrfNext
       /\ UNCHANGED <<part, pipelineVars, rateVars, windowVars, bruteVars,
                      webAuthnVars, oauthVars, discoveryVars, factorVars, rbacVars,
                      graphQLVars, enumerationVars, ipVars>>
    \/ /\ part = "enumeration" /\ EnumerationNext
       /\ UNCHANGED <<part, pipelineVars, rateVars, windowVars, bruteVars,
                      webAuthnVars, oauthVars, discoveryVars, factorVars, rbacVars,
                      graphQLVars, csrfVars, ipVars>>
    \/ /\ part = "ip" /\ IpNext
       /\ UNCHANGED <<part, pipelineVars, rateVars, windowVars, bruteVars,
                      webAuthnVars, oauthVars, discoveryVars, factorVars, rbacVars,
                      graphQLVars, csrfVars, enumerationVars>>

MCSpec == MCInit /\ [][MCNext]_<<part, pipelineVars, rateVars, windowVars, bruteVars,
                                 webAuthnVars, oauthVars, discoveryVars, factorVars,
                                 rbacVars, graphQLVars, csrfVars, enumerationVars,
                                 ipVars>>

\* No step tells one request, role, page or client from another, nor one caller
\* of a function from another: two of each are interchanged at once, since only
\* one part has left its initial state, which is the same for all of them.
Twins(S) == CHOOSE pair \in SUBSET S : Cardinality(pair) = 2
Pairs == {Twins(S) : S \in {Requests, Logins, Ceremonies, ServerProcesses, Callbacks,
                            Discoveries, Recoveries, Roles, Pages, AuthCalls, Clients}}
Twin(x) == CHOOSE y \in UNION Pairs \ {x} : {x, y} \in Pairs
Interchanged ==
    {[x \in UNION Pairs |-> IF swapped THEN Twin(x) ELSE x] : swapped \in BOOLEAN}

\* The part that is exercised stays well typed.
MCTypeOK ==
    /\ part = "pipeline" => PipelineTypeOK
    /\ part = "rates" => RateTypeOK
    /\ part = "window" => WindowTypeOK
    /\ part = "brute" => BruteTypeOK
    /\ part = "webauthn" => WebAuthnTypeOK
    /\ part = "oauth" => OAuthTypeOK
    /\ part = "oidc" => DiscoveryTypeOK
    /\ part = "mfa" => FactorTypeOK
    /\ part = "rbac" => RbacTypeOK
    /\ part = "graphql" => GraphQLTypeOK
    /\ part = "csrf" => CsrfTypeOK
    /\ part = "enumeration" => EnumerationTypeOK
    /\ part = "ip" => IpTypeOK

\* The two walks over a structure do what their definitions say: the roles that
\* inherit from each other, and the nested query.
WalksExact == GrantedIffEntitled /\ PassedWithinLimits

\* The permissions of Rbac: all of a resource, and one of its actions.
MCGrants == {<<"a", "*">>, <<"a", "r">>}

\* The documents of GraphQLLimits: leaves in set 1, what nests them in set 2 and
\* an operation in set 3, with set 1 or 2 the fragment F, before or after it.
MCDocuments ==
    LET sets(selections, length) == BoundedSeq(selections, length) \ {<<>>}
        leaves == {Field("plain", 0, 0), Field("edges", 0, 0)}
        middle(last) == sets(leaves \cup {Field("plain", 1, 1), last}, 2) IN
    {[sets |-> <<low, nested[2], high>>,
      definitions |-> IF first THEN <<Operation(3), Fragment("F", nested[1])>>
                      ELSE <<Fragment("F", nested[1]), Operation(3)>>] :
         low \in sets({Field("edges", 0, 0), Field("__schema", 0, 0)}, 3),
         nested \in ({1} \X middle(Spread("F"))) \cup ({2} \X middle(Inline(1))),
         high \in sets({Field("plain", 1, 2), Inline(2), Spread("F")}, 2),
         first \in BOOLEAN}

=============================================================================
