-------------------------------- MODULE MCTokens --------------------------------
(***************************************************************************)
(* The credentials of the library for TLC.  Refresh tokens, access tokens  *)
(* and API keys share no state that the models relate, so each behaviour   *)
(* exercises one of the three parts.                                       *)
(***************************************************************************)
EXTENDS RefreshTokens, AccessTokens, ApiKeys

VARIABLE part

MCInit ==
    /\ part \in {"tokens", "access", "keys"}
    /\ TokenInit
    /\ AccessInit
    /\ part # "access" => jwtConfig = CHOOSE c \in Deployments : TRUE
    /\ KeyInit

MCNext ==
    \/ part = "tokens" /\ TokenNext /\ UNCHANGED <<part, accessVars, keyVars>>
    \/ part = "access" /\ AccessNext /\ UNCHANGED <<part, tokenVars, keyVars>>
    \/ part = "keys" /\ KeyNext /\ UNCHANGED <<part, tokenVars, accessVars>>

MCSpec == MCInit /\ [][MCNext]_<<part, tokenVars, accessVars, keyVars>>

\* All parts stay well typed.
TypeOK == TokenTypeOK /\ AccessTypeOK /\ KeyTypeOK

\* Deployments with the shared secret, and with every choice of one key pair.
MCDeployments ==
    {c \in Configs :
        c.binding /\ (c.asymmetric \/ (c.private = NoPair /\ c.public = NoPair))}

=============================================================================
