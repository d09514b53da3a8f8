----------------------------- MODULE Tokens_proofs ------------------------------
(***************************************************************************)
(* Theorems about refresh tokens, access tokens and API keys, for any      *)
(* number of concurrent calls, tokens, keys and prefixes and every         *)
(* lifetime.                                                               *)
(***************************************************************************)
EXTENDS MCTokens, Lemmas

-----------------------------------------------------------------------------
(* Types of the refresh tokens *)

\* What calls and history are about has been issued, and no exp is further
\* away than a token lives.
DataTyped ==
    /\ now \in Nat
    /\ now <= MaxTime
    /\ issued \in 0..MaxTokens
    /\ exp \in [Tokens -> Nat]
    /\ family \in [Tokens -> 0..MaxTokens]
    /\ jtis \in [Tokens -> Nat]
    /\ families \in [Tokens -> Nat]
    /\ parent \in [Tokens -> 0..MaxTokens]
    /\ reused \in SUBSET Tokens

CallsTyped ==
    /\ step \in [Rotations -> {"idle", "family", "claim", "issue", "reuse",
                               "revoke"}]
    /\ token \in [Rotations -> 0..MaxTokens]
    /\ remaining \in [Rotations -> Nat]

RemainingOK ==
    \A r \in Rotations : step[r] \in {"claim", "revoke"} =>
        remaining[r] \in 1..MaxSeconds

ExpOK == \A t \in 1..issued : exp[t] <= now + RefreshTtl
CallsOK == \A r \in Rotations : step[r] # "idle" => token[r] \in 1..issued
SpentOK == spent \subseteq 1..issued

TokenInv ==
    DataTyped /\ CallsTyped /\ RemainingOK /\ ExpOK /\ CallsOK /\ SpentOK

LEMMA ParametersOK ==
    /\ Second \in Nat \ {0} /\ RefreshTtl \in Nat \ {0} /\ FamilyTtl \in Nat \ {0}
    /\ MaxTokens \in Nat /\ MaxTime \in Nat
    /\ MaxSeconds \in Nat /\ MaxSeconds >= 1
BY TokenAssumption, Division, DivisionPositive DEF MaxSeconds

LEMMA TokenInvTypes == TokenInv => TokenTypeOK
<1> SUFFICES ASSUME TokenInv PROVE TokenTypeOK
  OBVIOUS
<1>1. now \in 0..MaxTime
  BY ParametersOK DEF TokenInv, DataTyped
<1>2. spent \in SUBSET Tokens
  BY ParametersOK DEF TokenInv, DataTyped, SpentOK, Tokens
<1>3. QED
  BY <1>1, <1>2 DEF TokenInv, DataTyped, CallsTyped, RemainingOK, TokenTypeOK

\* The life of a blacklist entry is a positive number of seconds and covers
\* the token up to its last second.
LEMMA SecondsLeftOK ==
    ASSUME TokenInv, NEW t \in 1..issued
    PROVE  /\ SecondsLeft(t) \in 1..MaxSeconds
           /\ now + Second * SecondsLeft(t) + Second > exp[t]
<1> USE TokenAssumption
<1>1. /\ now \in Nat /\ exp[t] \in Nat /\ exp[t] <= now + RefreshTtl
      /\ Second \in Nat \ {0} /\ RefreshTtl \in Nat
  BY DEF TokenInv, DataTyped, ExpOK, Tokens
<1>2. MaxSeconds \in Nat /\ MaxSeconds >= 1
  BY Division, DivisionPositive DEF MaxSeconds
<1>3. CASE exp[t] - now < Second
  <2>1. SecondsLeft(t) = 1
    BY <1>3 DEF SecondsLeft
  <2>2. Second * 1 = Second
    BY <1>1
  <2>3. QED
    BY <1>1, <1>2, <1>3, <2>1, <2>2
<1>4. CASE ~(exp[t] - now < Second)
  <2> DEFINE left == exp[t] - now
  <2>1. left \in Nat /\ left >= Second /\ left <= RefreshTtl
    BY <1>1, <1>4
  <2>2. SecondsLeft(t) = left \div Second
    BY <1>4 DEF SecondsLeft
  <2> HIDE DEF left
  <2>3. /\ left \div Second \in 1..MaxSeconds
        /\ left < Second * (left \div Second) + Second
        /\ Second * (left \div Second) \in Nat
    BY <1>1, <1>2, <2>1, Division, DivisionPositive, DivisionMonotone
    DEF MaxSeconds
  <2>4. QED
    BY <1>1, <2>2, <2>3 DEF left
<1>5. QED
  BY <1>3, <1>4

\* A new token's exp is a whole second, at most one life from now.
LEMMA IssueOK ==
    ASSUME TokenInv, NEW of \in 0..MaxTokens, Issue(of)
    PROVE  /\ issued' \in 0..MaxTokens
           /\ issued' = issued + 1
           /\ exp' \in [Tokens -> Nat]
           /\ \A t \in 1..issued : exp'[t] = exp[t]
           /\ exp'[issued + 1] <= now + RefreshTtl
           /\ family' \in [Tokens -> 0..MaxTokens]
           /\ parent' \in [Tokens -> 0..MaxTokens]
<1> USE TokenAssumption
<1> DEFINE new == Second * ((now + RefreshTtl) \div Second)
<1>1. /\ now \in Nat /\ RefreshTtl \in Nat /\ Second \in Nat \ {0}
      /\ issued \in 0..MaxTokens /\ exp \in [Tokens -> Nat]
      /\ family \in [Tokens -> 0..MaxTokens]
      /\ parent \in [Tokens -> 0..MaxTokens]
  BY DEF TokenInv, DataTyped
<1>2. new \in Nat /\ new <= now + RefreshTtl
  BY <1>1, Division
<1>3. /\ issued < MaxTokens
      /\ issued' = issued + 1
      /\ exp' = [exp EXCEPT ![issued + 1] = new]
      /\ family' = [family EXCEPT ![issued + 1] = issued + 1]
      /\ parent' = [parent EXCEPT ![issued + 1] = of]
  BY DEF Issue
<1> HIDE DEF new
<1>4. QED
  BY <1>1, <1>2, <1>3 DEF Tokens

LEMMA TokenInvInit == TokenInit => TokenInv
BY ParametersOK
DEF TokenInit, TokenInv, DataTyped, CallsTyped, RemainingOK, ExpOK, CallsOK,
    SpentOK, Tokens

\* What one call does to its own variables.
LEMMA CallsStep ==
    ASSUME TokenInv, NEW r \in Rotations,
           NEW s \in {"idle", "family", "claim", "issue", "reuse", "revoke"},
           NEW t \in 0..MaxTokens, NEW n \in Nat,
           step' = [step EXCEPT ![r] = s],
           token' = [token EXCEPT ![r] = t],
           remaining' = [remaining EXCEPT ![r] = n],
           s # "idle" => t \in 1..issued,
           s \in {"claim", "revoke"} => n \in 1..MaxSeconds,
           issued' = issued \/ issued' = issued + 1
    PROVE  CallsTyped' /\ RemainingOK' /\ CallsOK'
<1>1. CallsTyped /\ RemainingOK /\ CallsOK /\ issued \in Nat
  BY ParametersOK DEF TokenInv, DataTyped
<1>2. CallsTyped'
  BY <1>1 DEF CallsTyped
<1>3. RemainingOK'
  BY <1>1 DEF CallsTyped, RemainingOK
<1>4. CallsOK'
  <2>1. \A i : i \in 1..issued => i \in 1..issued'
    BY <1>1
  <2>2. QED
    BY <1>1, <2>1 DEF CallsTyped, CallsOK
<1>5. QED
  BY <1>2, <1>3, <1>4

LEMMA CallReturns ==
    ASSUME TokenInv, NEW r \in Rotations, Return(r),
           issued' = issued \/ issued' = issued + 1
    PROVE  CallsTyped' /\ RemainingOK' /\ CallsOK'
<1>1. 0 \in 0..MaxTokens /\ 0 \in Nat
  BY ParametersOK
<1>2. QED
  BY <1>1, CallsStep DEF Return

\* What a step does that issues nothing.
LEMMA DataStep ==
    ASSUME TokenInv, UNCHANGED <<now, claims>>,
           jtis' \in [Tokens -> Nat], families' \in [Tokens -> Nat],
           reused' \in SUBSET Tokens
    PROVE  DataTyped' /\ ExpOK' /\ issued' = issued
BY DEF TokenInv, DataTyped, ExpOK, claims

LEMMA DataUnchanged ==
    ASSUME TokenInv, UNCHANGED <<now, claims, store, spent, reused>>
    PROVE  DataTyped' /\ ExpOK' /\ SpentOK' /\ issued' = issued
BY DEF TokenInv, DataTyped, ExpOK, SpentOK, claims, store

\* What a step does that issues a token.
LEMMA DataIssue ==
    ASSUME TokenInv, NEW of \in 0..MaxTokens, Issue(of),
           UNCHANGED <<now, store, spent, reused>>
    PROVE  DataTyped' /\ ExpOK' /\ SpentOK' /\ issued' = issued + 1
<1>1. DataTyped /\ ExpOK /\ SpentOK /\ issued \in Nat
  BY ParametersOK DEF TokenInv, DataTyped
<1>2. DataTyped'
  BY <1>1, IssueOK DEF DataTyped, store
<1>3. ExpOK'
  <2>1. \A t \in 1..(issued + 1) : t \in 1..issued \/ t = issued + 1
    BY <1>1
  <2>2. QED
    BY <1>1, <2>1, IssueOK DEF ExpOK
<1>4. SpentOK'
  BY <1>1, IssueOK DEF SpentOK
<1>5. QED
  BY <1>2, <1>3, <1>4, IssueOK

\* A blacklist entry is set for a number of seconds.
LEMMA BlacklistedOK ==
    ASSUME TokenInv, NEW r \in Rotations, step[r] \in {"claim", "revoke"},
           Blacklisted(r), UNCHANGED <<now, claims, families, reused>>,
           spent' = spent \cup {token[r]}
    PROVE  DataTyped' /\ ExpOK' /\ SpentOK' /\ issued' = issued
<1>1. token[r] \in 1..issued /\ issued \in 0..MaxTokens
  BY DEF TokenInv, CallsOK, DataTyped
<1>2. now + Second * remaining[r] \in Nat
  BY ParametersOK DEF TokenInv, DataTyped, CallsTyped
<1> DEFINE u == now + Second * remaining[r]
<1>3. jtis' \in [Tokens -> Nat]
  <2>1. u \in Nat /\ jtis' = [jtis EXCEPT ![token[r]] = u]
    BY <1>2 DEF Blacklisted
  <2> HIDE DEF u
  <2>2. QED
    BY <2>1 DEF TokenInv, DataTyped
<1>4. families' \in [Tokens -> Nat] /\ reused' \in SUBSET Tokens
  BY DEF TokenInv, DataTyped
<1>5. DataTyped' /\ ExpOK' /\ issued' = issued
  BY <1>3, <1>4, DataStep
<1>6. SpentOK'
  BY <1>1, <1>5 DEF TokenInv, SpentOK
<1>7. QED
  BY <1>5, <1>6

LEMMA TokenInvStep == TokenInv /\ [TokenNext]_tokenVars => TokenInv'
<1> SUFFICES ASSUME TokenInv, [TokenNext]_tokenVars
             PROVE  TokenInv'
  OBVIOUS
<1>1. /\ DataTyped /\ CallsTyped /\ RemainingOK /\ ExpOK /\ CallsOK /\ SpentOK
      /\ issued \in 0..MaxTokens /\ 1..issued \subseteq Tokens
      /\ 0 \in 0..MaxTokens
  <2>1. /\ DataTyped /\ CallsTyped /\ RemainingOK /\ ExpOK /\ CallsOK /\ SpentOK
        /\ issued \in 0..MaxTokens
    BY DEF TokenInv, DataTyped
  <2>2. MaxTokens \in Nat
    BY ParametersOK
  <2>3. QED
    BY <2>1, <2>2 DEF Tokens
<1>2. (DataTyped' /\ ExpOK' /\ SpentOK') /\ (CallsTyped' /\ RemainingOK' /\ CallsOK')
          => TokenInv'
  BY DEF TokenInv
<1>3. CASE Tick
  <2>1. /\ now < MaxTime /\ now' = now + 1
        /\ UNCHANGED <<issued, exp, family, parent, step, token, remaining,
                       spent, reused>>
    BY <1>3 DEF Tick, claims, call
  <2>2. jtis' \in [Tokens -> Nat] /\ families' \in [Tokens -> Nat]
    BY <1>1, <1>3 DEF Tick, KeysAt, DataTyped
  <2>3. DataTyped'
    BY <1>1, <2>1, <2>2, ParametersOK DEF DataTyped
  <2>4. ExpOK'
    <3>1. \A t \in 1..issued : exp[t] \in Nat
      BY <1>1 DEF DataTyped
    <3>2. QED
      BY <1>1, <2>1, <3>1, ParametersOK DEF ExpOK, DataTyped
  <2>5. SpentOK' /\ CallsTyped' /\ RemainingOK' /\ CallsOK'
    BY <1>1, <2>1 DEF SpentOK, CallsTyped, RemainingOK, CallsOK
  <2>6. QED
    BY <1>2, <2>3, <2>4, <2>5
<1>4. CASE Login
  <2>1. Issue(0) /\ UNCHANGED <<now, store, call, spent, reused>>
    BY <1>4 DEF Login
  <2>2. DataTyped' /\ ExpOK' /\ SpentOK' /\ issued' = issued + 1
    BY <1>1, <2>1, DataIssue
  <2>3. CallsTyped' /\ RemainingOK' /\ CallsOK'
    <3>1. UNCHANGED <<step, token, remaining>>
      BY <2>1 DEF call
    <3>2. \A t \in 1..issued : t \in 1..(issued + 1)
      BY <1>1
    <3>3. QED
      BY <1>1, <2>2, <3>1, <3>2 DEF CallsTyped, RemainingOK, CallsOK
  <2>4. QED
    BY <1>2, <2>2, <2>3
<1>5. ASSUME NEW r \in Rotations, RotationStep(r)
      PROVE  TokenInv'
  <2>1. /\ step[r] # "idle" => token[r] \in 1..issued
        /\ token[r] \in 0..MaxTokens /\ remaining[r] \in Nat
        /\ token = [token EXCEPT ![r] = token[r]]
        /\ remaining = [remaining EXCEPT ![r] = remaining[r]]
    BY <1>1 DEF CallsOK, CallsTyped
  <2>2. \A t \in 1..issued : /\ SecondsLeft(t) \in 1..MaxSeconds
                             /\ SecondsLeft(t) \in Nat
                             /\ t \in 0..MaxTokens
    BY <1>1, SecondsLeftOK, ParametersOK
  <2>3. CASE \E t \in Tokens : RotateDecode(r, t)
    <3>1. PICK t \in 1..issued : RotateDecode(r, t)
      BY <2>3 DEF RotateDecode, Decodes
    <3>2. DataTyped' /\ ExpOK' /\ SpentOK' /\ issued' = issued
      BY <3>1, DataUnchanged DEF RotateDecode
    <3>3. CallsTyped' /\ RemainingOK' /\ CallsOK'
      BY <2>1, <2>2, <3>1, <3>2, CallsStep DEF RotateDecode
    <3>4. QED
      BY <1>2, <3>2, <3>3
  <2>4. CASE \E t \in Tokens : RevokeDecode(r, t)
    <3>1. PICK t \in 1..issued : RevokeDecode(r, t)
      BY <2>4 DEF RevokeDecode, Decodes
    <3>2. DataTyped' /\ ExpOK' /\ SpentOK' /\ issued' = issued
      BY <3>1, DataUnchanged DEF RevokeDecode
    <3>3. CallsTyped' /\ RemainingOK' /\ CallsOK'
      BY <2>2, <3>1, <3>2, CallsStep DEF RevokeDecode
    <3>4. QED
      BY <1>2, <3>2, <3>3
  <2>5. CASE FamilyFine(r)
    <3>1. DataTyped' /\ ExpOK' /\ SpentOK' /\ issued' = issued
      BY <2>5, DataUnchanged DEF FamilyFine
    <3>2. token[r] \in 1..issued
      BY <2>5, <2>1 DEF FamilyFine
    <3>3. CallsTyped' /\ RemainingOK' /\ CallsOK'
      BY <2>5, <2>1, <2>2, <3>1, <3>2, CallsStep DEF FamilyFine
    <3>4. QED
      BY <1>2, <3>1, <3>3
  <2>6. CASE Claim(r)
    <3>1. DataTyped' /\ ExpOK' /\ SpentOK' /\ issued' = issued
      BY <2>6, BlacklistedOK DEF Claim
    <3>2. /\ token[r] \in 1..issued
          /\ step' = [step EXCEPT ![r] = "issue"]
          /\ token' = [token EXCEPT ![r] = token[r]]
          /\ remaining' = [remaining EXCEPT ![r] = remaining[r]]
      BY <2>6, <2>1 DEF Claim
    <3>3. CallsTyped' /\ RemainingOK' /\ CallsOK'
      BY <2>1, <3>1, <3>2, CallsStep
    <3>4. QED
      BY <1>2, <3>1, <3>3
  <2>7. CASE Rotate(r)
    <3>1. DataTyped' /\ ExpOK' /\ SpentOK' /\ issued' = issued + 1
      BY <2>7, <2>1, DataIssue DEF Rotate
    <3>2. CallsTyped' /\ RemainingOK' /\ CallsOK'
      BY <2>7, <3>1, CallReturns DEF Rotate
    <3>3. QED
      BY <1>2, <3>1, <3>2
  <2>8. CASE ReuseDetected(r)
    <3>1. DataTyped' /\ ExpOK' /\ SpentOK' /\ issued' = issued
      BY <2>8, DataUnchanged DEF ReuseDetected
    <3>2. /\ token[r] \in 1..issued
          /\ step' = [step EXCEPT ![r] = "reuse"]
          /\ token' = [token EXCEPT ![r] = token[r]]
          /\ remaining' = [remaining EXCEPT ![r] = remaining[r]]
      BY <2>8, <2>1 DEF ReuseDetected
    <3>3. CallsTyped' /\ RemainingOK' /\ CallsOK'
      BY <2>1, <3>1, <3>2, CallsStep
    <3>4. QED
      BY <1>2, <3>1, <3>3
  <2>9. CASE BlacklistFamily(r)
    <3>1. token[r] \in Tokens /\ now + FamilyTtl \in Nat
      BY <1>1, <2>1, <2>9, ParametersOK DEF BlacklistFamily, DataTyped
    <3>2. /\ jtis' \in [Tokens -> Nat] /\ families' \in [Tokens -> Nat]
          /\ reused' \in SUBSET Tokens
      BY <1>1, <2>9, <3>1 DEF BlacklistFamily, DataTyped
    <3>3. DataTyped' /\ ExpOK' /\ issued' = issued
      BY <2>9, <3>2, DataStep DEF BlacklistFamily
    <3>4. SpentOK'
      BY <1>1, <2>9, <3>3 DEF BlacklistFamily, SpentOK
    <3>5. CallsTyped' /\ RemainingOK' /\ CallsOK'
      BY <2>9, <3>3, CallReturns DEF BlacklistFamily
    <3>6. QED
      BY <1>2, <3>3, <3>4, <3>5
  <2>10. CASE Revoke(r)
    <3>1. DataTyped' /\ ExpOK' /\ SpentOK' /\ issued' = issued
      BY <2>10, BlacklistedOK DEF Revoke
    <3>2. CallsTyped' /\ RemainingOK' /\ CallsOK'
      BY <2>10, <3>1, CallReturns DEF Revoke
    <3>3. QED
      BY <1>2, <3>1, <3>2
  <2>11. CASE FamilyRevoked(r) \/ Breaks(r)
    <3>1. DataTyped' /\ ExpOK' /\ SpentOK' /\ issued' = issued
      BY <2>11, DataUnchanged DEF FamilyRevoked, Breaks
    <3>2. CallsTyped' /\ RemainingOK' /\ CallsOK'
      BY <2>11, <3>1, CallReturns DEF FamilyRevoked, Breaks
    <3>3. QED
      BY <1>2, <3>1, <3>2
  <2>12. QED
    BY <1>5, <2>3, <2>4, <2>5, <2>6, <2>7, <2>8, <2>9, <2>10, <2>11
    DEF RotationStep
<1>6. CASE UNCHANGED tokenVars
  BY <1>6, <1>1 DEF tokenVars, TokenInv, DataTyped, CallsTyped, RemainingOK, ExpOK,
    CallsOK, SpentOK, claims, store, call
<1>7. QED
  BY <1>3, <1>4, <1>5, <1>6 DEF TokenNext

\* Every variable keeps its type; a blacklist entry is always set for at least
\* one second and at most for the life of a token.
THEOREM TokensTyped == TokenSpec => []TokenTypeOK
<1>1. QED
  BY TokenInvTypes, TokenInvInit, TokenInvStep, PTL DEF TokenSpec

-----------------------------------------------------------------------------
(* A spent token stays spent *)

\* Up to the last second before its exp, a spent token is blacklisted; and the
\* entry a call is about to set will last as long.
LateFor(t) == now + Second > exp[t]
Covered(t) == jtis[t] # 0 /\ jtis[t] + Second > exp[t]

SpentCovered == \A t \in spent : LateFor(t) \/ Covered(t)

CallsCover ==
    \A r \in Rotations : step[r] \in {"claim", "revoke"} =>
        now + Second * remaining[r] + Second > exp[token[r]]

SpentInv == SpentCovered /\ CallsCover

\* A step that sets no blacklist entry and lets no time pass.
LEMMA SpentUntouched ==
    ASSUME TokenInv, SpentInv, UNCHANGED <<now, jtis, spent>>,
           \A t \in 1..issued : exp'[t] = exp[t],
           \A r \in Rotations : step'[r] \in {"claim", "revoke"} =>
              \/ /\ step[r] = step'[r] /\ token'[r] = token[r]
                 /\ remaining'[r] = remaining[r]
              \/ /\ token'[r] \in 1..issued
                 /\ remaining'[r] = SecondsLeft(token'[r])
    PROVE  SpentInv'
<1>1. SpentCovered'
  BY DEF TokenInv, SpentOK, SpentInv, SpentCovered, LateFor, Covered
<1>2. ASSUME NEW r \in Rotations, step'[r] \in {"claim", "revoke"}
      PROVE  now' + Second * remaining'[r] + Second > exp'[token'[r]]
  <2>1. CASE /\ step[r] = step'[r] /\ token'[r] = token[r]
             /\ remaining'[r] = remaining[r]
    <3>1. exp'[token[r]] = exp[token[r]]
      BY <1>2, <2>1 DEF TokenInv, CallsOK
    <3>2. now + Second * remaining[r] + Second > exp[token[r]]
      BY <1>2, <2>1 DEF SpentInv, CallsCover
    <3>3. QED
      BY <2>1, <3>1, <3>2
  <2>2. CASE /\ token'[r] \in 1..issued
             /\ remaining'[r] = SecondsLeft(token'[r])
    <3>1. now + Second * SecondsLeft(token'[r]) + Second > exp[token'[r]]
      BY <2>2, SecondsLeftOK
    <3>2. QED
      BY <2>2, <3>1
  <2>3. QED
    BY <1>2, <2>1, <2>2
<1>3. CallsCover'
  BY <1>2 DEF CallsCover
<1>4. QED
  BY <1>1, <1>3 DEF SpentInv

\* A step that sets the entry of the token a call was given.
LEMMA SpentSet ==
    ASSUME TokenInv, SpentInv, NEW r \in Rotations,
           step[r] \in {"claim", "revoke"}, Blacklisted(r),
           UNCHANGED <<now, exp>>, spent' = spent \cup {token[r]}
    PROVE  SpentCovered'
<1> DEFINE u == now + Second * remaining[r]
<1>1. token[r] \in Tokens /\ exp[token[r]] \in Nat /\ jtis \in [Tokens -> Nat]
  <2>1. /\ token[r] \in 1..issued /\ issued \in 0..MaxTokens
        /\ exp \in [Tokens -> Nat] /\ jtis \in [Tokens -> Nat]
    BY DEF TokenInv, CallsOK, DataTyped
  <2>2. token[r] \in Tokens
    BY <2>1, ParametersOK DEF Tokens
  <2>3. QED
    BY <2>1, <2>2
<1>2. u + Second > exp[token[r]]
  BY DEF SpentInv, CallsCover
<1>3. u \in Nat /\ u # 0
  <2>1. remaining[r] \in Nat \ {0}
    BY ParametersOK DEF TokenInv, RemainingOK
  <2>2. QED
    BY <2>1, ParametersOK DEF TokenInv, DataTyped
<1>4. jtis' = [jtis EXCEPT ![token[r]] = u]
  BY DEF Blacklisted
<1> HIDE DEF u
<1>5. ASSUME NEW t \in spent'
      PROVE  LateFor(t)' \/ Covered(t)'
  <2>1. CASE t = token[r]
    BY <1>1, <1>2, <1>3, <1>4, <2>1 DEF Covered
  <2>2. CASE t # token[r]
    <3>1. t \in spent /\ jtis'[t] = jtis[t]
      BY <1>1, <1>4, <2>2, <1>5 DEF TokenInv, SpentOK
    <3>2. QED
      BY <3>1 DEF SpentInv, SpentCovered, LateFor, Covered
  <2>3. QED
    BY <2>1, <2>2
<1>6. QED
  BY <1>5 DEF SpentCovered

LEMMA SpentInvStep ==
    TokenInv /\ SpentInv /\ [TokenNext]_tokenVars => SpentInv'
<1> SUFFICES ASSUME TokenInv, SpentInv, [TokenNext]_tokenVars
             PROVE  SpentInv'
  OBVIOUS
<1>1. /\ now \in Nat /\ issued \in 0..MaxTokens
      /\ exp \in [Tokens -> Nat] /\ jtis \in [Tokens -> Nat]
      /\ spent \subseteq 1..issued /\ 1..issued \subseteq Tokens
      /\ 0 \in 0..MaxTokens
      /\ CallsTyped /\ CallsOK
  BY ParametersOK DEF TokenInv, DataTyped, SpentOK, Tokens
<1>2. CASE Tick
  <2>1. /\ now' = now + 1
        /\ jtis' = [t \in Tokens |-> IF jtis[t] <= now + 1 THEN 0 ELSE jtis[t]]
        /\ UNCHANGED <<exp, spent, step, token, remaining>>
    BY <1>2 DEF Tick, KeysAt, claims, call
  <2>2. ASSUME NEW t \in spent
        PROVE  LateFor(t)' \/ Covered(t)'
    <3>1. /\ t \in Tokens /\ exp[t] \in Nat /\ jtis[t] \in Nat
          /\ jtis'[t] = IF jtis[t] <= now + 1 THEN 0 ELSE jtis[t]
          /\ Second \in Nat
      BY <1>1, <2>1, ParametersOK
    <3>2. CASE LateFor(t)
      BY <1>1, <2>1, <3>1, <3>2 DEF LateFor
    <3>3. CASE Covered(t) /\ jtis[t] <= now + 1
      BY <1>1, <2>1, <3>1, <3>3 DEF LateFor, Covered
    <3>4. CASE Covered(t) /\ ~(jtis[t] <= now + 1)
      BY <1>1, <2>1, <3>1, <3>4 DEF Covered
    <3>5. QED
      BY <3>2, <3>3, <3>4 DEF SpentInv, SpentCovered
  <2>3. SpentCovered'
    BY <2>1, <2>2 DEF SpentCovered
  <2>4. ASSUME NEW r \in Rotations, step[r] \in {"claim", "revoke"}
        PROVE  (now + 1) + Second * remaining[r] + Second > exp[token[r]]
    <3>1. now + Second * remaining[r] + Second > exp[token[r]]
      BY <2>4 DEF SpentInv, CallsCover
    <3>2. exp[token[r]] \in Nat /\ remaining[r] \in Nat
      BY <1>1, <2>4 DEF CallsOK, CallsTyped
    <3>3. QED
      BY <1>1, <3>1, <3>2, ParametersOK
  <2>5. CallsCover'
    BY <2>1, <2>4 DEF CallsCover
  <2>6. QED
    BY <2>3, <2>5 DEF SpentInv
<1>3. CASE Login
  <2>1. /\ Issue(0)
        /\ UNCHANGED <<now, jtis, spent, step, token, remaining>>
    BY <1>3 DEF Login, store, call
  <2>2. \A t \in 1..issued : exp'[t] = exp[t]
    BY <1>1, <2>1, IssueOK
  <2>3. QED
    BY <2>1, <2>2, SpentUntouched
<1>4. ASSUME NEW r \in Rotations, RotationStep(r)
      PROVE  SpentInv'
  <2>1. \A s, q \in Rotations :
            q # r => [step EXCEPT ![r] = s][q] = step[q]
    BY <1>1 DEF CallsTyped
  <2>2. CASE \E t \in Tokens : RotateDecode(r, t)
    BY <2>2, <1>1, SpentUntouched DEF RotateDecode, claims, store, CallsTyped
  <2>3. CASE \E t \in Tokens : RevokeDecode(r, t)
    BY <2>3, <1>1, SpentUntouched DEF RevokeDecode, Decodes, claims, store, CallsTyped
  <2>4. CASE FamilyFine(r)
    BY <2>4, <1>1, SpentUntouched DEF FamilyFine, claims, store, CallsTyped, CallsOK
  <2>5. CASE Rotate(r)
    <3>1. /\ token[r] \in 0..MaxTokens /\ Issue(token[r]) /\ Return(r)
          /\ UNCHANGED <<now, jtis, spent>>
      BY <2>5, <1>1 DEF Rotate, store, CallsTyped
    <3>2. \A t \in 1..issued : exp'[t] = exp[t]
      BY <3>1, IssueOK
    <3>3. QED
      BY <1>1, <3>1, <3>2, SpentUntouched DEF Return, CallsTyped
  <2>6. CASE ReuseDetected(r)
    BY <2>6, <1>1, SpentUntouched DEF ReuseDetected, claims, store, CallsTyped
  <2>7. CASE FamilyRevoked(r) \/ BlacklistFamily(r) \/ Breaks(r)
    <3>1. Return(r) /\ UNCHANGED <<now, jtis, spent, exp>>
      BY <2>7 DEF FamilyRevoked, BlacklistFamily, Breaks, claims, store
    <3>2. QED
      BY <1>1, <3>1, SpentUntouched DEF Return, CallsTyped
  <2>8. CASE Claim(r) \/ Revoke(r)
    <3>1. /\ step[r] \in {"claim", "revoke"} /\ Blacklisted(r)
          /\ UNCHANGED <<now, exp>> /\ spent' = spent \cup {token[r]}
      BY <2>8 DEF Claim, Revoke, claims
    <3>2. SpentCovered'
      BY <3>1, SpentSet
    <3>3. \A q \in Rotations : step'[q] \in {"claim", "revoke"} =>
                /\ step[q] = step'[q] /\ token'[q] = token[q]
                /\ remaining'[q] = remaining[q]
      <4>1. CASE Claim(r)
        BY <4>1, <1>1 DEF Claim, CallsTyped
      <4>2. CASE Revoke(r)
        BY <4>2, <1>1 DEF Revoke, Return, CallsTyped
      <4>3. QED
        BY <2>8, <4>1, <4>2
    <3>4. CallsCover'
      BY <3>1, <3>3 DEF SpentInv, CallsCover
    <3>5. QED
      BY <3>2, <3>4 DEF SpentInv
  <2>9. QED
    BY <1>4, <2>2, <2>3, <2>4, <2>5, <2>6, <2>7, <2>8 DEF RotationStep
<1>5. CASE UNCHANGED tokenVars
  BY <1>5, <1>1, SpentUntouched DEF tokenVars, claims, store, call
<1>6. QED
  BY <1>2, <1>3, <1>4, <1>5 DEF TokenNext

\* A refresh token that has been rotated or revoked is not rotated again before
\* its last second: the entry of a spent token outlives it up to there, however
\* the awaits of concurrent calls are ordered.
THEOREM SpentForever == TokenSpec => SpentForGood
<1> DEFINE Once == \A r \in Rotations :
               step[r] = "claim" /\ step'[r] = "issue" =>
                   \/ token[r] \notin spent
                   \/ now + Second > exp[token[r]]
<1>1. TokenInit => SpentInv
  BY DEF TokenInit, SpentInv, SpentCovered, CallsCover
<1>2. TokenInv /\ SpentInv /\ [TokenNext]_tokenVars => [Once]_tokenVars
  <2> SUFFICES ASSUME TokenInv, SpentInv, TokenNext, NEW r \in Rotations,
                      step[r] = "claim", step'[r] = "issue"
               PROVE  token[r] \notin spent \/ now + Second > exp[token[r]]
    OBVIOUS
  <2>1. step \in [Rotations -> {"idle", "family", "claim", "issue", "reuse",
                                "revoke"}]
    BY DEF TokenInv, CallsTyped
  <2>2. PICK q \in Rotations : RotationStep(q)
    BY DEF TokenNext, Tick, Login, call
  <2>3. jtis[token[r]] = 0
    BY <2>1, <2>2
    DEF RotationStep, RotateDecode, RevokeDecode, FamilyRevoked, FamilyFine, Claim,
        Rotate, ReuseDetected, BlacklistFamily, Revoke, Breaks, Return
  <2>4. QED
    BY <2>3 DEF SpentInv, SpentCovered, LateFor, Covered
<1>3. QED
  BY <1>1, <1>2, TokenInvInit, TokenInvStep, SpentInvStep, PTL
  DEF TokenSpec, SpentForGood

-----------------------------------------------------------------------------
(* Types of the API keys, and what links a record to its key *)

KeyStoreTyped ==
    /\ created \in 0..MaxKeys
    /\ prefix \in [Keys -> Prefixes \cup {NoPrefix}]
    /\ life \in [Keys -> {"unlimited", "fresh", "last", "expired"}]
    /\ record \in [Prefixes -> Record]
    /\ timer \in [Prefixes -> 0..MaxKeys]
    /\ revoked \subseteq 1..created
    /\ quiet \subseteq revoked

KeyCallsTyped ==
    /\ stage \in [Calls -> {"idle", "get", "store", "expire", "create"}]
    /\ doing \in [Calls -> {"none", "create", "verify", "refuse", "revoke",
                            "rotate"}]
    /\ copy \in [Calls -> Record]

PrefixOK == \A k \in 1..created : prefix[k] \in Prefixes

\* A record is that of a key with this prefix; a quiet key has no active one.
RecordOK(p) ==
    /\ record[p].key \in 0..created
    /\ record[p].active => record[p].key # 0 /\ record[p].key \notin quiet
    /\ record[p].key # 0 => prefix[record[p].key] = p

TimerOK(p) ==
    /\ timer[p] \in 0..created
    /\ timer[p] # 0 => prefix[timer[p]] = p

\* What a call at stage s, about d, may have in hand: an active record of a
\* quiet key is not written back, and one that was neither revoked nor rotated
\* is written as inactive only after its expiry.
CallOK(s, d, rec) ==
    /\ s \in {"get", "store", "expire"} => rec.key \in 1..created
    /\ s = "store" /\ rec.active => d = "verify" /\ rec.key \notin quiet
    /\ s = "store" /\ ~rec.active /\ d \notin {"revoke", "rotate"} =>
            life[rec.key] = "expired"

KeyStoreOK == PrefixOK /\ \A p \in Prefixes : RecordOK(p) /\ TimerOK(p)
KeyCallsOK == \A c \in Calls : CallOK(stage[c], doing[c], copy[c])

KeyInv == KeyStoreTyped /\ KeyCallsTyped /\ KeyStoreOK /\ KeyCallsOK

LEMMA KeyInvTypes == KeyInv => KeyTypeOK
<1> SUFFICES ASSUME KeyInv PROVE KeyTypeOK
  OBVIOUS
<1>1. revoked \in SUBSET Keys /\ quiet \in SUBSET revoked
  BY KeyAssumption DEF KeyInv, KeyStoreTyped, Keys
<1>2. \A p \in Prefixes : record[p].key = 0 => ~record[p].active
  BY DEF KeyInv, KeyStoreOK, RecordOK
<1>3. \A c \in Calls : /\ stage[c] \in {"get", "store", "expire"} =>
                               copy[c].key \in 1..created
                       /\ stage[c] = "store" /\ copy[c].active =>
                               doing[c] = "verify"
  BY DEF KeyInv, KeyCallsOK, CallOK
<1>4. QED
  BY <1>1, <1>2, <1>3 DEF KeyInv, KeyStoreTyped, KeyCallsTyped, KeyTypeOK

LEMMA KeyInvInit == KeyInit => KeyInv
<1> SUFFICES ASSUME KeyInit PROVE KeyInv
  OBVIOUS
<1>1. NoRecord \in Record /\ NoRecord.key = 0 /\ NoRecord.active = FALSE
  BY KeyAssumption DEF NoRecord, Record
<1>2. KeyStoreTyped /\ KeyCallsTyped
  BY <1>1, KeyAssumption DEF KeyInit, KeyStoreTyped, KeyCallsTyped
<1>3. PrefixOK
  BY DEF KeyInit, PrefixOK
<1>4. ASSUME NEW p \in Prefixes PROVE RecordOK(p) /\ TimerOK(p)
  BY <1>1 DEF KeyInit, RecordOK, TimerOK
<1>5. KeyCallsOK
  BY DEF KeyInit, KeyCallsOK, CallOK
<1>6. QED
  BY <1>2, <1>3, <1>4, <1>5 DEF KeyInv, KeyStoreOK

\* A call goes on, with a record it may have in hand, and no key becomes quiet.
LEMMA ProceedOK ==
    ASSUME KeyInv, NEW c \in Calls,
           NEW s \in {"idle", "get", "store", "expire", "create"},
           NEW d \in {"none", "create", "verify", "refuse", "revoke", "rotate"},
           NEW rec \in Record, Proceed(c, s, d, rec), CallOK(s, d, rec)',
           created' = created \/ created' = created + 1,
           \A k \in 1..created : life[k] = "expired" => life'[k] = "expired",
           quiet' = quiet
    PROVE  KeyCallsTyped' /\ KeyCallsOK'
<1>1. KeyCallsTyped /\ KeyCallsOK /\ created \in Nat
  BY KeyAssumption DEF KeyInv, KeyStoreTyped
<1>2. KeyCallsTyped'
  BY <1>1 DEF Proceed, KeyCallsTyped
<1>3. ASSUME NEW q \in Calls
      PROVE  CallOK(stage[q], doing[q], copy[q])'
  <2>1. CASE q = c
    <3>1. stage'[c] = s /\ doing'[c] = d /\ copy'[c] = rec
      BY <1>1 DEF Proceed, KeyCallsTyped
    <3>2. QED
      BY <2>1, <3>1 DEF CallOK
  <2>2. CASE q # c
    <3>1. stage'[q] = stage[q] /\ doing'[q] = doing[q] /\ copy'[q] = copy[q]
      BY <1>1, <2>2 DEF Proceed, KeyCallsTyped
    <3>2. CallOK(stage[q], doing[q], copy[q])
      BY <1>1 DEF KeyCallsOK
    <3>3. \A k : k \in 1..created => k \in 1..created'
      BY <1>1
    <3>4. QED
      BY <3>1, <3>2, <3>3 DEF CallOK
  <2>3. QED
    BY <2>1, <2>2
<1>4. QED
  BY <1>2, <1>3 DEF KeyCallsOK

\* A call returns.
LEMMA CallEnds ==
    ASSUME KeyInv, NEW c \in Calls, Proceed(c, "idle", "none", NoRecord),
           UNCHANGED <<created, life, quiet>>
    PROVE  KeyCallsTyped' /\ KeyCallsOK'
<1>1. NoRecord \in Record
  BY KeyAssumption DEF NoRecord, Record
<1>2. CallOK("idle", "none", NoRecord)'
  BY DEF CallOK
<1>3. QED
  BY <1>1, <1>2, ProceedOK

LEMMA CallGoesOn ==
    ASSUME KeyInv, NEW c \in Calls, Proceed(c, "create", "rotate", NoRecord),
           UNCHANGED <<created, life, quiet>>
    PROVE  KeyCallsTyped' /\ KeyCallsOK'
<1>1. NoRecord \in Record
  BY KeyAssumption DEF NoRecord, Record
<1>2. CallOK("create", "rotate", NoRecord)'
  BY DEF CallOK
<1>3. QED
  BY <1>1, <1>2, ProceedOK

LEMMA KeyStoreKept ==
    ASSUME KeyInv, UNCHANGED <<keyStore, revoked, quiet>>
    PROVE  KeyStoreTyped' /\ KeyStoreOK'
BY DEF KeyInv, KeyStoreTyped, KeyStoreOK, PrefixOK, RecordOK, TimerOK, keyStore

\* The record of a key with its copy inactive.
LEMMA InactiveOK ==
    ASSUME NEW rec \in Record
    PROVE  /\ Inactive(rec) \in Record
           /\ Inactive(rec).key = rec.key
           /\ Inactive(rec).active = FALSE
BY DEF Inactive, Record

\* A key is created, by create_key or at the end of rotate_api_key.
LEMMA NewKeyOK ==
    ASSUME KeyInv, NEW c \in Calls, NEW p \in Prefixes,
           NEW term \in {"unlimited", "fresh"}, NewKey(c, p, term)
    PROVE  KeyInv'
<1>1. PICK k : k = created + 1
  OBVIOUS
<1>2. /\ k \in Keys /\ created \in Nat /\ created' = created + 1
      /\ prefix' = [prefix EXCEPT ![k] = p]
      /\ life' = [life EXCEPT ![k] = term]
      /\ record' = [record EXCEPT ![p] = Active(k)]
      /\ timer' = [timer EXCEPT ![p] = 0]
      /\ revoked' = revoked /\ quiet' = quiet
      /\ Proceed(c, "expire", "create", Active(k))
      /\ created' \in 0..MaxKeys
  BY <1>1, KeyAssumption DEF NewKey, SetRecord, Active, KeyInv, KeyStoreTyped, Keys
<1>3. KeyStoreTyped /\ KeyCallsTyped /\ KeyStoreOK /\ quiet \subseteq 1..created
  BY DEF KeyInv, KeyStoreTyped
<1>4. Active(k) \in Record /\ Active(k).key = k /\ Active(k).active = TRUE
  BY <1>2, KeyAssumption DEF Active, Record, Keys
<1>5. /\ k \notin 1..created /\ k # 0
      /\ \A j \in 1..created : j \in Keys /\ j # k /\ j \in 1..created'
      /\ \A j \in 0..created : j \in 0..created'
      /\ \A j \in 1..created' : j \in 1..created \/ j = k
      /\ k \in 1..created'
  BY <1>1, <1>2, KeyAssumption DEF Keys
<1>6. KeyStoreTyped'
  <2>1. revoked' \subseteq 1..created' /\ quiet' \subseteq revoked'
    BY <1>2, <1>3, <1>5 DEF KeyStoreTyped
  <2>2. QED
    BY <1>2, <1>3, <1>4, <2>1, KeyAssumption DEF KeyStoreTyped
<1>7. \A j \in 1..created : prefix'[j] = prefix[j] /\ life'[j] = life[j]
  BY <1>2, <1>3, <1>5 DEF KeyStoreTyped
<1>8. prefix'[k] = p
  BY <1>2, <1>3 DEF KeyStoreTyped
<1>9. PrefixOK'
  BY <1>3, <1>5, <1>7, <1>8 DEF KeyStoreOK, PrefixOK
<1>10. ASSUME NEW x \in Prefixes PROVE RecordOK(x)' /\ TimerOK(x)'
  <2>1. CASE x = p
    <3>1. record'[x] = Active(k) /\ timer'[x] = 0
      BY <1>2, <1>3, <2>1 DEF KeyStoreTyped
    <3>2. k \notin quiet' /\ k \in 0..created' /\ 0 \in 0..created'
      BY <1>2, <1>3, <1>5
    <3>3. QED
      BY <1>4, <1>5, <1>8, <2>1, <3>1, <3>2 DEF RecordOK, TimerOK
  <2>2. CASE x # p
    <3>1. record'[x] = record[x] /\ timer'[x] = timer[x]
      BY <1>2, <1>3, <2>2 DEF KeyStoreTyped
    <3>2. RecordOK(x) /\ TimerOK(x)
      BY <1>3 DEF KeyStoreOK
    <3>3. \A j \in 0..created : j # 0 => j \in 1..created
      BY <1>2
    <3>4. QED
      BY <1>2, <1>5, <1>7, <3>1, <3>2, <3>3 DEF RecordOK, TimerOK
  <2>3. QED
    BY <2>1, <2>2
<1>11. KeyCallsTyped' /\ KeyCallsOK'
  <2>1. CallOK("expire", "create", Active(k))'
    BY <1>2, <1>4, <1>5 DEF CallOK
  <2>2. \A j \in 1..created : life[j] = "expired" => life'[j] = "expired"
    BY <1>7
  <2>3. QED
    BY <1>2, <1>4, <2>1, <2>2, ProceedOK
<1>12. QED
  BY <1>6, <1>9, <1>10, <1>11 DEF KeyInv, KeyStoreOK

\* store writes the record in hand.
LEMMA StoreRecordOK ==
    ASSUME KeyInv, NEW c \in Calls, StoreRecord(c)
    PROVE  KeyInv'
<1> DEFINE k == copy[c].key
           p == prefix[k]
           rec == copy[c]
<1>1. /\ stage[c] = "store" /\ k \in 1..created /\ p \in Prefixes /\ rec \in Record
      /\ rec.active => doing[c] = "verify" /\ k \notin quiet
      /\ doing[c] \in {"none", "create", "verify", "refuse", "revoke", "rotate"}
      /\ created \in 0..MaxKeys
  BY DEF StoreRecord, KeyInv, KeyCallsOK, CallOK, KeyCallsTyped, KeyStoreOK,
    PrefixOK, KeyStoreTyped
<1>2. /\ record' = [record EXCEPT ![p] = rec]
      /\ timer' = [timer EXCEPT ![p] = 0]
      /\ Proceed(c, "expire", doing[c], rec)
      /\ revoked' \subseteq revoked \cup {k} /\ revoked \subseteq revoked'
      /\ quiet' = quiet \cup {j \in revoked' \cap {k} :
                                ~rec.active /\ ~AboutToWrite(j)}
      /\ UNCHANGED <<created, prefix, life>>
  BY DEF StoreRecord, SetRecord, Writes
<1>3. /\ KeyStoreTyped /\ KeyCallsTyped /\ KeyStoreOK /\ KeyCallsOK
      /\ quiet \subseteq quiet' /\ quiet' \subseteq quiet \cup {k}
      /\ quiet' \subseteq revoked' /\ revoked' \subseteq 1..created
      /\ k \in quiet' => k \in quiet \/ (~rec.active /\ ~AboutToWrite(k))
  BY <1>1, <1>2 DEF KeyInv, KeyStoreTyped
<1>4. k # 0 /\ k \in 0..created
  BY <1>1
<1>5. \A r \in Record : r.active /\ r.key = k => r = Active(k)
  BY DEF Record, Active
<1>6. rec.key = k
  OBVIOUS
<1>7. AboutToWrite(k) <=> \E q \in Calls : stage[q] = "store" /\ copy[q] = Active(k)
  BY DEF AboutToWrite
<1> HIDE DEF k, p, rec
<1>8. KeyStoreTyped'
  BY <1>1, <1>2, <1>3, KeyAssumption DEF KeyStoreTyped
<1>9. PrefixOK'
  BY <1>2, <1>3 DEF KeyStoreOK, PrefixOK
<1>10. ASSUME NEW x \in Prefixes PROVE RecordOK(x)' /\ TimerOK(x)'
  <2>1. CASE x = p
    <3>1. record'[x] = rec /\ timer'[x] = 0
      BY <1>1, <1>2, <1>3, <2>1 DEF KeyStoreTyped
    <3>2. rec.active => k \notin quiet'
      BY <1>1, <1>3
    <3>3. RecordOK(x)'
      BY <1>2, <1>4, <1>6, <2>1, <3>1, <3>2 DEF RecordOK, p
    <3>4. TimerOK(x)'
      BY <1>1, <1>2, <3>1 DEF TimerOK
    <3>5. QED
      BY <3>3, <3>4
  <2>2. CASE x # p
    <3>1. record'[x] = record[x] /\ timer'[x] = timer[x]
      BY <1>1, <1>2, <1>3, <2>2 DEF KeyStoreTyped
    <3>2. RecordOK(x) /\ TimerOK(x)
      BY <1>3 DEF KeyStoreOK
    <3>3. record[x].key # k
      BY <1>4, <2>2, <3>2 DEF RecordOK, p
    <3>4. record[x].key \in quiet' => record[x].key \in quiet
      BY <1>3, <3>3
    <3>5. QED
      BY <1>2, <3>1, <3>2, <3>4 DEF RecordOK, TimerOK
  <2>3. QED
    BY <2>1, <2>2
<1>11. KeyCallsTyped'
  BY <1>1, <1>2, <1>3 DEF Proceed, KeyCallsTyped
<1>12. ASSUME NEW q \in Calls
      PROVE  CallOK(stage[q], doing[q], copy[q])'
  <2>1. CASE q = c
    <3>1. stage'[q] = "expire" /\ copy'[q] = rec
      BY <1>2, <1>3, <2>1 DEF Proceed, KeyCallsTyped
    <3>2. QED
      BY <1>1, <1>2, <1>6, <3>1 DEF CallOK
  <2>2. CASE q # c
    <3>1. stage'[q] = stage[q] /\ doing'[q] = doing[q] /\ copy'[q] = copy[q]
      BY <1>2, <1>3, <2>2 DEF Proceed, KeyCallsTyped
    <3>2. CallOK(stage[q], doing[q], copy[q]) /\ copy[q] \in Record
      BY <1>3 DEF KeyCallsOK, KeyCallsTyped
    <3>3. ASSUME stage[q] = "store", copy[q].active
          PROVE  copy[q].key \notin quiet'
      <4>1. copy[q].key \notin quiet
        BY <3>2, <3>3 DEF CallOK
      <4>2. copy[q].key = k => AboutToWrite(k)
        BY <1>5, <1>7, <3>2, <3>3
      <4>3. QED
        BY <1>3, <4>1, <4>2
    <3>4. QED
      BY <1>2, <3>1, <3>2, <3>3 DEF CallOK
  <2>3. QED
    BY <2>1, <2>2
<1>13. QED
  BY <1>8, <1>9, <1>10, <1>11, <1>12 DEF KeyInv, KeyStoreOK, KeyCallsOK

\* A call that takes a record in hand, the store being left alone.
LEMMA TakesOK ==
    ASSUME KeyInv, NEW c \in Calls,
           NEW s \in {"idle", "get", "store", "expire", "create"},
           NEW d \in {"none", "create", "verify", "refuse", "revoke", "rotate"},
           NEW rec \in Record, Proceed(c, s, d, rec),
           UNCHANGED <<keyStore, revoked, quiet>>, CallOK(s, d, rec)'
    PROVE  KeyInv'
<1>1. KeyStoreTyped' /\ KeyStoreOK'
  BY KeyStoreKept
<1>2. KeyCallsTyped' /\ KeyCallsOK'
  BY ProceedOK DEF keyStore
<1>3. QED
  BY <1>1, <1>2 DEF KeyInv

\* The EXPIRE of a store.
LEMMA StoreExpireOK ==
    ASSUME KeyInv, NEW c \in Calls, StoreExpire(c)
    PROVE  KeyInv'
<1>1. PICK k, p : k = copy[c].key /\ p = prefix[k]
  OBVIOUS
<1>2. /\ k \in 1..created /\ p \in Prefixes /\ created \in 0..MaxKeys
      /\ KeyStoreTyped /\ KeyStoreOK
  BY <1>1
  DEF StoreExpire, KeyInv, KeyCallsOK, CallOK, KeyStoreOK, PrefixOK, KeyStoreTyped
<1>3. /\ timer' = timer \/ timer' = [timer EXCEPT ![p] = k]
      /\ UNCHANGED <<created, prefix, life, record, revoked, quiet>>
  BY <1>1 DEF StoreExpire
<1>4. KeyStoreTyped'
  BY <1>2, <1>3, KeyAssumption DEF KeyStoreTyped
<1>5. PrefixOK'
  BY <1>2, <1>3 DEF KeyStoreOK, PrefixOK
<1>6. ASSUME NEW x \in Prefixes PROVE RecordOK(x)' /\ TimerOK(x)'
  <2>1. RecordOK(x) /\ TimerOK(x)
    BY <1>2 DEF KeyStoreOK
  <2>2. timer'[x] = timer[x] \/ (x = p /\ timer'[x] = k)
    BY <1>2, <1>3 DEF KeyStoreTyped
  <2>3. k \in 0..created
    BY <1>2
  <2>4. QED
    BY <1>1, <1>3, <2>1, <2>2, <2>3 DEF RecordOK, TimerOK
<1>7. KeyCallsTyped' /\ KeyCallsOK'
  <2>1. UNCHANGED <<created, life, quiet>>
    BY <1>3
  <2>2. CASE Proceed(c, "create", "rotate", NoRecord)
    BY <2>1, <2>2, CallGoesOn
  <2>3. CASE Proceed(c, "idle", "none", NoRecord)
    BY <2>1, <2>3, CallEnds
  <2>4. QED
    BY <2>2, <2>3 DEF StoreExpire
<1>8. QED
  BY <1>4, <1>5, <1>6, <1>7 DEF KeyInv, KeyStoreOK

LEMMA AgesOK ==
    ASSUME KeyInv, NEW k \in Keys, Ages(k)
    PROVE  KeyInv'
<1>1. /\ KeyStoreTyped /\ KeyCallsTyped /\ KeyStoreOK /\ KeyCallsOK
      /\ k \in 1..created /\ life[k] # "expired"
      /\ life' = [life EXCEPT ![k] = IF life[k] = "fresh" THEN "last" ELSE "expired"]
      /\ UNCHANGED <<created, prefix, record, timer, stage, doing, copy, revoked,
                     quiet>>
  BY DEF KeyInv, Ages, keyCalls
<1>2. KeyStoreTyped' /\ KeyCallsTyped'
  BY <1>1 DEF KeyStoreTyped, KeyCallsTyped
<1>3. KeyStoreOK'
  BY <1>1 DEF KeyStoreOK, PrefixOK, RecordOK, TimerOK
<1>4. \A j \in 1..created : life[j] = "expired" => life'[j] = "expired"
  <2>1. \A j \in 1..created : j \in Keys
    BY <1>1, KeyAssumption DEF KeyStoreTyped, Keys
  <2>2. QED
    BY <1>1, <2>1 DEF KeyStoreTyped
<1>5. KeyCallsOK'
  BY <1>1, <1>4 DEF KeyCallsOK, CallOK
<1>6. QED
  BY <1>2, <1>3, <1>5 DEF KeyInv

LEMMA VanishesOK ==
    ASSUME KeyInv, NEW p \in Prefixes, Vanishes(p)
    PROVE  KeyInv'
<1>1. /\ KeyStoreTyped /\ KeyCallsTyped /\ KeyStoreOK /\ KeyCallsOK
      /\ record' = [record EXCEPT ![p] = NoRecord]
      /\ timer' = [timer EXCEPT ![p] = 0]
      /\ UNCHANGED <<created, prefix, life, stage, doing, copy, revoked, quiet>>
  BY DEF KeyInv, Vanishes, keyCalls
<1>2. /\ NoRecord \in Record /\ NoRecord.key = 0 /\ NoRecord.active = FALSE
      /\ 0 \in 0..MaxKeys /\ 0 \in 0..created
  BY <1>1, KeyAssumption DEF NoRecord, Record, KeyStoreTyped
<1>3. KeyStoreTyped' /\ KeyCallsTyped'
  BY <1>1, <1>2 DEF KeyStoreTyped, KeyCallsTyped
<1>4. PrefixOK'
  BY <1>1 DEF KeyStoreOK, PrefixOK
<1>5. ASSUME NEW x \in Prefixes PROVE RecordOK(x)' /\ TimerOK(x)'
  <2>1. RecordOK(x) /\ TimerOK(x)
    BY <1>1 DEF KeyStoreOK
  <2>2. \/ record'[x] = NoRecord /\ timer'[x] = 0
        \/ record'[x] = record[x] /\ timer'[x] = timer[x]
    BY <1>1 DEF KeyStoreTyped
  <2>3. QED
    BY <1>1, <1>2, <2>1, <2>2 DEF RecordOK, TimerOK
<1>6. KeyCallsOK'
  BY <1>1 DEF KeyCallsOK, CallOK
<1>7. QED
  BY <1>3, <1>4, <1>5, <1>6 DEF KeyInv, KeyStoreOK

LEMMA KeyInvStep == KeyInv /\ [KeyNext]_keyVars => KeyInv'
<1> SUFFICES ASSUME KeyInv, [KeyNext]_keyVars
             PROVE  KeyInv'
  OBVIOUS
<1>1. CASE UNCHANGED keyVars
  BY <1>1 DEF keyVars, keyStore, keyCalls, KeyInv, KeyStoreTyped, KeyCallsTyped,
    KeyStoreOK, PrefixOK, RecordOK, TimerOK, KeyCallsOK, CallOK
<1>2. CASE \E k \in Keys : Ages(k)
  BY <1>2, AgesOK
<1>3. CASE \E p \in Prefixes : Vanishes(p)
  BY <1>3, VanishesOK
<1>4. ASSUME NEW c \in Calls, KeyCall(c)
      PROVE  KeyInv'
  <2>1. \A p \in Prefixes : /\ record[p] \in Record /\ RecordOK(p)
                            /\ Inactive(record[p]) \in Record
                            /\ Inactive(record[p]).key = record[p].key
                            /\ Inactive(record[p]).active = FALSE
                            /\ record[p].key # 0 => record[p].key \in 1..created
    <3> SUFFICES ASSUME NEW p \in Prefixes
                 PROVE  /\ record[p] \in Record /\ RecordOK(p)
                        /\ Inactive(record[p]) \in Record
                        /\ Inactive(record[p]).key = record[p].key
                        /\ Inactive(record[p]).active = FALSE
                        /\ record[p].key # 0 => record[p].key \in 1..created
      OBVIOUS
    <3>1. record[p] \in Record /\ RecordOK(p) /\ created \in Nat
      BY KeyAssumption DEF KeyInv, KeyStoreTyped, KeyStoreOK
    <3>2. record[p].key # 0 => record[p].key \in 1..created
      BY <3>1 DEF RecordOK
    <3>3. QED
      BY <3>1, <3>2, InactiveOK
  <2>2. \A k \in 1..created : prefix[k] \in Prefixes
    BY DEF KeyInv, KeyStoreOK, PrefixOK
  <2>3. CASE \E k \in Keys : VerifyGet(c, k)
    <3>1. PICK k \in 1..created, p \in Prefixes :
              /\ VerifyGet(c, k) /\ p = prefix[k] /\ record[p].key = k
              /\ record[p].active
      BY <2>3, <2>2 DEF VerifyGet, Usable
    <3>2. PICK rec \in Record : rec = record[p]
      BY <2>1
    <3>3. /\ Proceed(c, "store", "verify", rec)
          /\ UNCHANGED <<keyStore, revoked, quiet>>
      BY <3>1, <3>2 DEF VerifyGet
    <3>4. CallOK("store", "verify", rec)'
      BY <2>1, <3>1, <3>2, <3>3 DEF CallOK, RecordOK, keyStore
    <3>5. QED
      BY <3>3, <3>4, TakesOK
  <2>4. CASE \E p \in Prefixes : GetLapsed(c, p)
    <3>1. PICK p \in Prefixes : GetLapsed(c, p)
      BY <2>4
    <3>2. PICK rec \in Record : rec = Inactive(record[p])
      BY <2>1
    <3>3. /\ Proceed(c, "store", "refuse", rec) /\ Lapsed(p)
          /\ UNCHANGED <<keyStore, revoked, quiet>>
      BY <3>1, <3>2 DEF GetLapsed
    <3>4. CallOK("store", "refuse", rec)'
      BY <2>1, <3>2, <3>3 DEF CallOK, Lapsed, keyStore
    <3>5. QED
      BY <3>3, <3>4, TakesOK
  <2>5. CASE \E p \in Prefixes : RevokeGet(c, p)
    <3>1. PICK p \in Prefixes : RevokeGet(c, p)
      BY <2>5
    <3>2. PICK rec \in Record : rec = Inactive(record[p])
      BY <2>1
    <3>3. /\ Proceed(c, "store", "revoke", rec) /\ record[p].active
          /\ UNCHANGED <<keyStore, revoked, quiet>>
      BY <3>1, <3>2 DEF RevokeGet, Usable
    <3>4. CallOK("store", "revoke", rec)'
      BY <2>1, <3>2, <3>3 DEF CallOK, RecordOK, keyStore
    <3>5. QED
      BY <3>3, <3>4, TakesOK
  <2>6. CASE \E p \in Prefixes : RotateList(c, p)
    <3>1. PICK p \in Prefixes : RotateList(c, p)
      BY <2>6
    <3>2. PICK rec \in Record : rec = record[p]
      BY <2>1
    <3>3. /\ Proceed(c, "get", "rotate", rec) /\ record[p].active
          /\ UNCHANGED <<keyStore, revoked, quiet>>
      BY <3>1, <3>2 DEF RotateList
    <3>4. CallOK("get", "rotate", rec)'
      BY <2>1, <3>2, <3>3 DEF CallOK, RecordOK, keyStore
    <3>5. QED
      BY <3>3, <3>4, TakesOK
  <2>7. CASE \E p \in Prefixes : RotateCreate(c, p)
    BY <2>7, NewKeyOK DEF RotateCreate
  <2>8. CASE \E p \in Prefixes : \E term \in {"unlimited", "fresh"} :
                 CreateKey(c, p, term)
    BY <2>8, NewKeyOK DEF CreateKey
  <2>9. CASE RotateGet(c)
    <3>1. PICK p : p = prefix[copy[c].key]
      OBVIOUS
    <3>2. p \in Prefixes
      BY <2>9, <2>2, <3>1 DEF RotateGet, KeyInv, KeyCallsOK, CallOK
    <3>3. PICK rec \in Record : rec = Inactive(record[p])
      BY <2>1, <3>2
    <3>4. UNCHANGED <<keyStore, revoked, quiet>>
      BY <2>9 DEF RotateGet
    <3>5. CASE record[p].active \/ Lapsed(p)
      <4>1. Proceed(c, "store", "rotate", rec)
        BY <2>9, <3>1, <3>3, <3>5 DEF RotateGet
      <4>2. CallOK("store", "rotate", rec)'
        BY <2>1, <3>2, <3>3, <3>4, <3>5 DEF CallOK, RecordOK, Lapsed, keyStore
      <4>3. QED
        BY <3>4, <4>1, <4>2, TakesOK
    <3>6. CASE ~(record[p].active \/ Lapsed(p))
      <4>1. Proceed(c, "create", "rotate", NoRecord)
        BY <2>9, <3>1, <3>6 DEF RotateGet
      <4>2. KeyCallsTyped' /\ KeyCallsOK'
        BY <3>4, <4>1, CallGoesOn DEF keyStore
      <4>3. QED
        BY <3>4, <4>2, KeyStoreKept DEF KeyInv
    <3>7. QED
      BY <3>5, <3>6
  <2>10. CASE StoreRecord(c)
    BY <2>10, StoreRecordOK
  <2>11. CASE StoreExpire(c)
    BY <2>11, StoreExpireOK
  <2>12. CASE KeyCallBreaks(c)
    <3>1. KeyCallsTyped' /\ KeyCallsOK'
      BY <2>12, CallEnds DEF KeyCallBreaks, keyStore
    <3>2. QED
      BY <2>12, <3>1, KeyStoreKept DEF KeyInv, KeyCallBreaks
  <2>13. QED
    BY <1>4, <2>3, <2>4, <2>5, <2>6, <2>7, <2>8, <2>9, <2>10, <2>11, <2>12 DEF KeyCall
<1>5. QED
  BY <1>1, <1>2, <1>3, <1>4 DEF KeyNext

\* Every variable keeps its type; what a call has in hand while it talks to
\* Redis is the record of a key that exists, active only in a verification.
THEOREM KeysTyped == KeySpec => []KeyTypeOK
<1>1. QED
  BY KeyInvTypes, KeyInvInit, KeyInvStep, PTL DEF KeySpec

\* A key revoked while no verification of it is under way is never active again,
\* under any prefix: no record of it in Redis is, and none that a call has in
\* hand to write.
THEOREM RevocationLasts == KeySpec => []RevokedStaysOut
<1>1. KeyInv => RevokedStaysOut
  BY DEF KeyInv, KeyStoreOK, RecordOK, RevokedStaysOut, Active
<1>2. QED
  BY <1>1, KeyInvInit, KeyInvStep, PTL DEF KeySpec

\* A key that is in order stays in order only while it was before.
LEMMA ValidBefore ==
    ASSUME KeyInv, ValidKept, NEW k \in 1..created,
           created' = created \/ created' = created + 1,
           \A j \in 1..created : prefix'[j] = prefix[j],
           life[k] \in {"last", "expired"} => life'[k] \in {"last", "expired"},
           revoked \subseteq revoked',
           k \notin revoked', life'[k] \in {"unlimited", "fresh"}, Alone(k)'
    PROVE  /\ record[prefix[k]] = Active(k)
           /\ life[k] \in {"unlimited", "fresh"} /\ Alone(k)
<1>1. created \in Nat /\ k \in Keys
      /\ life \in [Keys -> {"unlimited", "fresh", "last", "expired"}]
  BY KeyAssumption DEF KeyInv, KeyStoreTyped, Keys
<1>2. \A j \in 1..created : j \in 1..created'
  BY <1>1
<1>3. Alone(k)
  BY <1>2 DEF Alone
<1>4. life[k] \in {"unlimited", "fresh"}
  BY <1>1
<1>5. QED
  BY <1>3, <1>4 DEF ValidKept

\* A step that leaves the records alone keeps valid keys valid.
LEMMA ValidUntouched ==
    ASSUME KeyInv, ValidKept, UNCHANGED <<created, prefix, record, revoked>>,
           \A k \in 1..created :
                life[k] \in {"last", "expired"} => life'[k] \in {"last", "expired"}
    PROVE  ValidKept'
<1> SUFFICES ASSUME NEW k \in 1..created, k \notin revoked',
                    life'[k] \in {"unlimited", "fresh"}, Alone(k)'
             PROVE  record'[prefix'[k]] = Active(k)
  BY DEF ValidKept
<1>1. record[prefix[k]] = Active(k)
  BY ValidBefore
<1>2. QED
  BY <1>1

LEMMA ValidNewKey ==
    ASSUME KeyInv, ValidKept, NEW c \in Calls, NEW p \in Prefixes,
           NEW term \in {"unlimited", "fresh"}, NewKey(c, p, term)
    PROVE  ValidKept'
<1>1. PICK n : n = created + 1
  OBVIOUS
<1>2. /\ n \in Keys /\ created \in Nat /\ created' = created + 1
      /\ prefix' = [prefix EXCEPT ![n] = p]
      /\ life' = [life EXCEPT ![n] = term]
      /\ record' = [record EXCEPT ![p] = Active(n)]
      /\ revoked' = revoked
      /\ KeyStoreTyped
  BY <1>1, KeyAssumption
  DEF NewKey, SetRecord, Active, KeyInv, KeyStoreTyped, Keys
<1>3. \A j \in 1..created : /\ j \in Keys /\ j # n
                            /\ prefix'[j] = prefix[j] /\ life'[j] = life[j]
  <2>1. \A j \in 1..created : j \in Keys /\ j # n
    BY <1>1, <1>2, KeyAssumption DEF KeyStoreTyped, Keys
  <2>2. QED
    BY <1>2, <2>1 DEF KeyStoreTyped
<1>4. prefix'[n] = p /\ record'[p] = Active(n) /\ n \in 1..created'
  BY <1>1, <1>2 DEF KeyStoreTyped
<1> SUFFICES ASSUME NEW k \in 1..created', k \notin revoked',
                    life'[k] \in {"unlimited", "fresh"}, Alone(k)'
             PROVE  record'[prefix'[k]] = Active(k)
  BY DEF ValidKept
<1>5. CASE k = n
  BY <1>4, <1>5
<1>6. CASE k # n
  <2>1. k \in 1..created
    BY <1>1, <1>2, <1>6
  <2>2. record[prefix[k]] = Active(k)
    BY <1>2, <1>3, <2>1, ValidBefore
  <2>3. prefix'[k] = prefix[k] /\ prefix[k] # p
    BY <1>3, <1>4, <1>6, <2>1 DEF Alone
  <2>4. QED
    BY <1>2, <2>2, <2>3 DEF KeyStoreTyped
<1>7. QED
  BY <1>5, <1>6

\* A write-back of a valid key's record writes it as it is: a verification has
\* it in hand as active, a revocation counts as one, and what a lapsed record is
\* replaced by is not about a valid key.
LEMMA ValidStore ==
    ASSUME KeyInv, ValidKept, NEW c \in Calls, StoreRecord(c)
    PROVE  ValidKept'
<1>1. PICK n, rec : n = copy[c].key /\ rec = copy[c]
  OBVIOUS
<1>2. /\ stage[c] = "store" /\ CallOK("store", doing[c], rec) /\ n = rec.key
      /\ rec \in Record /\ KeyStoreTyped
  BY <1>1 DEF StoreRecord, KeyInv, KeyCallsOK, KeyCallsTyped
<1>3. /\ record' = [record EXCEPT ![prefix[n]] = rec]
      /\ revoked' = revoked \cup {j \in {n} : doing[c] \in {"revoke", "rotate"}}
      /\ UNCHANGED <<created, prefix, life>>
  BY <1>1 DEF StoreRecord, SetRecord, Writes
<1> SUFFICES ASSUME NEW k \in 1..created, k \notin revoked',
                    life'[k] \in {"unlimited", "fresh"}, Alone(k)'
             PROVE  record'[prefix'[k]] = Active(k)
  BY <1>3 DEF ValidKept
<1>4. record[prefix[k]] = Active(k) /\ Alone(k)
  BY <1>3, ValidBefore
<1>5. CASE n = k
  <2>1. doing[c] \notin {"revoke", "rotate"} /\ life[k] # "expired"
    BY <1>3, <1>5
  <2>2. rec.active /\ rec.key = k
    BY <1>2, <1>5, <2>1 DEF CallOK
  <2>3. rec = Active(k)
    BY <1>2, <2>2 DEF Record, Active
  <2>4. prefix[k] \in Prefixes
    BY DEF KeyInv, KeyStoreOK, PrefixOK
  <2>5. QED
    BY <1>2, <1>3, <1>5, <2>3, <2>4 DEF KeyStoreTyped
<1>6. CASE n # k
  <2>1. n \in 1..created
    BY <1>2 DEF CallOK
  <2>2. prefix[n] # prefix[k]
    BY <1>4, <1>6, <2>1 DEF Alone
  <2>3. QED
    BY <1>2, <1>3, <1>4, <2>2 DEF KeyStoreTyped
<1>7. QED
  BY <1>5, <1>6

\* What vanishes is not the record of a valid key: its time to live was set for
\* a key with that prefix, whose time is over.
LEMMA ValidVanishes ==
    ASSUME KeyInv, ValidKept, NEW p \in Prefixes, Vanishes(p)
    PROVE  ValidKept'
<1>1. /\ timer[p] # 0 /\ life[timer[p]] \in {"last", "expired"}
      /\ record' = [record EXCEPT ![p] = NoRecord]
      /\ UNCHANGED <<created, prefix, life, revoked>>
      /\ KeyStoreTyped /\ TimerOK(p)
  BY DEF Vanishes, KeyInv, KeyStoreOK
<1> SUFFICES ASSUME NEW k \in 1..created, k \notin revoked',
                    life'[k] \in {"unlimited", "fresh"}, Alone(k)'
             PROVE  record'[prefix'[k]] = Active(k)
  BY <1>1 DEF ValidKept
<1>2. record[prefix[k]] = Active(k) /\ Alone(k) /\ timer[p] # k
  BY <1>1, ValidBefore
<1>3. timer[p] \in 1..created
  BY <1>1, KeyAssumption DEF TimerOK, KeyStoreTyped
<1>4. p # prefix[k]
  BY <1>1, <1>2, <1>3 DEF TimerOK, Alone
<1>5. QED
  BY <1>1, <1>2, <1>4 DEF KeyStoreTyped

LEMMA ValidStep == KeyInv /\ ValidKept /\ [KeyNext]_keyVars => ValidKept'
<1> SUFFICES ASSUME KeyInv, ValidKept, [KeyNext]_keyVars
             PROVE  ValidKept'
  OBVIOUS
<1>1. CASE UNCHANGED keyVars
  BY <1>1, ValidUntouched DEF keyVars, keyStore
<1>2. CASE \E k \in Keys : Ages(k)
  <2>1. PICK k \in Keys : Ages(k)
    BY <1>2
  <2>2. /\ UNCHANGED <<created, prefix, record, revoked>>
        /\ life' = [life EXCEPT ![k] = IF life[k] = "fresh" THEN "last"
                                                            ELSE "expired"]
        /\ life \in [Keys -> {"unlimited", "fresh", "last", "expired"}]
        /\ \A j \in 1..created : j \in Keys
    BY <2>1, KeyAssumption DEF Ages, KeyInv, KeyStoreTyped, Keys
  <2>3. \A j \in 1..created :
            life[j] \in {"last", "expired"} => life'[j] \in {"last", "expired"}
    BY <2>1, <2>2 DEF Ages
  <2>4. QED
    BY <2>2, <2>3, ValidUntouched
<1>3. CASE \E p \in Prefixes : Vanishes(p)
  BY <1>3, ValidVanishes
<1>4. ASSUME NEW c \in Calls, KeyCall(c)
      PROVE  ValidKept'
  <2>1. CASE \/ \E k \in Keys : VerifyGet(c, k)
             \/ \E p \in Prefixes :
                    GetLapsed(c, p) \/ RevokeGet(c, p) \/ RotateList(c, p)
             \/ RotateGet(c) \/ KeyCallBreaks(c)
    <3>1. UNCHANGED <<created, prefix, record, revoked, life>>
      BY <2>1 DEF VerifyGet, GetLapsed, RevokeGet, RotateList, RotateGet,
        KeyCallBreaks, keyStore
    <3>2. QED
      BY <3>1, ValidUntouched
  <2>2. CASE StoreExpire(c)
    <3>1. UNCHANGED <<created, prefix, record, revoked, life>>
      BY <2>2 DEF StoreExpire
    <3>2. QED
      BY <3>1, ValidUntouched
  <2>3. CASE \E p \in Prefixes : RotateCreate(c, p)
    BY <2>3, ValidNewKey DEF RotateCreate
  <2>4. CASE \E p \in Prefixes : \E term \in {"unlimited", "fresh"} :
                 CreateKey(c, p, term)
    BY <2>4, ValidNewKey DEF CreateKey
  <2>5. CASE StoreRecord(c)
    BY <2>5, ValidStore
  <2>6. QED
    BY <1>4, <2>1, <2>2, <2>3, <2>4, <2>5 DEF KeyCall
<1>5. QED
  BY <1>1, <1>2, <1>3, <1>4 DEF KeyNext

\* A key that nobody revokes and that has not expired keeps its active record,
\* unless another key was given the same prefix.
THEOREM ValidKeysKept == KeySpec => []ValidKept
<1>1. KeyInit => ValidKept
  BY DEF KeyInit, ValidKept
<1>2. QED
  BY <1>1, KeyInvInit, KeyInvStep, ValidStep, PTL DEF KeySpec

\* Both guarantees about API keys, in the form in which the run checks them.
THEOREM KeysAlwaysHonoured == KeySpec => []KeysHonoured
BY RevocationLasts, ValidKeysKept, PTL DEF KeysHonoured

-----------------------------------------------------------------------------
(* Access tokens *)

\* The inductive invariant.
AccessInv ==
    /\ AccessTypeOK
    /\ \A t \in Jwts :
           /\ jwts[t].type = "access" => t % 2 = 1
           /\ jwts[t].type = "refresh" => jwts[t].scopes = {}
           /\ jwts[t].scopes \subseteq chosen[t]
           /\ blocked[t] # 0 => t \in Issued /\ blocked[t] >= jwts[t].exp
    /\ lookup # 0 => lookup \in Issued
    /\ withdrawn => lookup # 0 /\ blocked[lookup] # 0
    /\ IntrospectionTruthful

AccessConstants ==
    /\ AccessTtl \in Nat /\ RefreshLife \in Nat /\ ClockLeeway \in Nat
    /\ MaxPairs \in Nat /\ MaxDeployments \in Nat /\ MaxJwtTime \in Nat
    /\ Deployments \subseteq Configs

LEMMA AccessConstantsHold == AccessConstants
BY AccessAssumption DEF AccessConstants

LEMMA AccessInvInit == AccessInit => AccessInv
<1> SUFFICES ASSUME AccessInit PROVE AccessInv
  OBVIOUS
<1> USE AccessConstantsHold DEF AccessConstants, AccessInit
<1>1. NoClaims \in Claims /\ NoClaims.type = "none" /\ NoClaims.scopes = {}
  BY DEF NoClaims, Claims
<1>2. \A t \in Jwts : jwts[t] = NoClaims
  OBVIOUS
<1>3. Issued = {}
  BY <1>1, <1>2 DEF Issued
<1>4. 2 * MaxPairs \in Nat
  OBVIOUS
<1>5. AccessTypeOK
  <2>1. withdrawn \in BOOLEAN
    OBVIOUS
  <2>2. /\ clock \in 0..MaxJwtTime /\ deployed \in 0..MaxDeployments
        /\ lookup \in 0..(2 * MaxPairs)
    BY <1>4
  <2>3. /\ jwts \in [Jwts -> Claims] /\ blocked \in [Jwts -> Nat]
        /\ holder \in [Jwts -> Bearers \cup {NoBearer}]
        /\ chosen \in [Jwts -> SUBSET Rights]
    BY <1>1
  <2>4. outcome \in [token : 0..(2 * MaxPairs), active : BOOLEAN, early : BOOLEAN]
    BY <1>4 DEF Nothing
  <2>5. jwtConfig \in Deployments
    OBVIOUS
  <2>6. QED
    BY <1>3, <2>1, <2>2, <2>3, <2>4, <2>5 DEF AccessTypeOK
<1>6. QED
  BY <1>1, <1>2, <1>5 DEF AccessInv, IntrospectionTruthful

\* What the keys of a configuration are.
LEMMA KeysFit ==
    ASSUME jwtConfig \in Configs
    PROVE  /\ SigningKey \in KeyPairs \cup {SecretKey, NoPair}
           /\ VerificationKey \in KeyPairs \cup {SecretKey, NoPair}
           /\ jwtConfig.asymmetric <=> VerificationKey # SecretKey
<1>1. /\ jwtConfig.asymmetric \in BOOLEAN
         /\ jwtConfig.private \in KeyPairs \cup {NoPair}
      /\ jwtConfig.public \in KeyPairs \cup {NoPair}
  BY DEF Configs
<1>2. QED
  BY <1>1, AccessAssumption DEF SigningKey, VerificationKey

LEMMA NewPairKeeps ==
    ASSUME AccessTypeOK, NEW b, NEW S \in SUBSET Rights, NEW bind,
           NEW named \in SUBSET Rights,
           b \in Bearers \cup {NoBearer}, bind \in Bearers \cup {NoBearer},
           S \subseteq named,
           SigningKey # NoPair, NewPair(b, S, bind, named)
    PROVE  /\ jwts' \in [Jwts -> Claims]
           /\ holder' \in [Jwts -> Bearers \cup {NoBearer}]
           /\ chosen' \in [Jwts -> SUBSET Rights]
           /\ \A n \in Issued :
                  n \in Issued' /\ jwts'[n] = jwts[n] /\ chosen'[n] = chosen[n]
           /\ \A n \in Jwts \ Issued :
                  \/ jwts'[n] = jwts[n] /\ chosen'[n] = chosen[n]
                  \/ /\ jwts'[n].type = "access" => n % 2 = 1
                     /\ jwts'[n].type = "refresh" => jwts'[n].scopes = {}
                     /\ jwts'[n].scopes \subseteq chosen'[n]
                     /\ jwts'[n].signed # NoPair
<1> USE AccessConstantsHold DEF AccessConstants
<1>1. PICK t \in Jwts :
        LET access  == [type |-> "access", scopes |-> S, exp |-> clock + AccessTtl,
                        bind |-> bind, signed |-> SigningKey]
            refresh == [type |-> "refresh", scopes |-> {}, exp |-> clock + RefreshLife,
                        bind |-> NoBearer, signed |-> SigningKey]
        IN  /\ t % 2 = 1 /\ Issued = 1..(t - 1)
            /\ jwts' = [jwts EXCEPT ![t] = access, ![t + 1] = refresh]
            /\ holder' = [holder EXCEPT ![t] = b, ![t + 1] = b]
            /\ chosen' = [chosen EXCEPT ![t] = named, ![t + 1] = named]
  BY DEF NewPair
<1> DEFINE access  == [type |-> "access", scopes |-> S, exp |-> clock + AccessTtl,
                       bind |-> bind, signed |-> SigningKey]
           refresh == [type |-> "refresh", scopes |-> {}, exp |-> clock + RefreshLife,
                       bind |-> NoBearer, signed |-> SigningKey]
<1>2. clock \in Nat /\ jwtConfig \in Configs /\ t \in Nat
  BY DEF AccessTypeOK, Jwts
<1>3. /\ access \in Claims /\ refresh \in Claims
      /\ access.type = "access" /\ access.scopes = S /\ access.signed # NoPair
      /\ refresh.type = "refresh" /\ refresh.scopes = {} /\ refresh.signed # NoPair
  BY <1>2, KeysFit DEF Claims
<1>4. /\ t % 2 = 1 /\ Issued = 1..(t - 1)
      /\ jwts' = [jwts EXCEPT ![t] = access, ![t + 1] = refresh]
      /\ holder' = [holder EXCEPT ![t] = b, ![t + 1] = b]
      /\ chosen' = [chosen EXCEPT ![t] = named, ![t + 1] = named]
  BY <1>1
<1> HIDE DEF access, refresh
<1>5. /\ jwts \in [Jwts -> Claims] /\ holder \in [Jwts -> Bearers \cup {NoBearer}]
      /\ chosen \in [Jwts -> SUBSET Rights]
  BY DEF AccessTypeOK
<1>6. /\ jwts' \in [Jwts -> Claims] /\ holder' \in [Jwts -> Bearers \cup {NoBearer}]
      /\ chosen' \in [Jwts -> SUBSET Rights]
  BY <1>3, <1>4, <1>5
<1>7. \A n \in Jwts : n # t /\ n # t + 1 => jwts'[n] = jwts[n] /\ chosen'[n] = chosen[n]
  BY <1>4, <1>5
<1>8. jwts'[t] = access /\ chosen'[t] = named
  BY <1>2, <1>4, <1>5
<1>9. t + 1 \in Jwts => jwts'[t + 1] = refresh /\ chosen'[t + 1] = named
  BY <1>2, <1>4, <1>5
<1>10. ASSUME NEW n \in Issued
       PROVE  n \in Issued' /\ jwts'[n] = jwts[n] /\ chosen'[n] = chosen[n]
  <2>1. n # t /\ n # t + 1 /\ n \in Jwts
    BY <1>2, <1>4 DEF Issued
  <2>2. QED
    BY <1>7, <2>1 DEF Issued
<1>11. (t + 1) % 2 = 0
  BY <1>2, <1>4
<1>12. QED
  BY <1>3, <1>4, <1>6, <1>7, <1>8, <1>9, <1>10, <1>11

LEMMA BlockKeeps ==
    ASSUME AccessTypeOK, NEW t \in Issued, Block(t)
    PROVE  /\ blocked' \in [Jwts -> Nat]
           /\ blocked'[t] # 0 /\ blocked'[t] >= jwts[t].exp
           /\ \A n \in Jwts \ {t} : blocked'[n] = blocked[n]
<1>1. t \in Jwts /\ clock \in Nat /\ jwts[t].exp \in Nat /\ blocked \in [Jwts -> Nat]
  BY DEF AccessTypeOK, Issued, Claims
<1> DEFINE until == clock + IF jwts[t].exp - clock < 1 THEN 1 ELSE jwts[t].exp - clock
<1>2. until \in Nat /\ until # 0 /\ until >= jwts[t].exp
  BY <1>1
<1>3. blocked' = [blocked EXCEPT ![t] = until]
  BY DEF Block
<1> HIDE DEF until
<1>4. QED
  BY <1>1, <1>2, <1>3

LEMMA AccessInvStep == AccessInv /\ [AccessNext]_accessVars => AccessInv'
<1> SUFFICES ASSUME AccessInv, [AccessNext]_accessVars PROVE AccessInv'
  OBVIOUS
<1> USE AccessConstantsHold DEF AccessConstants
<1>1. /\ AccessTypeOK /\ clock \in 0..MaxJwtTime /\ jwtConfig \in Deployments
      /\ deployed \in 0..MaxDeployments /\ jwts \in [Jwts -> Claims]
      /\ blocked \in [Jwts -> Nat] /\ lookup \in 0..2 * MaxPairs
         /\ withdrawn \in BOOLEAN
      /\ holder \in [Jwts -> Bearers \cup {NoBearer}]
         /\ chosen \in [Jwts -> SUBSET Rights]
      /\ outcome \in [token : 0..2 * MaxPairs, active : BOOLEAN, early : BOOLEAN]
      /\ 2 * MaxPairs \in Nat /\ Issued \subseteq Jwts /\ Jwts = 1..2 * MaxPairs
      /\ \A t \in Issued : jwts[t].signed # NoPair
  BY DEF AccessInv, AccessTypeOK, Issued, Jwts
<1>2. /\ \A t \in Jwts :
           /\ jwts[t].type = "access" => t % 2 = 1
           /\ jwts[t].type = "refresh" => jwts[t].scopes = {}
           /\ jwts[t].scopes \subseteq chosen[t]
           /\ blocked[t] # 0 => t \in Issued /\ blocked[t] >= jwts[t].exp
      /\ lookup # 0 => lookup \in Issued
      /\ withdrawn => lookup # 0 /\ blocked[lookup] # 0
  BY DEF AccessInv
<1>3. Nothing \in [token : 0..2 * MaxPairs, active : BOOLEAN, early : BOOLEAN]
  BY <1>1 DEF Nothing
\* Steps that issue a pair.
<1>4. ASSUME NEW b \in Bearers \cup {NoBearer}, NEW S \in SUBSET Rights,
             NEW bind \in Bearers \cup {NoBearer},
             NEW named \in SUBSET Rights, S \subseteq named, SigningKey # NoPair,
             NewPair(b, S, bind, named),
             blocked' \in [Jwts -> Nat],
             \A t \in Jwts : \/ blocked'[t] = blocked[t]
                             \/ t \in Issued /\ blocked'[t] # 0
                                /\ blocked'[t] >= jwts[t].exp,
             outcome' = Nothing,
             UNCHANGED <<clock, jwtConfig, deployed, lookup, withdrawn>>
      PROVE  AccessInv'
  <2>1. /\ jwts' \in [Jwts -> Claims]
        /\ holder' \in [Jwts -> Bearers \cup {NoBearer}]
        /\ chosen' \in [Jwts -> SUBSET Rights]
        /\ \A n \in Issued :
               n \in Issued' /\ jwts'[n] = jwts[n] /\ chosen'[n] = chosen[n]
        /\ \A n \in Jwts \ Issued :
               \/ jwts'[n] = jwts[n] /\ chosen'[n] = chosen[n]
               \/ /\ jwts'[n].type = "access" => n % 2 = 1
                  /\ jwts'[n].type = "refresh" => jwts'[n].scopes = {}
                  /\ jwts'[n].scopes \subseteq chosen'[n]
                  /\ jwts'[n].signed # NoPair
    BY <1>1, <1>4, NewPairKeeps
  <2>2. \A t \in Issued' : jwts'[t].signed # NoPair
    BY <1>1, <2>1 DEF Issued
  <2>3. AccessTypeOK'
    BY <1>1, <1>4, <1>3, <2>1, <2>2 DEF AccessTypeOK
  <2>4. ASSUME NEW n \in Jwts
        PROVE  /\ jwts'[n].type = "access" => n % 2 = 1
               /\ jwts'[n].type = "refresh" => jwts'[n].scopes = {}
               /\ jwts'[n].scopes \subseteq chosen'[n]
               /\ blocked'[n] # 0 => n \in Issued' /\ blocked'[n] >= jwts'[n].exp
    <3>1. CASE n \in Issued
      BY <1>2, <1>4, <2>1, <3>1
    <3>2. CASE n \notin Issued
      BY <1>2, <1>4, <2>1, <3>2
    <3>3. QED
      BY <3>1, <3>2
  <2>5. /\ lookup' # 0 => lookup' \in Issued'
        /\ withdrawn' => lookup' # 0 /\ blocked'[lookup'] # 0
    BY <1>1, <1>2, <1>4, <2>1
  <2>6. QED
    BY <1>4, <2>3, <2>4, <2>5 DEF AccessInv, IntrospectionTruthful
<1>5. CASE \E b \in Bearers, S \in SUBSET Rights : CreatePair(b, S)
  BY <1>1, <1>4, <1>5 DEF CreatePair
<1>6. CASE \E t \in Jwts, S \in SUBSET Rights : RotatePair(t, S)
  <2>1. PICK t \in Jwts, S \in SUBSET Rights : RotatePair(t, S)
    BY <1>6
  <2>2. t \in Issued /\ jwts[t].type = "refresh" /\ Block(t)
    BY <2>1 DEF RotatePair, DecodesAs
  <2>3. Payload(t).scopes = {}
    <3>1. Payload(t).scopes = jwts[t].scopes
      BY DEF Payload
    <3>2. QED
      BY <1>2, <2>2, <3>1
  <2>4. /\ NewPair(holder[t], S, NoBearer, S) /\ SigningKey # NoPair
        /\ outcome' = Nothing
           /\ UNCHANGED <<clock, jwtConfig, deployed, lookup, withdrawn>>
    BY <2>1, <2>3 DEF RotatePair
  <2>5. /\ blocked' \in [Jwts -> Nat]
        /\ \A n \in Jwts : \/ blocked'[n] = blocked[n]
                           \/ n \in Issued /\ blocked'[n] # 0
                              /\ blocked'[n] >= jwts[n].exp
    BY <1>1, <2>2, BlockKeeps
  <2>6. QED
    BY <1>1, <1>4, <2>4, <2>5
\* Steps that issue none.
<1>7. ASSUME UNCHANGED <<jwts, holder, chosen>>,
             clock' \in 0..MaxJwtTime, jwtConfig' \in Deployments,
             deployed' \in 0..MaxDeployments,
             lookup' \in 0..2 * MaxPairs, withdrawn' \in BOOLEAN,
             outcome' \in [token : 0..2 * MaxPairs, active : BOOLEAN, early : BOOLEAN],
             blocked' \in [Jwts -> Nat],
             \A t \in Jwts : \/ blocked'[t] = blocked[t]
                             \/ t \in Issued /\ blocked'[t] # 0
                                /\ blocked'[t] >= jwts[t].exp,
             lookup' # 0 => lookup' \in Issued,
             withdrawn' => lookup' # 0 /\ blocked'[lookup'] # 0,
             IntrospectionTruthful'
      PROVE  AccessInv'
  <2>1. Issued' = Issued
    BY <1>7 DEF Issued
  <2>2. AccessTypeOK'
    BY <1>1, <1>7, <2>1 DEF AccessTypeOK
  <2>3. QED
    BY <1>2, <1>7, <2>1, <2>2 DEF AccessInv
<1>8. CASE \E t \in Jwts : RevokeRefresh(t)
  <2>1. PICK t \in Jwts : RevokeRefresh(t)
    BY <1>8
  <2>2. t \in Issued /\ Block(t) /\ outcome' = Nothing
        /\ UNCHANGED <<clock, jwtConfig, deployed, jwts, lookup, holder, chosen,
                       withdrawn>>
    BY <2>1 DEF RevokeRefresh, DecodesAs
  <2>3. /\ blocked' \in [Jwts -> Nat]
        /\ \A n \in Jwts : \/ blocked'[n] = blocked[n]
                           \/ n \in Issued /\ blocked'[n] # 0
                              /\ blocked'[n] >= jwts[n].exp
    BY <1>1, <2>2, BlockKeeps
  <2>4. IntrospectionTruthful'
    BY <2>2 DEF IntrospectionTruthful
  <2>5. withdrawn' => lookup' # 0 /\ blocked'[lookup'] # 0
    BY <1>1, <1>2, <2>2, <2>3
  <2>6. QED
    BY <1>1, <1>2, <1>7, <1>3, <2>2, <2>3, <2>4, <2>5
<1>9. CASE \E t \in Jwts : Introspect(t)
  <2>1. PICK t \in Jwts : Introspect(t)
    BY <1>9
  <2>2. t \in Issued
        /\ UNCHANGED <<clock, jwtConfig, deployed, jwts, blocked, holder, chosen>>
    BY <2>1 DEF Introspect, jwtState
  <2>3. CASE lookup' = t /\ withdrawn' = (blocked[t] # 0) /\ outcome' = Nothing
    <3>1. withdrawn' \in BOOLEAN /\ (withdrawn' <=> blocked[t] # 0)
      BY <2>3
    <3>2. IntrospectionTruthful'
      BY <2>3 DEF IntrospectionTruthful
    <3>3. lookup' = t /\ outcome' = Nothing
      BY <2>3
    <3>4. withdrawn' => lookup' # 0 /\ blocked'[lookup'] # 0
      BY <1>1, <2>2, <3>1, <3>3
    <3>5. QED
      BY <1>1, <1>7, <1>3, <2>2, <3>1, <3>2, <3>3, <3>4
  <2>4. CASE ~DecodesAny(t) /\ Returns(t, FALSE, FALSE)
             /\ UNCHANGED <<lookup, withdrawn>>
    <3>1. /\ outcome' = [token |-> t, active |-> FALSE, early |-> FALSE]
          /\ outcome'.token = t /\ ~outcome'.early
      BY <2>4 DEF Returns
    <3>2. ~DecodesAny(t)'
      BY <2>2, <2>4 DEF DecodesAny, DecodesAs, Issued, VerificationKey
    <3>3. IntrospectionTruthful'
      BY <3>1, <3>2 DEF IntrospectionTruthful
    <3>4. outcome' \in [token : 0..2 * MaxPairs, active : BOOLEAN, early : BOOLEAN]
      BY <1>1, <3>1
    <3>5. QED
      BY <1>1, <1>2, <1>7, <2>2, <2>4, <3>3, <3>4
  <2>5. QED
    BY <2>1, <2>3, <2>4 DEF Introspect
<1>10. CASE LookupAnswers
  <2>1. /\ lookup \in Issued /\ lookup' = 0 /\ withdrawn' = FALSE
        /\ outcome' =
               [token |-> lookup, active |-> ~IsBlacklisted(lookup),
                early |-> withdrawn]
        /\ UNCHANGED <<clock, jwtConfig, deployed, jwts, blocked, holder, chosen>>
    BY <1>2, <1>10 DEF LookupAnswers, Returns, IsActive, jwtState
  <2>2. outcome' \in [token : 0..2 * MaxPairs, active : BOOLEAN, early : BOOLEAN]
    BY <1>1, <2>1
  <2>3. /\ outcome'.token = lookup /\ (outcome'.active <=> ~(clock < blocked[lookup]))
        /\ (outcome'.early <=> withdrawn)
    BY <2>1 DEF IsBlacklisted
  <2>4. outcome'.active /\ outcome'.early => clock >= jwts[lookup].exp
    <3>1. /\ clock \in Nat /\ blocked[lookup] \in Nat /\ jwts[lookup].exp \in Nat
          /\ blocked[lookup] # 0 => blocked[lookup] >= jwts[lookup].exp
          /\ withdrawn => blocked[lookup] # 0
      BY <1>1, <1>2, <2>1 DEF Claims
    <3>2. QED
      BY <2>3, <3>1
  <2>5. ~outcome'.active => clock < blocked[lookup]
    BY <2>3
  <2>6. IntrospectionTruthful'
    <3>1. /\ outcome'.active /\ outcome'.early => clock' >= jwts'[outcome'.token].exp
          /\ ~outcome'.active => IsBlacklisted(outcome.token)'
      BY <2>1, <2>3, <2>4, <2>5 DEF IsBlacklisted
    <3>2. QED
      BY <3>1 DEF IntrospectionTruthful
  <2>7. /\ lookup' \in 0..2 * MaxPairs /\ withdrawn' \in BOOLEAN
        /\ lookup' # 0 => lookup' \in Issued
        /\ withdrawn' => lookup' # 0 /\ blocked'[lookup'] # 0
    <3>1. ~withdrawn' /\ withdrawn' \in BOOLEAN
      BY <2>1
    <3>2. lookup' = 0
      BY <2>1
    <3>3. QED
      BY <1>1, <3>1, <3>2
  <2>8. QED
    BY <1>1, <1>7, <2>1, <2>2, <2>6, <2>7
<1>11. CASE JwtTick \/ Redeploy
  <2>1. outcome' = Nothing /\ UNCHANGED <<jwts, holder, chosen, blocked>>
        /\ clock' \in 0..MaxJwtTime /\ jwtConfig' \in Deployments
        /\ deployed' \in 0..MaxDeployments
    BY <1>1, <1>11 DEF JwtTick, Redeploy, jwtState
  <2>2. IntrospectionTruthful'
    BY <2>1 DEF IntrospectionTruthful
  <2>3. /\ lookup' \in 0..2 * MaxPairs /\ withdrawn' \in BOOLEAN
        /\ lookup' # 0 => lookup' \in Issued
        /\ withdrawn' => lookup' # 0 /\ blocked'[lookup'] # 0
    <3>1. CASE JwtTick
      BY <1>1, <1>2, <2>1, <3>1 DEF JwtTick
    <3>2. CASE Redeploy
      <4>1. lookup' = 0 /\ withdrawn' = FALSE
        BY <3>2 DEF Redeploy
      <4>2. ~withdrawn' /\ withdrawn' \in BOOLEAN
        BY <4>1
      <4>3. QED
        BY <1>1, <4>1, <4>2
    <3>3. QED
      BY <1>11, <3>1, <3>2
  <2>4. QED
    BY <1>1, <1>7, <1>3, <2>1, <2>2, <2>3
<1>12. CASE UNCHANGED accessVars
  <2>1. UNCHANGED <<clock, jwtConfig, deployed, jwts, blocked, holder, chosen, lookup,
                    outcome,
                    withdrawn>>
    BY <1>12 DEF accessVars, jwtState
  <2>2. IntrospectionTruthful'
    BY <2>1 DEF AccessInv, IntrospectionTruthful, DecodesAny, DecodesAs, Issued,
                VerificationKey, IsBlacklisted
  <2>3. QED
    BY <1>1, <1>2, <1>7, <2>1, <2>2
<1>13. QED
  BY <1>5, <1>6, <1>8, <1>9, <1>10, <1>11, <1>12 DEF AccessNext

\* What a token is taken for agrees with how it was made (require_jwt,
\* introspect_token).
THEOREM TokensAlwaysJudged == AccessSpec => []TokensJudged
<1>1. AccessInv => TokensJudged
  <2> SUFFICES ASSUME AccessInv PROVE TokensJudged
    OBVIOUS
  <2>1. ASSUME NEW b \in Bearers, NEW t \in Issued, NEW S \in SUBSET Rights,
               Admits(b, t, S)
        PROVE  /\ t % 2 = 1
               /\ S \subseteq chosen[t]
               /\ clock < jwts[t].exp + ClockLeeway
               /\ jwtConfig.asymmetric <=> jwts[t].signed # SecretKey
    <3>1. /\ jwts[t].signed = VerificationKey /\ clock < jwts[t].exp + ClockLeeway
          /\ jwts[t].type = "access" /\ t \in Jwts
      BY <2>1 DEF Admits, DecodesAs, Issued
    <3>2. Payload(t).scopes = jwts[t].scopes
      BY DEF Payload
    <3>3. S \subseteq jwts[t].scopes
      BY <2>1, <3>2 DEF Admits
    <3>4. jwtConfig \in Configs
      BY AccessConstantsHold DEF AccessConstants, AccessInv, AccessTypeOK
    <3>5. t % 2 = 1 /\ S \subseteq chosen[t]
      BY <3>1, <3>3 DEF AccessInv
    <3>6. jwtConfig.asymmetric <=> jwts[t].signed # SecretKey
      BY <3>1, <3>4, KeysFit
    <3>7. QED
      BY <3>1, <3>5, <3>6
  <2>2. AdmittedEntitled
    BY <2>1 DEF AdmittedEntitled
  <2>3. QED
    BY <2>2 DEF AccessInv, TokensJudged
<1>2. QED
  BY <1>1, AccessInvInit, AccessInvStep, PTL DEF AccessSpec

-----------------------------------------------------------------------------
(* All credentials *)

\* Every variable of the three kinds of credentials keeps its type.
THEOREM CredentialsTyped == MCSpec => []TypeOK
<1> DEFINE allVars == <<part, tokenVars, accessVars, keyVars>>
           Inv == TokenInv /\ AccessInv /\ KeyInv
<1>1. MCInit => Inv
  BY TokenInvInit, AccessInvInit, KeyInvInit DEF MCInit
<1>2. ASSUME Inv, [MCNext]_allVars
      PROVE  Inv'
  <2>1. [TokenNext]_tokenVars /\ [AccessNext]_accessVars /\ [KeyNext]_keyVars
    BY <1>2 DEF MCNext
  <2>2. QED
    BY <1>2, <2>1, TokenInvStep, AccessInvStep, KeyInvStep
<1>3. Inv => TypeOK
  BY TokenInvTypes, KeyInvTypes DEF TypeOK, AccessInv
<1>4. QED
  BY <1>1, <1>2, <1>3, PTL DEF MCSpec

=============================================================================
