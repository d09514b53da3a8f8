---------------------------- MODULE Requests_proofs -----------------------------
(***************************************************************************)
(* Theorems about what a request meets: the order of the layers, rate      *)
(* limits and bans, the sliding window, the lockout, the detection of      *)
(* enumeration, the lists of addresses, the double-submit cookie, OAuth2   *)
(* logins with OIDC discovery, both second factors, the roles and the      *)
(* limits of a query, for any number of concurrent requests, processes,    *)
(* providers and roles, queries of any size, any limits and any times;     *)
(* then the types of them all.                                             *)
(***************************************************************************)
EXTENDS MCRequests, Lemmas

-----------------------------------------------------------------------------
(* The chain of the middlewares *)

\* Where the layers are that matter below.
LEMMA LayersPlaced ==
    /\ Len(Layers) = 15
    /\ Layers[1] = "cors" /\ Layers[2] = "headers_audit"
    /\ Layers[3] = "secure_headers"
    /\ \A i \in 1..15 :
           /\ Layers[i] \in LayerNames
           /\ Layers[i] = "cors" => i = 1
           /\ Layers[i] = "headers_audit" => i = 2
           /\ Layers[i] = "secure_headers" => i = 3
           /\ Layers[i] = "malware" => i = 11
           /\ Layers[i] = "graphql" => i = 12
           /\ Layers[i] = "prompt_injection" => i = 13
           /\ Layers[i] = "xxe" => i = 14
           /\ Layers[i] = "sanitize" => i = 15
<1>1. Len(Layers) = 15
  BY DEF Layers
<1>2. \A i \in 1..15 : i \in {1, 2, 3, 4, 5, 6, 7, 8, 9, 10, 11, 12, 13, 14, 15}
  OBVIOUS
<1>3. /\ Layers[1] = "cors" /\ Layers[2] = "headers_audit"
      /\ Layers[3] = "secure_headers" /\ Layers[4] = "csrf"
      /\ Layers[5] = "telemetry" /\ Layers[6] = "rate_limit"
      /\ Layers[7] = "brute_force" /\ Layers[8] = "ip_access"
      /\ Layers[9] = "account_protection" /\ Layers[10] = "honeypot"
      /\ Layers[11] = "malware" /\ Layers[12] = "graphql"
      /\ Layers[13] = "prompt_injection" /\ Layers[14] = "xxe"
      /\ Layers[15] = "sanitize"
  BY DEF Layers
<1>4. \A i \in 1..15 : Layers[i] \in LayerNames
  BY <1>1 DEF LayerNames
<1> HIDE DEF Layers
<1>5. QED
  BY <1>1, <1>2, <1>3, <1>4

\* The next layer inwards.
LEMMA InwardNext ==
    ASSUME place \in Chain, place <= 15
    PROVE  /\ Inward \in Chain /\ Inward \in 1..16 /\ place < Inward
           /\ \A i \in Chain : place < i => Inward <= i
<1> DEFINE S == {i \in Chain : i > place}
<1>1. Chain \subseteq 0..16 /\ 16 \in Chain
  BY LayersPlaced DEF Chain
<1>2. S \in SUBSET Nat /\ S # {}
  <2>1. place \in 0..16
    BY <1>1
  <2>2. 16 \in S
    BY <1>1, <2>1
  <2>3. \A i \in S : i \in 0..16
    BY <1>1
  <2>4. QED
    BY <2>2, <2>3
<1>3. \E x \in S : \A y \in S : x <= y
  BY <1>2, LeastNumber
<1>4. Inward \in S /\ \A y \in S : Inward <= y
  BY <1>3 DEF Inward, Min
<1>5. QED
  BY <1>1, <1>4

\* The next layer outwards.
LEMMA OutwardNext ==
    ASSUME place \in Chain, place # 0
    PROVE  /\ Outward \in Chain /\ Outward \in 0..15 /\ Outward < place
           /\ \A i \in Chain : i < place => i <= Outward
<1> DEFINE S == {i \in Chain : i < place}
           mirrored == {16 - i : i \in S}
<1>1. Chain \subseteq 0..16 /\ 0 \in Chain
  BY LayersPlaced DEF Chain
<1>2. mirrored \in SUBSET Nat /\ mirrored # {}
  BY <1>1
<1>3. PICK m \in mirrored : \A n \in mirrored : m <= n
  BY <1>2, LeastNumber
<1>4. PICK x \in S : m = 16 - x
  BY <1>3
<1>5. \A y \in S : y <= x
  <2> SUFFICES ASSUME NEW y \in S PROVE y <= x
    OBVIOUS
  <2>1. m <= 16 - y
    BY <1>3
  <2>2. QED
    BY <1>1, <1>4, <2>1
<1>6. Outward \in S /\ \A y \in S : Outward >= y
  BY <1>1, <1>4, <1>5 DEF Outward, Max
<1>7. QED
  BY <1>1, <1>6

-----------------------------------------------------------------------------
(* What reaches the handler, and what comes back *)

\* The layers outside of the one whose turn it is have had theirs.
Passed(l) == \E i \in 1..15 : Layers[i] = l /\ (way = "in" => i < place)

\* An active scanner that the request has passed has found nothing that the
\* handler could still find.
ScannedBy(l) == Installed(l) /\ Passed(l) => Covers[l] \cap Kept = {}
Sanitized ==
    Installed("sanitize") /\ Passed("sanitize") =>
        body = "sanitized" \/ "xss" \notin Kept \/ request.content = "multipart"
BodyInv ==
    /\ body = "empty" => /\ Installed("malware") /\ place > 11
                         /\ request.content = "multipart"
    /\ body = "sanitized" => place = 16 \/ way # "in"

\* The response meets the security headers on its way out.
HeadersInv ==
    way # "in" /\ "secure_headers" \in enabled /\ answered \notin {"cors", "server"} =>
        secured \/ (way = "out" /\ place >= 3)

ChainInv ==
    /\ place \in Chain /\ place \in 0..16 /\ (way = "in" => place \in 1..16)
    /\ way \in {"in", "out", "done"} /\ body \in {"sent", "sanitized", "empty"}
    /\ request \in Received
    /\ \A l \in exempt : Passed(l)

\* The inductive invariant, while the request is on its way in.
PipelineInv ==
    /\ ChainInv /\ HeadersInv
    /\ way = "in" => /\ \A l \in DOMAIN Covers : ScannedBy(l)
                     /\ Sanitized /\ BodyInv

LEMMA PipelineInvInit == PipelineInit => PipelineInv
<1> SUFFICES ASSUME PipelineInit PROVE PipelineInv
  OBVIOUS
<1>1. way = "in" /\ body = "sent" /\ exempt = {} /\ request \in Received
  BY DEF PipelineInit
<1>2. place \in Chain /\ place \in 1..16 /\ \A i \in Chain \ {0} : place <= i
  <2>1. Chain \ {0} \in SUBSET Nat /\ Chain \ {0} # {}
    BY LayersPlaced DEF Chain
  <2>2. \E x \in Chain \ {0} : \A y \in Chain \ {0} : x <= y
    BY <2>1, LeastNumber
  <2>3. place \in Chain \ {0} /\ \A y \in Chain \ {0} : place <= y
    BY <2>2 DEF PipelineInit, Min
  <2>4. Chain \subseteq 0..16
    BY LayersPlaced DEF Chain
  <2>5. QED
    BY <2>3, <2>4
<1>3. ASSUME NEW l, Installed(l) PROVE ~Passed(l)
  <2> SUFFICES ASSUME NEW i \in 1..15, Layers[i] = l, i < place PROVE FALSE
    BY <1>1 DEF Passed
  <2>1. i \in Chain \ {0}
    BY <1>3, LayersPlaced DEF Chain, Installed
  <2>2. QED
    BY <1>2, <2>1
<1>4. ChainInv
  BY <1>1, <1>2 DEF ChainInv
<1>5. BodyInv /\ HeadersInv
  BY <1>1 DEF BodyInv, HeadersInv
<1>6. QED
  BY <1>3, <1>4, <1>5 DEF PipelineInv, ScannedBy, Sanitized

\* The layers that stay the same pass the body on inwards.
LEMMA GoesInward ==
    ASSUME PipelineInv, way = "in", place \in 1..15
    PROVE  Inward \in 1..16 /\ place < Inward
BY InwardNext DEF PipelineInv, ChainInv

\* A request goes on from a layer that excludes it, or has found nothing in it.
LEMMA GoesOn ==
    ASSUME PipelineInv, NEW l, Turn(l), place' = Inward,
           UNCHANGED <<enabled, request, way, answered, secured>>,
           exempt' = exempt \/ exempt' = exempt \cup {l},
           body' \in {"sent", "sanitized", "empty"}, Kept' \subseteq Kept, BodyInv',
           l \in DOMAIN Covers /\ l \notin exempt' => Covers[l] \cap Kept = {},
           l = "sanitize" /\ l \notin exempt' =>
               body' = "sanitized" \/ "xss" \notin Kept
               \/ request.content = "multipart"
    PROVE  PipelineInv'
<1>1. /\ ChainInv /\ HeadersInv /\ Sanitized
      /\ \A m \in DOMAIN Covers : ScannedBy(m)
      /\ way = "in" /\ place \in 1..15 /\ Layers[place] = l /\ place \in Chain
  <2>1. way = "in" /\ place \in 1..15 /\ Layers[place] = l
    BY LayersPlaced DEF Turn
  <2>2. QED
    BY <2>1 DEF PipelineInv, ChainInv
<1>2. /\ place' \in Chain' /\ place' \in 1..16 /\ place < place'
      /\ \A i \in Chain : place < i => place' <= i
  <2>1. Chain' = Chain
    BY DEF Chain
  <2>2. QED
    BY <1>1, <2>1, InwardNext
<1>3. ASSUME NEW m, m \in enabled, Passed(m)', m # l
      PROVE  Passed(m)
  <2>1. PICK i \in 1..15 : Layers[i] = m /\ i < place'
    BY <1>1, <1>3 DEF Passed
  <2>2. i \in Chain
    BY <1>3, <2>1, LayersPlaced DEF Chain
  <2>3. i <= place /\ i # place
    BY <1>1, <1>2, <1>3, <2>1, <2>2
  <2>4. QED
    BY <1>1, <2>1, <2>3 DEF Passed
<1>4. ASSUME NEW m, Passed(m) \/ m = l
      PROVE  Passed(m)'
  <2>1. CASE Passed(m)
    <3>1. PICK i \in 1..15 : Layers[i] = m /\ i < place
      BY <1>1, <2>1 DEF Passed
    <3>2. i < place'
      BY <1>1, <1>2, <3>1
    <3>3. QED
      BY <3>1, <3>2 DEF Passed
  <2>2. CASE m = l
    BY <1>1, <1>2, <2>2 DEF Passed
  <2>3. QED
    BY <1>4, <2>1, <2>2
<1>5. ChainInv'
  <2>1. \A m \in exempt' : Passed(m)'
    BY <1>1, <1>4 DEF ChainInv
  <2>2. QED
    BY <1>1, <1>2, <2>1 DEF ChainInv
<1>6. HeadersInv'
  BY <1>1 DEF HeadersInv
<1>7. ASSUME NEW m, Installed(m)'
      PROVE  Installed(m) /\ m \in enabled /\ m \notin exempt'
  BY <1>7 DEF Installed
<1>8. ASSUME NEW m \in DOMAIN Covers
      PROVE  ScannedBy(m)'
  <2> SUFFICES ASSUME Installed(m)', Passed(m)'
               PROVE  Covers[m] \cap Kept' = {}
    BY DEF ScannedBy, Covers
  <2>1. CASE m = l
    BY <1>7, <2>1
  <2>2. CASE m # l
    <3>1. Covers[m] \cap Kept = {}
      BY <1>1, <1>3, <1>7, <2>2 DEF ScannedBy
    <3>2. QED
      BY <3>1
  <2>3. QED
    BY <2>1, <2>2
<1>9. Sanitized'
  <2> SUFFICES ASSUME Installed("sanitize")', Passed("sanitize")'
               PROVE  \/ body' = "sanitized" \/ "xss" \notin Kept'
                      \/ request'.content = "multipart"
    BY DEF Sanitized
  <2>1. CASE l = "sanitize"
    BY <1>7, <2>1
  <2>2. CASE l # "sanitize"
    <3>1. Passed("sanitize") /\ Installed("sanitize")
      BY <1>3, <1>7, <2>2
    <3>2. PICK i \in 1..15 : Layers[i] = "sanitize" /\ i < place
      BY <1>1, <3>1 DEF Passed
    <3>3. QED
      BY <1>1, <3>2, LayersPlaced
  <2>3. QED
    BY <2>1, <2>2
<1>10. QED
  BY <1>5, <1>6, <1>8, <1>9 DEF PipelineInv

\* A layer within the security headers, or the handler, answers, or the layer
\* of CORS outside of them.
LEMMA IsAnswered ==
    ASSUME PipelineInv, NEW l, Answers(l), way = "in", l = "cors" \/ place > 3
    PROVE  PipelineInv'
<1>1. /\ way' = "out" /\ answered' = l /\ place' = Outward
      /\ UNCHANGED <<enabled, request, body, exempt, secured>>
  BY DEF Answers
<1>2. ChainInv /\ place \in 1..16 /\ place \in Chain
  BY DEF PipelineInv, ChainInv
<1>3. /\ place' \in Chain' /\ place' \in 0..15
      /\ \A i \in Chain : i < place => i <= place'
  <2>1. Chain' = Chain
    BY <1>1 DEF Chain
  <2>2. QED
    BY <1>1, <1>2, <2>1, OutwardNext
<1>4. ChainInv'
  <2>1. \A m \in exempt' : Passed(m)'
    BY <1>1, <1>2 DEF ChainInv, Passed
  <2>2. QED
    BY <1>1, <1>2, <1>3, <2>1 DEF ChainInv
<1>5. HeadersInv'
  <2> SUFFICES ASSUME "secure_headers" \in enabled, l # "cors"
               PROVE  place' >= 3
    BY <1>1 DEF HeadersInv
  <2>1. 3 \in Chain
    BY LayersPlaced DEF Chain
  <2>2. QED
    BY <1>2, <1>3, <2>1
<1>6. QED
  BY <1>1, <1>4, <1>5 DEF PipelineInv

\* A scanner refuses the request or hands it on.
LEMMA IsScanned ==
    ASSUME PipelineInv, NEW l \in DOMAIN Covers, NEW next, Scans(l, Covers[l], next),
           Forwards(next) =>
               /\ next \in {"sent", "sanitized", "empty"} /\ Kept' \subseteq Kept
               /\ BodyInv'
               /\ l = "sanitize" => \/ next = "sanitized" \/ "xss" \notin Kept
                                   \/ request.content = "multipart"
    PROVE  PipelineInv'
<1>1. way = "in" /\ Turn(l)
  BY DEF Scans, Turn
<1>2. CASE Found \cap Covers[l] # {}
  <2>1. place > 3
    BY <1>1, LayersPlaced DEF Covers, Turn
  <2>2. QED
    BY <1>1, <1>2, <2>1, IsAnswered DEF Scans
<1>3. CASE Found \cap Covers[l] = {}
  <2>1. Forwards(next) /\ Covers[l] \cap Kept = {}
    BY <1>3 DEF Scans, Found
  <2>2. /\ place' = Inward /\ body' = next
        /\ UNCHANGED <<enabled, request, way, exempt, answered, secured>>
    BY <2>1 DEF Forwards
  <2>3. QED
    BY <1>1, <2>1, <2>2, GoesOn
<1>4. QED
  BY <1>2, <1>3

\* A layer that does not look at the body hands it on as it is.
LEMMA IsForwarded ==
    ASSUME PipelineInv, NEW l, Turn(l), l \notin DOMAIN Covers, Forwards(body)
    PROVE  PipelineInv'
<1>1. /\ place' = Inward /\ body' = body /\ way = "in"
      /\ UNCHANGED <<enabled, request, way, exempt, answered, secured>>
  BY DEF Forwards, Turn
<1>2. Kept' = Kept
  BY <1>1 DEF Kept
<1>3. place \in 1..15 /\ Layers[place] = l /\ l # "sanitize" /\ ChainInv /\ BodyInv
  BY <1>1, LayersPlaced DEF Turn, PipelineInv, Covers
<1>4. BodyInv'
  <2>1. body # "sanitized"
    BY <1>1, <1>3 DEF BodyInv
  <2>2. place' \in 1..16 /\ place < place'
    BY <1>1, <1>3, GoesInward
  <2>3. QED
    BY <1>1, <1>2, <1>3, <2>1, <2>2 DEF BodyInv, Installed
<1>5. QED
  BY <1>1, <1>2, <1>3, <1>4, GoesOn DEF ChainInv

LEMMA PipelineInvStep == PipelineInv /\ [PipelineNext]_pipelineVars => PipelineInv'
<1> SUFFICES ASSUME PipelineInv, [PipelineNext]_pipelineVars PROVE PipelineInv'
  OBVIOUS
<1>1. /\ ChainInv /\ HeadersInv /\ (way = "in" => BodyInv)
  BY DEF PipelineInv
<1>2. ASSUME NEW l \in Excluding, Excludes(l) PROVE PipelineInv'
  <2>1. /\ Turn(l) /\ place' = Inward /\ exempt' = exempt \cup {l} /\ way = "in"
        /\ UNCHANGED <<enabled, request, way, body, answered, secured>>
    BY <1>2 DEF Excludes, Turn
  <2>2. Kept' = Kept
    BY <2>1 DEF Kept
  <2>3. place \in 1..15 /\ (l = "malware" => place = 11)
    BY <2>1, LayersPlaced DEF Turn
  <2>4. place' \in 1..16 /\ place < place'
    BY <2>1, <2>3, GoesInward
  <2>5. BodyInv'
    BY <1>1, <2>1, <2>2, <2>3, <2>4 DEF BodyInv, Installed
  <2>6. QED
    BY <1>1, <2>1, <2>2, <2>5, GoesOn DEF ChainInv
<1>3. CASE CORS
  <2>1. Turn("cors") /\ way = "in" /\ "cors" \notin DOMAIN Covers
    BY <1>3 DEF CORS, Turn, Covers
  <2>2. CASE Answers("cors")
    BY <2>1, <2>2, IsAnswered
  <2>3. CASE Forwards(body)
    BY <2>1, <2>3, IsForwarded
  <2>4. QED
    BY <1>3, <2>2, <2>3 DEF CORS
<1>4. CASE Observe
  BY <1>4, IsForwarded DEF Observe, Covers
<1>5. ASSUME NEW l \in {"csrf", "rate_limit", "brute_force", "ip_access", "honeypot"},
             Turn(l), Forwards(body) \/ Answers(l)
      PROVE  PipelineInv'
  <2>1. l \notin DOMAIN Covers
    BY DEF Covers
  <2>2. way = "in" /\ place \in 1..15 /\ Layers[place] = l
    BY <1>5, LayersPlaced DEF Turn
  <2>3. place \notin {1, 2, 3}
    BY <2>2, LayersPlaced
  <2>4. place > 3
    BY <2>2, <2>3
  <2>5. QED
    BY <1>5, <2>1, <2>2, <2>4, IsAnswered, IsForwarded
<1>6. CASE Malware
  <2> DEFINE next == IF request.content = "multipart" THEN "empty" ELSE body
  <2>1. Scans("malware", Covers["malware"], next) /\ Turn("malware") /\ way = "in"
    BY <1>6 DEF Malware, Covers, Scans, Turn
  <2>2. ASSUME Forwards(next)
        PROVE  /\ next \in {"sent", "sanitized", "empty"} /\ Kept' \subseteq Kept
               /\ BodyInv'
    <3>1. body' = next /\ UNCHANGED <<enabled, request, way, exempt>> /\ place = 11
      BY <2>1, <2>2, LayersPlaced DEF Forwards, Turn
    <3>2. body # "sanitized"
      BY <1>1, <2>1, <3>1 DEF BodyInv
    <3>3. next \in {"sent", "empty"}
      BY <1>1, <3>2 DEF ChainInv
    <3>4. Kept' \subseteq Kept
      BY <1>1, <3>1, <3>2 DEF Kept, ChainInv
    <3>5. next = "empty" => request.content = "multipart" \/ body = "empty"
      OBVIOUS
    <3>6. "malware" \notin exempt
      <4>1. ~Passed("malware")
        BY <2>1, <3>1, LayersPlaced DEF Passed
      <4>2. QED
        BY <1>1, <4>1 DEF ChainInv
    <3>7. "malware" \in enabled
      BY <1>1, <2>1, <3>1, LayersPlaced DEF ChainInv, Chain, Turn
    <3>8. place' \in 1..16 /\ place < place'
      BY <2>1, <2>2, <3>1, GoesInward DEF Forwards
    <3>9. QED
      BY <1>1, <2>1, <3>1, <3>3, <3>4, <3>5, <3>6, <3>7, <3>8 DEF BodyInv, Installed
  <2>3. QED
    BY <2>1, <2>2, IsScanned DEF Covers
<1>7. ASSUME NEW l \in {"graphql", "prompt_injection", "xxe"}, Scans(l, Covers[l], body)
      PROVE  PipelineInv'
  <2>1. ASSUME Forwards(body)
        PROVE  /\ body \in {"sent", "sanitized", "empty"} /\ Kept' \subseteq Kept
               /\ BodyInv'
    <3>1. /\ UNCHANGED <<enabled, request, way, exempt, body>>
          /\ way = "in" /\ place \in 1..15
      BY <1>7, <2>1, LayersPlaced DEF Forwards, Turn, Scans
    <3>2. Kept' = Kept
      BY <3>1 DEF Kept
    <3>3. body # "sanitized"
      BY <1>1, <3>1 DEF BodyInv
    <3>4. place' \in 1..16 /\ place < place'
      BY <2>1, <3>1, GoesInward DEF Forwards
    <3>5. QED
      BY <1>1, <3>1, <3>2, <3>3, <3>4 DEF ChainInv, BodyInv, Installed
  <2>2. QED
    BY <1>7, <2>1, IsScanned DEF Covers
<1>8. CASE GraphQLSecurity
  <2>1. CASE Answers("graphql")
    <3>1. way = "in" /\ place > 3
      BY <1>8, LayersPlaced DEF GraphQLSecurity, Turn
    <3>2. QED
      BY <2>1, <3>1, IsAnswered
  <2>2. CASE Scans("graphql", {"costly"}, body)
    BY <1>7, <2>2 DEF Covers
  <2>3. QED
    BY <1>8, <2>1, <2>2 DEF GraphQLSecurity
<1>9. CASE PromptInjection
  BY <1>7, <1>9 DEF PromptInjection, Covers
<1>10. CASE XXE
  BY <1>7, <1>10 DEF XXE, Covers
<1>11. CASE Sanitize
  <2>1. Turn("sanitize") /\ way = "in" /\ place = 15
    BY <1>11, LayersPlaced DEF Sanitize, Turn
  <2>2. CASE Answers("sanitize")
    BY <2>1, <2>2, IsAnswered
  <2>3. CASE Scans("sanitize", Covers["sanitize"], SanitizedBody)
    <3>1. ASSUME Forwards(SanitizedBody)
          PROVE  /\ SanitizedBody \in {"sent", "sanitized", "empty"}
                 /\ Kept' \subseteq Kept /\ BodyInv'
                 /\ \/ SanitizedBody = "sanitized" \/ "xss" \notin Kept
                    \/ request.content = "multipart"
      <4>1. /\ body' = SanitizedBody /\ place' = Inward /\ place' = 16
            /\ UNCHANGED <<enabled, request, way, exempt>>
        BY <1>1, <2>1, <3>1, InwardNext DEF Forwards, ChainInv
      <4>2. body # "sanitized" /\ body \in {"sent", "empty"}
        BY <1>1, <2>1 DEF BodyInv, ChainInv
      <4>3. SanitizedBody \in {"sent", "sanitized", "empty"}
        BY <4>2 DEF SanitizedBody
      <4>4. CASE request.content \in {"json", "graphql", "form"}
        <5>1. body' = "sanitized" /\ SanitizedBody = "sanitized"
          BY <4>1, <4>4 DEF SanitizedBody
        <5>2. body = "sent"
          BY <1>1, <2>1, <4>2, <4>4 DEF BodyInv
        <5>3. Kept' \subseteq Kept
          BY <4>1, <5>1, <5>2 DEF Kept
        <5>4. BodyInv'
          BY <4>1, <5>1 DEF BodyInv
        <5>5. QED
          BY <4>3, <5>1, <5>3, <5>4
      <4>5. CASE request.content \notin {"json", "graphql", "form"}
        <5>1. body' = body
          BY <4>1, <4>5 DEF SanitizedBody
        <5>2. Kept' = Kept
          BY <4>1, <5>1 DEF Kept
        <5>3. BodyInv'
          BY <1>1, <2>1, <4>1, <4>2, <5>1 DEF BodyInv, Installed
        <5>4. Kept \subseteq request.threats
          BY <4>2 DEF Kept
        <5>5. "xss" \in request.threats => request.content = "multipart"
          <6>1. /\ request.content \in DOMAIN Threats
                /\ request.threats \subseteq Threats[request.content]
            BY <1>1 DEF ChainInv, Received
          <6>2. request.content \in {"none", "xml", "multipart"}
            BY <4>5, <6>1 DEF Threats
          <6>3. "xss" \notin Threats["none"] /\ "xss" \notin Threats["xml"]
            BY DEF Threats
          <6>4. QED
            BY <6>1, <6>2, <6>3
        <5>6. QED
          BY <4>3, <5>2, <5>3, <5>4, <5>5
      <4>6. QED
        BY <4>4, <4>5
    <3>2. QED
      BY <2>3, <3>1, IsScanned DEF Covers
  <2>4. QED
    BY <1>11, <2>2, <2>3 DEF Sanitize, Covers
<1>12. CASE Handler
  <2>1. way = "in" /\ place > 3
    BY <1>12, LayersPlaced DEF Handler, AtHandler
  <2>2. QED
    BY <1>12, <2>1, IsAnswered DEF Handler
<1>13. CASE SendResponse
  <2>1. /\ way = "out" /\ UNCHANGED <<enabled, request, body, exempt, answered>>
        /\ secured' = (secured \/ (place > 0 /\ Layers[place] = "secure_headers"))
        /\ IF place = 0 THEN way' = "done" /\ UNCHANGED place
           ELSE place' = Outward /\ UNCHANGED way
    BY <1>13 DEF SendResponse
  <2>2. Chain' = Chain /\ place \in 0..16 /\ place \in Chain
    BY <1>1, <2>1 DEF Chain, ChainInv
  <2>3. /\ place' \in Chain /\ place' \in 0..16
        /\ \A i \in Chain : i < place => i <= place'
    <3>1. CASE place = 0
      BY <2>1, <2>2, <3>1 DEF Chain
    <3>2. CASE place # 0
      BY <2>1, <2>2, <3>2, OutwardNext
    <3>3. QED
      BY <3>1, <3>2
  <2>4. way' \in {"out", "done"}
    BY <2>1
  <2>5. ChainInv'
    <3>1. \A m \in exempt' : Passed(m)'
      BY <1>1, <2>1, <2>4 DEF ChainInv, Passed
    <3>2. QED
      BY <1>1, <2>1, <2>2, <2>3, <2>4, <3>1 DEF ChainInv
  <2>6. HeadersInv'
    <3> SUFFICES ASSUME "secure_headers" \in enabled,
                        answered \notin {"cors", "server"}
                 PROVE  secured' \/ (way' = "out" /\ place' >= 3)
      BY <2>1 DEF HeadersInv
    <3>1. secured \/ place >= 3
      BY <1>1, <2>1 DEF HeadersInv
    <3>2. CASE secured
      BY <2>1, <3>2
    <3>3. CASE place = 3
      <4>1. place > 0 /\ Layers[place] = "secure_headers"
        BY <3>3, LayersPlaced
      <4>2. QED
        BY <2>1, <4>1
    <3>4. CASE place > 3
      <4>1. 3 \in Chain
        BY LayersPlaced DEF Chain
      <4>2. place' >= 3
        BY <2>2, <2>3, <3>4, <4>1
      <4>3. QED
        BY <2>1, <2>2, <3>4, <4>2
    <3>5. QED
      BY <2>2, <3>1, <3>2, <3>3, <3>4
  <2>7. QED
    BY <2>4, <2>5, <2>6 DEF PipelineInv
<1>14. CASE Raises
  <2>1. /\ way' = "out" /\ place' = 0 /\ answered' = "server"
        /\ UNCHANGED <<enabled, request, body, exempt>>
    BY <1>14 DEF Raises
  <2>2. \A m \in exempt' : Passed(m)'
    BY <1>1, <2>1 DEF ChainInv, Passed
  <2>3. 0 \in Chain'
    BY DEF Chain
  <2>4. ChainInv'
    BY <1>1, <2>1, <2>2, <2>3 DEF ChainInv
  <2>5. QED
    BY <2>1, <2>4 DEF PipelineInv, HeadersInv
<1>15. CASE UNCHANGED pipelineVars
  <2>1. UNCHANGED <<enabled, request, place, way, body, exempt, answered, secured>>
    BY <1>15 DEF pipelineVars
  <2>2. Kept' = Kept /\ Chain' = Chain
    BY <2>1 DEF Kept, Chain
  <2>3. ChainInv'
    BY <1>1, <2>1, <2>2 DEF ChainInv, Passed
  <2>4. HeadersInv'
    BY <1>1, <2>1 DEF HeadersInv
  <2>5. ASSUME way = "in"
        PROVE  (\A l \in DOMAIN Covers : ScannedBy(l)') /\ Sanitized' /\ BodyInv'
    BY <2>1, <2>2, <2>5 DEF PipelineInv, ScannedBy, Sanitized, BodyInv, Passed,
                            Installed, Covers
  <2>6. QED
    BY <2>1, <2>3, <2>4, <2>5 DEF PipelineInv, Covers
<1>16. QED
  BY <1>2, <1>3, <1>4, <1>5, <1>6, <1>8, <1>9, <1>10, <1>11, <1>12, <1>13, <1>14,
     <1>15 DEF PipelineNext, CSRF, Gate

\* In the order in which the shield installs them, and however many of them are
\* left out or exclude the path, the layers hide nothing from each other but
\* what stripping markup brings about, and no response of a layer or of the
\* handler lacks the security headers, but those of CORS.
THEOREM LayersAlwaysCompose == PipelineSpec => []LayersCompose
<1>1. PipelineInv => LayersCompose
  <2> SUFFICES ASSUME PipelineInv PROVE LayersCompose
    OBVIOUS
  <2>1. "xss" \notin Revealed
    BY DEF PipelineInv, ChainInv, Received, Revealed
  <2>2. ScannedBeforeHandler
    <3> SUFFICES ASSUME way = "in", place = 16
                 PROVE  /\ \A l \in DOMAIN Covers : Installed(l) =>
                               Covers[l] \cap Kept = {}
                        /\ Installed("sanitize") /\ "xss" \in Kept =>
                               request.content = "multipart"
                        /\ body = "empty" =>
                               Installed("malware") /\ request.content = "multipart"
      BY <2>1, LayersPlaced DEF ScannedBeforeHandler, AtHandler, Found
    <3>1. ASSUME NEW l, l \in LayerNames PROVE Passed(l)
      BY <3>1, LayersPlaced DEF LayerNames, Passed
    <3>2. DOMAIN Covers \subseteq LayerNames /\ "sanitize" \in DOMAIN Covers
      <4>1. DOMAIN Covers =
                {"malware", "graphql", "xxe", "prompt_injection", "sanitize"}
        BY DEF Covers
      <4>2. /\ Layers[11] = "malware" /\ Layers[12] = "graphql"
            /\ Layers[13] = "prompt_injection" /\ Layers[14] = "xxe"
            /\ Layers[15] = "sanitize"
        BY DEF Layers
      <4>3. QED
        BY <4>1, <4>2, LayersPlaced
    <3>3. (\A l \in DOMAIN Covers : ScannedBy(l)) /\ Sanitized /\ BodyInv
      BY DEF PipelineInv
    <3>4. body = "sanitized" => "xss" \notin Kept
      BY DEF Kept
    <3>5. QED
      BY <3>1, <3>2, <3>3, <3>4 DEF ScannedBy, Sanitized, BodyInv
  <2>3. ResponsesSecured
    BY DEF ResponsesSecured, PipelineInv, HeadersInv
  <2>4. QED
    BY <2>2, <2>3 DEF LayersCompose
<1>2. QED
  BY PipelineInvInit, PipelineInvStep, <1>1, PTL DEF PipelineSpec

-----------------------------------------------------------------------------
(* Rate limits and bans *)

\* What the argument needs of the types.
RatesTyped ==
    /\ countTtl \in [Counters -> Nat]
    /\ count \in [Counters -> Nat] /\ admitted \in [Counters -> Nat]
    /\ violations \in 0..MaxViolations /\ ban \in Nat /\ bansReplaced \in Nat
    /\ progress \in [Requests -> {"idle", "banned?", "count", "violate", "ban",
                                  "trapped?", "trap", "handler"}]
    /\ pending \in [Requests -> SUBSET Counters]
    /\ counted \in [Requests -> SUBSET Counters]
    /\ over \in [Requests -> BOOLEAN]
    /\ banFor \in [Requests -> Nat]

\* The requests that a counter has counted and may still let through.
Contenders(c) ==
    {r \in Requests : progress[r] = "count" /\ c \in counted[r] /\ ~over[r]}

\* Every counter has counted those it has admitted and those it may admit, and
\* they are no more than the limit.
CountedInv ==
    /\ \A c \in Counters :
           /\ admitted[c] + Cardinality(Contenders(c)) <= count[c]
           /\ admitted[c] + Cardinality(Contenders(c)) <= MaxRequests
    /\ \A r \in Requests :
           /\ progress[r] = "count" => counted[r] \intersect pending[r] = {}
           /\ progress[r] \in {"idle", "banned?"} => counted[r] = {}

\* The requests that can still write a ban although one is in force.
Banning == {r \in Requests : progress[r] \in {"count", "violate", "ban", "trap"}}

BanInv ==
    /\ ban = 0 => bansReplaced = 0
    /\ ban > 0 => bansReplaced + Cardinality(Banning) <= Cardinality(Requests) - 1
    /\ \A r \in Requests : progress[r] = "ban" => banFor[r] > 0

\* The inductive invariant.
LimitsInv == RatesTyped /\ CountedInv /\ BanInv

LEMMA RateConstants ==
    /\ Ip \in Counters /\ IsFiniteSet(Requests)
    /\ Cardinality(Requests) \in Nat \ {0}
    /\ MaxRequests \in Nat \ {0} /\ BanDuration \in Nat \ {0} /\ MaxBan \in Nat \ {0}
    /\ CountWindow \in Nat /\ TrapBan \in Nat \ {0} /\ MaxViolations \in Nat \ {0}
<1>1. Cardinality(Requests) \in Nat /\ Cardinality(Requests) # 0
  BY RateAssumption, FS_CardinalityType, FS_EmptySet
<1>2. QED
  BY <1>1, RateAssumption

LEMMA SubsetsFinite ==
    ASSUME NEW S \in SUBSET Requests
    PROVE  /\ IsFiniteSet(S) /\ Cardinality(S) \in Nat
           /\ Cardinality(S) <= Cardinality(Requests)
           /\ S # Requests => Cardinality(S) <= Cardinality(Requests) - 1
           /\ \A T \in SUBSET S : Cardinality(T) \in Nat
                                  /\ Cardinality(T) <= Cardinality(S)
<1>1. /\ IsFiniteSet(S) /\ Cardinality(S) \in Nat
      /\ Cardinality(S) <= Cardinality(Requests)
      /\ Cardinality(Requests) = Cardinality(S) => S = Requests
  BY RateConstants, FS_Subset, FS_CardinalityType
<1>2. ASSUME NEW T \in SUBSET S
      PROVE  Cardinality(T) \in Nat /\ Cardinality(T) <= Cardinality(S)
  BY <1>1, FS_Subset, FS_CardinalityType
<1>3. QED
  BY <1>1, <1>2, RateConstants

\* An escalated ban lasts.
LEMMA EscalatedPositive ==
    ASSUME NEW n \in 1..MaxViolations PROVE Escalated(n) \in Nat \ {0}
<1>1. Multiplier ^ (n - 1) \in Nat \ {0}
  BY PowersArePositive, RateConstants
<1>2. \A a, b \in Nat \ {0} : a * b \in Nat \ {0}
  OBVIOUS
<1>3. BanDuration * Multiplier ^ (n - 1) \in Nat \ {0}
  BY <1>1, <1>2, RateConstants
<1>4. QED
  BY <1>3, RateConstants DEF Escalated, Least

\* A step in which no request comes to contend or to ban.
LEMMA NothingGained ==
    ASSUME LimitsInv, UNCHANGED <<count, countTtl, admitted, ban, bansReplaced>>,
           \A c \in Counters : Contenders(c)' \subseteq Contenders(c),
           ban > 0 => Banning' \subseteq Banning
    PROVE  /\ \A c \in Counters :
                  /\ admitted'[c] + Cardinality(Contenders(c)') <= count'[c]
                  /\ admitted'[c] + Cardinality(Contenders(c)') <= MaxRequests
           /\ ban' = 0 => bansReplaced' = 0
           /\ ban' > 0 =>
                  bansReplaced' + Cardinality(Banning') <= Cardinality(Requests) - 1
<1>1. ASSUME NEW c \in Counters
      PROVE  /\ Cardinality(Contenders(c)) \in Nat
             /\ Cardinality(Contenders(c)') \in Nat
             /\ Cardinality(Contenders(c)') <= Cardinality(Contenders(c))
  <2>1. Contenders(c) \in SUBSET Requests
    BY DEF Contenders
  <2>2. QED
    BY <2>1, SubsetsFinite
<1>2. /\ Cardinality(Banning) \in Nat /\ Cardinality(Banning') \in Nat
      /\ ban > 0 => Cardinality(Banning') <= Cardinality(Banning)
  <2>1. Banning \in SUBSET Requests /\ Banning' \in SUBSET Requests
    BY DEF Banning
  <2>2. QED
    BY <2>1, SubsetsFinite
<1>3. QED
  BY <1>1, <1>2, RateConstants DEF LimitsInv, RatesTyped, CountedInv, BanInv

LEMMA LimitsInvInit == RateInit => LimitsInv
<1> SUFFICES ASSUME RateInit PROVE LimitsInv
  OBVIOUS
<1>1. RatesTyped
  BY RateConstants DEF RateInit, RatesTyped
<1>2. \A c \in Counters : Cardinality(Contenders(c)) = 0
  <2>1. \A c \in Counters : Contenders(c) = {}
    BY DEF RateInit, Contenders
  <2>2. QED
    BY <2>1, FS_EmptySet
<1>3. CountedInv
  BY <1>2, RateConstants DEF RateInit, CountedInv
<1>4. BanInv
  BY DEF RateInit, BanInv
<1>5. QED
  BY <1>1, <1>3, <1>4 DEF LimitsInv

\* A request that ends without counting or banning.
LEMMA LimitsInvFinishes ==
    ASSUME LimitsInv, NEW r \in Requests, Finishes(r),
           UNCHANGED <<count, countTtl, admitted, ban, bansReplaced>>,
           violations' \in 0..MaxViolations
    PROVE  LimitsInv'
<1> USE DEF LimitsInv
<1>1. RatesTyped'
  BY DEF Finishes, ProceedsTo, RatesTyped
<1>2. /\ \A c \in Counters : Contenders(c)' \subseteq Contenders(c)
      /\ Banning' \subseteq Banning
  BY DEF Finishes, ProceedsTo, RatesTyped, Contenders, Banning
<1>3. \A q \in Requests :
          /\ progress'[q] = "count" => counted'[q] \intersect pending'[q] = {}
          /\ progress'[q] \in {"idle", "banned?"} => counted'[q] = {}
          /\ progress'[q] = "ban" => banFor'[q] > 0
  BY DEF Finishes, ProceedsTo, RatesTyped, CountedInv, BanInv
<1>4. QED
  BY <1>1, <1>2, <1>3, NothingGained DEF CountedInv, BanInv

\* A request that goes on without counting or banning: it comes to contend or to
\* ban only while there is no ban.
LEMMA LimitsInvProceeds ==
    ASSUME LimitsInv, NEW r \in Requests,
           NEW to \in {"banned?", "trapped?", "count", "ban", "trap", "handler"},
           ProceedsTo(r, to),
           UNCHANGED <<count, countTtl, admitted, ban, bansReplaced, over, counted>>,
           violations' \in 0..MaxViolations,
           banFor' \in [Requests -> Nat], pending' \in [Requests -> SUBSET Counters],
           \A q \in Requests \ {r} : banFor'[q] = banFor[q] /\ pending'[q] = pending[q],
           to = "banned?" => progress[r] = "idle",
           to = "count" => progress[r] = "banned?" /\ ban = 0,
           to = "trap" => ban = 0,
           to = "ban" => progress[r] = "violate" /\ banFor'[r] > 0
    PROVE  LimitsInv'
<1> USE DEF LimitsInv
<1>1. RatesTyped'
  BY DEF ProceedsTo, RatesTyped
<1>2. /\ \A c \in Counters : Contenders(c)' \subseteq Contenders(c)
      /\ ban > 0 => Banning' \subseteq Banning
  BY DEF ProceedsTo, RatesTyped, CountedInv, Contenders, Banning
<1>3. \A q \in Requests :
          /\ progress'[q] = "count" => counted'[q] \intersect pending'[q] = {}
          /\ progress'[q] \in {"idle", "banned?"} => counted'[q] = {}
          /\ progress'[q] = "ban" => banFor'[q] > 0
  BY DEF ProceedsTo, RatesTyped, CountedInv, BanInv
<1>4. QED
  BY <1>1, <1>2, <1>3, NothingGained DEF CountedInv, BanInv

LEMMA LimitsInvQuiet ==
    ASSUME LimitsInv, NEW r \in Requests,
           \/ Arrive(r) \/ CheckBan(r) \/ Violate(r) \/ CheckTrapBan(r) \/ Respond(r)
           \/ Abandon(r)
    PROVE  LimitsInv'
<1>1. violations \in 0..MaxViolations /\ banFor \in [Requests -> Nat] /\ ban \in Nat
      /\ pending \in [Requests -> SUBSET Counters]
  BY DEF LimitsInv, RatesTyped
<1>2. CASE Finishes(r) /\ UNCHANGED violations
  BY <1>1, <1>2, LimitsInvFinishes
  DEF Arrive, CheckBan, Violate, CheckTrapBan, Respond, Abandon, limits, history
<1>3. CASE Arrive(r)
  <2>1. PICK ks \in SUBSET Counters, next \in {"banned?", "trapped?"} :
            /\ pending' = [pending EXCEPT ![r] = ks]
            /\ ProceedsTo(r, next)
            /\ progress[r] = "idle"
            /\ UNCHANGED <<count, countTtl, admitted, ban, bansReplaced, over, counted,
                           banFor,
                           violations>>
    BY <1>3 DEF Arrive, limits, history
  <2>2. QED
    BY <1>1, <2>1, LimitsInvProceeds
<1>4. CASE CheckBan(r) /\ ~(ban > 0)
  <2>1. /\ ProceedsTo(r, "count") /\ progress[r] = "banned?" /\ ban = 0
        /\ UNCHANGED <<count, countTtl, admitted, ban, bansReplaced, over, counted,
                       banFor,
                       pending, violations>>
    BY <1>1, <1>4 DEF CheckBan, limits
  <2>2. QED
    BY <1>1, <2>1, LimitsInvProceeds
<1>5. CASE CheckTrapBan(r) /\ ~(ban > 0)
  <2>1. PICK next \in {"trap", "handler"} :
            /\ ProceedsTo(r, next) /\ ban = 0
            /\ UNCHANGED <<count, countTtl, admitted, ban, bansReplaced, over, counted,
                           banFor,
                           pending, violations>>
    BY <1>1, <1>5 DEF CheckTrapBan, limits
  <2>2. QED
    BY <1>1, <2>1, LimitsInvProceeds
<1>6. CASE Violate(r)
  <2>1. /\ progress[r] = "violate"
        /\ violations' \in 1..MaxViolations /\ violations' \in 0..MaxViolations
        /\ UNCHANGED <<count, countTtl, ban, admitted, bansReplaced>>
    BY <1>1, <1>6, RateConstants DEF Violate
  <2>2. CASE violations' >= BanThreshold
    <3>1. /\ banFor' = [banFor EXCEPT ![r] = Escalated(violations')]
          /\ ProceedsTo(r, "ban")
          /\ UNCHANGED <<pending, over, counted>>
      BY <1>6, <2>2 DEF Violate
    <3>2. Escalated(violations') \in Nat \ {0}
      BY <2>1, EscalatedPositive
    <3>3. /\ banFor' \in [Requests -> Nat] /\ banFor'[r] > 0
          /\ \A q \in Requests \ {r} : banFor'[q] = banFor[q]
      BY <1>1, <3>1, <3>2
    <3>4. QED
      BY <1>1, <2>1, <3>1, <3>3, LimitsInvProceeds
  <2>3. CASE ~(violations' >= BanThreshold)
    BY <1>6, <2>1, <2>3, LimitsInvFinishes DEF Violate
  <2>4. QED
    BY <2>2, <2>3
<1>7. QED
  BY <1>2, <1>3, <1>4, <1>5, <1>6
  DEF CheckBan, CheckTrapBan, Respond, Abandon, limits

\* A request that counts.
LEMMA LimitsInvCounts ==
    ASSUME LimitsInv, NEW r \in Requests, NEW c \in Counters, CountOne(r, c)
    PROVE  LimitsInv'
<1> DEFINE last == pending[r] = {c}
           passes == last /\ ~Exceeds(r, c)
<1>1. /\ progress[r] = "count" /\ c \in pending[r]
      /\ count' = [count EXCEPT ![c] = @ + 1]
      /\ countTtl' = [countTtl EXCEPT ![c] = IF @ = 0 THEN CountWindow ELSE @]
      /\ pending' = [pending EXCEPT ![r] = @ \ {c}]
      /\ over' = [over EXCEPT ![r] = Exceeds(r, c)]
      /\ progress' = IF last THEN [progress EXCEPT ![r] = IF passes THEN "trapped?"
                                                          ELSE "violate"]
                     ELSE progress
      /\ counted' = [counted EXCEPT ![r] = @ \cup {c}]
      /\ admitted' = [k \in Counters |->
                         admitted[k] + (IF passes /\ k \in counted'[r] THEN 1 ELSE 0)]
      /\ UNCHANGED <<violations, ban, banFor, bansReplaced>>
  BY DEF CountOne, Tally, ProceedsTo
<1>2. RatesTyped /\ c \notin counted[r]
  BY <1>1 DEF LimitsInv, CountedInv
<1>3. /\ Exceeds(r, c) \in BOOLEAN
      /\ ~Exceeds(r, c) => ~over[r] /\ count[c] + 1 <= MaxRequests
  BY <1>2, RateConstants DEF Exceeds, RatesTyped
<1> HIDE DEF passes
<1>4. RatesTyped'
  <2>1. countTtl' \in [Counters -> Nat]
    BY <1>1, <1>2, RateConstants DEF RatesTyped
  <2>2. QED
    BY <1>1, <1>2, <1>3, <2>1 DEF RatesTyped
<1>5. \A q \in Requests :
          /\ progress'[q] = "count" => counted'[q] \intersect pending'[q] = {}
          /\ progress'[q] \in {"idle", "banned?"} => counted'[q] = {}
          /\ progress'[q] = "ban" => banFor'[q] > 0
  BY <1>1, <1>2 DEF LimitsInv, RatesTyped, CountedInv, BanInv
<1>6. ASSUME NEW k \in Counters
      PROVE  /\ admitted'[k] + Cardinality(Contenders(k)') <= count'[k]
             /\ admitted'[k] + Cardinality(Contenders(k)') <= MaxRequests
  <2>1. /\ Contenders(k) \ {r} = Contenders(k)' \ {r}
        /\ r \in Contenders(k) <=> k \in counted[r] /\ ~over[r]
        /\ r \in Contenders(k)' <=>
               ~last /\ k \in counted[r] \cup {c} /\ ~Exceeds(r, c)
    BY <1>1, <1>2, <1>3 DEF RatesTyped, Contenders
  <2>2. /\ Cardinality(Contenders(k)) \in Nat /\ Cardinality(Contenders(k)') \in Nat
        /\ Cardinality(Contenders(k)') =
               Cardinality(Contenders(k)) + (IF r \in Contenders(k)' THEN 1 ELSE 0)
                                          - (IF r \in Contenders(k) THEN 1 ELSE 0)
    <3>1. IsFiniteSet(Contenders(k))
      BY RateConstants, FS_Subset DEF Contenders
    <3>2. QED
      BY <2>1, <3>1, OneElement
  <2>3. /\ admitted[k] \in Nat /\ count[k] \in Nat /\ MaxRequests \in Nat
        /\ admitted[k] + Cardinality(Contenders(k)) <= count[k]
        /\ admitted[k] + Cardinality(Contenders(k)) <= MaxRequests
    BY RateConstants DEF LimitsInv, RatesTyped, CountedInv
  <2>4. /\ admitted'[k] = admitted[k] +
               (IF passes /\ k \in counted[r] \cup {c} THEN 1 ELSE 0)
        /\ count'[k] = IF k = c THEN count[k] + 1 ELSE count[k]
    BY <1>1, <1>2 DEF RatesTyped
  <2>5. passes <=> last /\ ~Exceeds(r, c)
    BY DEF passes
  <2>6. CASE k = c
    BY <1>2, <1>3, <2>1, <2>2, <2>3, <2>4, <2>5, <2>6
  <2>7. CASE k # c
    BY <1>2, <1>3, <2>1, <2>2, <2>3, <2>4, <2>5, <2>7
  <2>8. QED
    BY <2>6, <2>7
<1>7. /\ ban' = 0 => bansReplaced' = 0
      /\ ban' > 0 =>
             bansReplaced' + Cardinality(Banning') <= Cardinality(Requests) - 1
  <2>1. Banning' \subseteq Banning
    BY <1>1, <1>2 DEF RatesTyped, Banning
  <2>2. /\ Cardinality(Banning) \in Nat /\ Cardinality(Banning') \in Nat
        /\ Cardinality(Banning') <= Cardinality(Banning)
    <3>1. Banning \in SUBSET Requests
      BY DEF Banning
    <3>2. QED
      BY <2>1, <3>1, SubsetsFinite
  <2>3. QED
    BY <1>1, <1>2, <2>2, RateConstants DEF LimitsInv, BanInv, RatesTyped
<1>8. QED
  BY <1>4, <1>5, <1>6, <1>7 DEF LimitsInv, CountedInv, BanInv

\* A request that writes a ban ends with it.
LEMMA LimitsInvBans ==
    ASSUME LimitsInv, NEW r \in Requests, BanIp(r) \/ HandleTrap(r) PROVE LimitsInv'
<1> USE DEF LimitsInv
<1>1. PICK duration \in Nat \ {0} : Bans(duration)
  BY RateConstants DEF BanIp, HandleTrap, BanInv, RatesTyped
<1>2. /\ Finishes(r) /\ r \in Banning
      /\ UNCHANGED <<count, countTtl, violations, admitted>>
  BY DEF BanIp, HandleTrap, Banning
<1>3. ban' \in Nat /\ ban' > 0
      /\ bansReplaced' = IF ban > 0 THEN bansReplaced + 1 ELSE bansReplaced
  BY <1>1 DEF Bans
<1>4. RatesTyped'
  BY <1>2, <1>3 DEF Finishes, ProceedsTo, RatesTyped
<1>5. \A q \in Requests :
          /\ progress'[q] = "count" => counted'[q] \intersect pending'[q] = {}
          /\ progress'[q] \in {"idle", "banned?"} => counted'[q] = {}
          /\ progress'[q] = "ban" => banFor'[q] > 0
  BY <1>2 DEF Finishes, ProceedsTo, RatesTyped, CountedInv, BanInv
<1>6. ASSUME NEW c \in Counters
      PROVE  /\ admitted'[c] + Cardinality(Contenders(c)') <= count'[c]
             /\ admitted'[c] + Cardinality(Contenders(c)') <= MaxRequests
  <2>1. Contenders(c)' \subseteq Contenders(c) /\ Contenders(c) \in SUBSET Requests
    BY <1>2 DEF Finishes, ProceedsTo, RatesTyped, Contenders
  <2>2. /\ Cardinality(Contenders(c)) \in Nat /\ Cardinality(Contenders(c)') \in Nat
        /\ Cardinality(Contenders(c)') <= Cardinality(Contenders(c))
    BY <2>1, SubsetsFinite
  <2>3. QED
    BY <1>2, <2>2, RateConstants DEF RatesTyped, CountedInv
<1>7. bansReplaced' + Cardinality(Banning') <= Cardinality(Requests) - 1
  <2>1. Banning' = Banning \ {r} /\ Banning \in SUBSET Requests
    BY <1>2 DEF Finishes, ProceedsTo, RatesTyped, Banning
  <2>2. IsFiniteSet(Banning)
    BY <2>1, SubsetsFinite
  <2>3. /\ Cardinality(Banning') = Cardinality(Banning) - 1
        /\ Cardinality(Banning) \in Nat
        /\ Cardinality(Banning) <= Cardinality(Requests)
    BY <1>2, <2>1, <2>2, SubsetsFinite, FS_RemoveElement
  <2>4. QED
    BY <1>3, <2>3, RateConstants DEF RatesTyped, BanInv
<1>8. QED
  BY <1>3, <1>4, <1>5, <1>6, <1>7 DEF CountedInv, BanInv

LEMMA LimitsInvTick == LimitsInv /\ RateTick => LimitsInv'
<1> SUFFICES ASSUME LimitsInv, RateTick PROVE LimitsInv'
  OBVIOUS
<1> USE DEF LimitsInv
<1>1. UNCHANGED <<progress, pending, over, banFor>>
  BY DEF RateTick, requests
<1>2. RatesTyped'
  <2>1. /\ count' \in [Counters -> Nat] /\ admitted' \in [Counters -> Nat]
        /\ counted' \in [Requests -> SUBSET Counters]
        /\ countTtl' \in [Counters -> Nat]
    BY DEF RateTick, RatesTyped
  <2>2. violations' \in 0..MaxViolations /\ ban' \in Nat /\ bansReplaced' \in Nat
    BY RateConstants DEF RateTick, RatesTyped
  <2>3. QED
    BY <1>1, <2>1, <2>2 DEF RatesTyped
<1>3. \A q \in Requests :
          /\ progress'[q] = "count" => counted'[q] \intersect pending'[q] = {}
          /\ progress'[q] \in {"idle", "banned?"} => counted'[q] = {}
  BY <1>1 DEF RateTick, CountedInv
<1>4. ASSUME NEW c \in Counters
      PROVE  /\ admitted'[c] + Cardinality(Contenders(c)') <= count'[c]
             /\ admitted'[c] + Cardinality(Contenders(c)') <= MaxRequests
  <2>1. CASE countTtl[c] <= 1
    <3>1. Cardinality(Contenders(c)') = 0
      <4>1. Contenders(c)' = {}
        <5>1. \A r \in Requests : c \notin counted'[r]
          <6>1. ~(countTtl[c] > 1)
            BY <2>1 DEF RatesTyped
          <6>2. QED
            BY <6>1 DEF RateTick
        <5>2. QED
          BY <5>1 DEF Contenders
      <4>2. QED
        BY <4>1, FS_EmptySet
    <3>2. count'[c] = 0 /\ admitted'[c] = 0
      BY <2>1 DEF RateTick
    <3>3. QED
      BY <3>1, <3>2, RateConstants
  <2>2. CASE ~(countTtl[c] <= 1)
    <3>1. count'[c] = count[c] /\ admitted'[c] = admitted[c]
      BY <2>2 DEF RateTick
    <3>2. Contenders(c)' \subseteq Contenders(c) /\ Contenders(c) \in SUBSET Requests
      BY <1>1 DEF RateTick, Contenders
    <3>3. /\ Cardinality(Contenders(c)) \in Nat /\ Cardinality(Contenders(c)') \in Nat
          /\ Cardinality(Contenders(c)') <= Cardinality(Contenders(c))
      BY <3>2, SubsetsFinite
    <3>4. QED
      BY <3>1, <3>3, RateConstants DEF RatesTyped, CountedInv
  <2>3. QED
    BY <2>1, <2>2
<1>5. Banning' = Banning
  BY <1>1 DEF Banning
<1>6. BanInv'
  BY <1>1, <1>5 DEF RateTick, RatesTyped, BanInv
<1>7. QED
  BY <1>2, <1>3, <1>4, <1>6 DEF CountedInv

LEMMA LimitsInvStep == LimitsInv /\ [RateNext]_rateVars => LimitsInv'
<1> SUFFICES ASSUME LimitsInv, [RateNext]_rateVars PROVE LimitsInv'
  OBVIOUS
<1>1. CASE RateTick
  BY <1>1, LimitsInvTick
<1>2. CASE CleanUp \/ UnbanIp \/ UNCHANGED rateVars
  <2>1. /\ UNCHANGED <<progress, pending, over, banFor, counted, count, countTtl,
                       admitted>>
        /\ violations' \in 0..MaxViolations
        /\ \/ ban' = 0 /\ bansReplaced' = 0
           \/ UNCHANGED <<ban, bansReplaced>>
    BY <1>2, RateConstants DEF CleanUp, UnbanIp, rateVars, limits, requests, history,
                               LimitsInv, RatesTyped
  <2>2. Banning' = Banning /\ \A c \in Counters : Contenders(c)' = Contenders(c)
    BY <2>1 DEF Banning, Contenders
  <2>3. QED
    BY <2>1, <2>2 DEF LimitsInv, RatesTyped, CountedInv, BanInv
<1>3. ASSUME NEW r \in Requests, RequestStep(r) PROVE LimitsInv'
  BY <1>3, LimitsInvQuiet, LimitsInvCounts, LimitsInvBans DEF RequestStep
<1>4. QED
  BY <1>1, <1>2, <1>3 DEF RateNext

\* No counter lets more than max_requests of its requests through, and nothing that
\* arrives during a ban replaces it (RateLimiter.check(), HoneypotMiddleware).
THEOREM LimitsAlwaysHold == RateSpec => []LimitsHold
<1>1. LimitsInv => LimitsHold
  <2> SUFFICES ASSUME LimitsInv PROVE AdmittedWithinLimit /\ BanKeepsOut
    BY DEF LimitsHold
  <2>1. ASSUME NEW c \in Counters PROVE admitted[c] <= MaxRequests
    <3>1. Cardinality(Contenders(c)) \in Nat
      BY SubsetsFinite DEF Contenders
    <3>2. QED
      BY <3>1, RateConstants DEF LimitsInv, RatesTyped, CountedInv
  <2>2. Cardinality(Banning) \in Nat
    BY SubsetsFinite DEF Banning
  <2>3. BanKeepsOut
    BY <2>2, RateConstants DEF LimitsInv, RatesTyped, BanInv, BanKeepsOut
  <2>4. QED
    BY <2>1, <2>3 DEF AdmittedWithinLimit
<1>2. QED
  BY <1>1, LimitsInvInit, LimitsInvStep, PTL DEF RateSpec

-----------------------------------------------------------------------------
(* The sliding window *)

LEMMA ProductsGrow ==
    ASSUME NEW a \in Nat, NEW b \in Nat, NEW c \in Nat, a <= b
    PROVE  a * c <= b * c /\ a * c \in Nat /\ b * c \in Nat
OBVIOUS

LEMMA FactorBounded ==
    ASSUME NEW a \in Nat, NEW b \in Nat, NEW p \in Nat, NEW w \in Nat,
           NEW l \in Nat \ {0}, b * l + p * w <= a * l
    PROVE  b <= a
<1> SUFFICES ASSUME a + 1 <= b PROVE FALSE
  OBVIOUS
<1>1. (a + 1) * l <= b * l
  BY ProductsGrow
<1>2. (a + 1) * l = a * l + l
  OBVIOUS
<1>3. a * l \in Int /\ b * l \in Int /\ p * w \in Nat
  BY ProductsGrow
<1>4. QED
  BY <1>1, <1>2, <1>3

SlideConstants ==
    /\ SlideLength \in Nat \ {0} /\ SlideLimit \in Nat \ {0}
    /\ MaxSlideTime \in Nat /\ MaxSlideCount \in Nat

\* The admissions of the window that is open are among the requests it counts.
CurrentInv ==
    \A n \in Latest :
        /\ admissions[n] = -SlideLength \/ admissions[n] >= 0
        /\ admissions[n] >= 0 =>
               current > 0 /\ admissions[n] < began + SlideLength
        /\ admissions[n] >= began => n <= current /\ n <= SlideLimit

\* Those before it, if they are less than a window older than its beginning, are
\* among the requests that the window before it counted.
PreviousInv ==
    \A n \in Latest, j \in Nat :
        /\ j < n /\ admissions[j + 1] < began
        /\ admissions[n] >= 0 /\ admissions[n] >= began - SlideLength
        => n - j <= previous /\ n - j <= SlideLimit

\* The inductive invariant.
SlideInv == WindowTypeOK /\ CurrentInv /\ PreviousInv /\ NoDoubleBurst

LEMMA SlideConstantsHold == SlideConstants
BY SlideAssumption DEF SlideConstants

LEMMA SlideInvInit == WindowInit => SlideInv
<1> SUFFICES ASSUME WindowInit PROVE SlideInv
  OBVIOUS
<1> USE SlideConstantsHold DEF SlideConstants
<1>1. \A n \in Latest : admissions[n] = -SlideLength /\ -SlideLength < 0
  BY DEF WindowInit
<1>2. WindowTypeOK
  BY DEF WindowInit, WindowTypeOK
<1>3. CurrentInv /\ PreviousInv /\ NoDoubleBurst
  BY <1>1 DEF WindowInit, CurrentInv, PreviousInv, NoDoubleBurst
<1>4. QED
  BY <1>2, <1>3 DEF SlideInv

\* A request that is not admitted, in the open window or in a new one.
LEMMA WindowsCount ==
    ASSUME SlideInv, Increment, UNCHANGED <<clock, admissions>>, current < MaxSlideCount
    PROVE  SlideInv'
<1> USE SlideConstantsHold DEF SlideConstants, SlideInv
<1>1. /\ clock \in Nat /\ current \in 0..MaxSlideCount /\ began \in 0..clock
      /\ previous \in 0..MaxSlideCount
      /\ \A n \in Latest : admissions[n] \in -SlideLength..clock /\ n \in Nat
  BY DEF WindowTypeOK, Latest
<1>2. WindowTypeOK' /\ NoDoubleBurst'
  <2>1. current' \in 0..MaxSlideCount /\ began' \in 0..clock
        /\ previous' \in 0..MaxSlideCount
    BY <1>1 DEF Increment
  <2>2. QED
    BY <1>1, <2>1 DEF WindowTypeOK, NoDoubleBurst
<1>3. CASE current > 0 /\ clock - began < SlideLength
  BY <1>1, <1>2, <1>3 DEF Increment, CurrentInv, PreviousInv
<1>4. CASE ~(current > 0 /\ clock - began < SlideLength)
  <2>1. /\ current' = 1 /\ began' = clock
        /\ previous' = IF current > 0 THEN current ELSE previous
    BY <1>4 DEF Increment
  <2>2. CurrentInv'
    BY <1>1, <1>4, <2>1 DEF CurrentInv
  <2>3. PreviousInv'
    <3> SUFFICES ASSUME NEW n \in Latest, NEW j \in Nat, j < n, admissions[n] >= 0,
                        admissions[n] >= clock - SlideLength
                 PROVE  n - j <= previous' /\ n - j <= SlideLimit
      BY <2>1 DEF PreviousInv
    <3>1. current > 0 /\ admissions[n] >= began
      BY <1>1, <1>4 DEF CurrentInv
    <3>2. QED
      BY <1>1, <2>1, <3>1 DEF CurrentInv
  <2>4. QED
    BY <1>2, <2>2, <2>3
<1>5. QED
  BY <1>3, <1>4

\* One that is admitted: the burst that ends with it.
BurstWithin ==
    \A n \in Latest :
        admissions[n] >= 0 =>
            (n - SlideLimit) * SlideLength <= SlideLimit * (clock - admissions[n])

Admitted ==
    /\ clock - began < SlideLength
    /\ Estimate(current, began, previous) <= SlideLimit * SlideLength

LEMMA BurstBounded ==
    WindowTypeOK /\ CurrentInv /\ PreviousInv /\ Admitted => BurstWithin
<1> SUFFICES ASSUME WindowTypeOK, CurrentInv, PreviousInv, clock - began < SlideLength,
                    Estimate(current, began, previous) <= SlideLimit * SlideLength,
                    NEW n \in Latest, admissions[n] >= 0
             PROVE  (n - SlideLimit) * SlideLength <=
                        SlideLimit * (clock - admissions[n])
  BY DEF BurstWithin, Admitted
<1> USE SlideConstantsHold DEF SlideConstants
<1>1. /\ clock \in Nat /\ current \in Nat /\ began \in 0..clock /\ previous \in Nat
      /\ \A i \in Latest : admissions[i] \in -SlideLength..clock /\ i \in Nat
      /\ n \in 1..2 * SlideLimit
  BY DEF WindowTypeOK, Latest
<1> DEFINE span == clock - admissions[n]
           elapsed == clock - began
<1>2. span \in Nat /\ elapsed \in 0..SlideLength
  BY <1>1
<1>3. CASE span >= SlideLength
  <2>1. n - SlideLimit <= SlideLimit /\ n - SlideLimit \in Int
    BY <1>1
  <2>2. (n - SlideLimit) * SlideLength <= SlideLimit * SlideLength
    BY <2>1
  <2>3. SlideLimit * SlideLength <= SlideLimit * span
    BY <1>2, <1>3
  <2>4. QED
    BY <1>2, <2>1, <2>2, <2>3
<1>4. CASE admissions[n] >= began
  <2>1. n - SlideLimit <= 0 /\ n - SlideLimit \in Int
    BY <1>1, <1>4 DEF CurrentInv
  <2>2. (n - SlideLimit) * SlideLength <= 0
    BY <2>1
  <2>3. SlideLimit * span >= 0
    BY <1>2
  <2>4. QED
    BY <1>2, <2>1, <2>2, <2>3
<1>5. CASE span < SlideLength /\ admissions[n] < began
  <2> DEFINE Older == {j \in Nat : j < n /\ admissions[j + 1] < began}
  <2>1. PICK j \in Older : \A i \in Older : j <= i
    <3>1. n - 1 \in Older
      BY <1>1, <1>5
    <3>2. QED
      BY <3>1, LeastNumber
  <2>2. j <= current
    <3>1. CASE j = 0
      BY <1>1, <3>1
    <3>2. CASE j # 0
      <4>1. j - 1 \notin Older /\ j - 1 \in Nat /\ j - 1 < n /\ j \in Latest
        BY <1>1, <2>1, <3>2 DEF Latest
      <4>2. admissions[j] >= began
        BY <1>1, <4>1
      <4>3. QED
        BY <4>1, <4>2 DEF CurrentInv
    <3>3. QED
      BY <3>1, <3>2
  <2> DEFINE k == n - j
  <2>3. k \in Nat /\ k <= previous /\ k <= SlideLimit /\ j \in Nat
    <3>1. admissions[n] >= began - SlideLength
      BY <1>1, <1>5
    <3>2. QED
      BY <1>1, <2>1, <3>1 DEF PreviousInv
  <2>4. j * SlideLength <= current * SlideLength
    BY <1>1, <2>2, <2>3, ProductsGrow
  <2>5. k * (SlideLength - elapsed) <= previous * (SlideLength - elapsed)
    BY <1>1, <1>2, <2>3, ProductsGrow
  <2>6. j * SlideLength + k * (SlideLength - elapsed) <= SlideLimit * SlideLength
    <3>1. current * SlideLength + previous * (SlideLength - elapsed)
              <= SlideLimit * SlideLength
      BY DEF Estimate
    <3>2. /\ j * SlideLength \in Int /\ current * SlideLength \in Int
          /\ k * (SlideLength - elapsed) \in Int
          /\ previous * (SlideLength - elapsed) \in Int
             /\ SlideLimit * SlideLength \in Int
      BY <1>1, <1>2, <2>3
    <3>3. QED
      BY <2>4, <2>5, <3>1, <3>2
  <2>7. k * elapsed <= SlideLimit * elapsed
    BY <1>2, <2>3, ProductsGrow
  <2>8. SlideLimit * elapsed <= SlideLimit * span
    BY <1>1, <1>2, <1>5
  <2>9. n = j + k
    BY <1>1, <2>3
  <2>10. (n - SlideLimit) * SlideLength
             = j * SlideLength + k * SlideLength - SlideLimit * SlideLength
    BY <2>3, <2>9
  <2>11. k * (SlideLength - elapsed) = k * SlideLength - k * elapsed
    BY <1>2, <2>3
  <2> HIDE DEF k, span, elapsed
  <2>12. /\ j * SlideLength \in Int /\ k * SlideLength \in Int /\ k * elapsed \in Int
         /\ SlideLimit * SlideLength \in Int /\ SlideLimit * elapsed \in Int
         /\ SlideLimit * span \in Int
    BY <1>2, <2>3
  <2>13. (n - SlideLimit) * SlideLength <= SlideLimit * span
    BY <2>6, <2>7, <2>8, <2>10, <2>11, <2>12
  <2>14. QED
    BY <2>13 DEF span
<1>6. QED
  BY <1>1, <1>2, <1>3, <1>4, <1>5

LEMMA BurstBoundedNext ==
    WindowTypeOK' /\ CurrentInv' /\ PreviousInv' /\ Admitted' => BurstWithin'
BY BurstBounded, PTL

LEMMA SlideInvStep == SlideInv /\ [WindowNext]_windowVars => SlideInv'
<1> SUFFICES ASSUME SlideInv, [WindowNext]_windowVars PROVE SlideInv'
  OBVIOUS
<1> USE SlideConstantsHold DEF SlideConstants
<1>1. CASE TimePasses
  BY <1>1 DEF TimePasses, SlideInv, WindowTypeOK, CurrentInv, PreviousInv, NoDoubleBurst
<1>2. CASE UNCHANGED windowVars
  BY <1>2 DEF windowVars, SlideInv, WindowTypeOK, CurrentInv, PreviousInv, NoDoubleBurst
<1>3. CASE CheckSlide /\ ~(Estimate(current', began', previous')
                                <= SlideLimit * SlideLength)
  BY <1>3, WindowsCount DEF CheckSlide
<1>4. CASE CheckSlide /\ Estimate(current', began', previous')
                              <= SlideLimit * SlideLength
  <2>1. /\ clock \in 0..MaxSlideTime /\ clock \in Nat
        /\ current \in 0..MaxSlideCount /\ began \in 0..clock
        /\ previous \in 0..MaxSlideCount /\ clock' = clock
        /\ current < MaxSlideCount /\ Increment
        /\ \A i \in Latest : admissions[i] \in -SlideLength..clock
        /\ \A i \in Latest : i \in Nat /\ i >= 1 /\ (i # 1 => i - 1 \in Latest)
        /\ 1 \in Latest
    BY <1>4 DEF CheckSlide, SlideInv, WindowTypeOK, Latest
  <2>2. /\ admissions' \in [Latest -> -SlideLength..clock]
        /\ admissions'[1] = clock
        /\ \A i \in Latest \ {1} : admissions'[i] = admissions[i - 1]
    BY <1>4, <2>1 DEF CheckSlide
  <2>3. /\ current' \in 1..MaxSlideCount /\ began' \in 0..clock
        /\ previous' \in 0..MaxSlideCount
        /\ clock - began' < SlideLength
    BY <2>1 DEF Increment
  <2>4. clock \in Nat /\ clock' = clock
    BY <2>1
  <2>5. current' <= SlideLimit
    <3> DEFINE weight == SlideLength - (clock - began')
    <3>1. weight \in Nat /\ previous' \in Nat /\ current' \in Nat
      <4>1. began' \in Int
        BY <2>4, <2>3
      <4>2. clock - began' < SlideLength
        BY <2>3
      <4>3. SlideLength \in Int
        OBVIOUS
      <4>4. clock - began' \in Int
        BY <2>4, <4>1
      <4>5. weight \in Nat
        BY <4>2, <4>3, <4>4
      <4>6. QED
        BY <2>3, <4>5
    <3>2. current' * SlideLength + previous' * weight <= SlideLimit * SlideLength
      BY <1>4, <2>1 DEF Estimate
    <3>3. /\ SlideLimit \in Nat /\ current' \in Nat /\ previous' \in Nat
             /\ weight \in Nat
          /\ SlideLength \in Nat \ {0}
      BY <3>1
    <3> HIDE DEF weight, SlideConstants
    <3>4. QED
      BY <3>2, <3>3, FactorBounded
  <2>6. WindowTypeOK'
    BY <2>1, <2>2, <2>3 DEF WindowTypeOK
  <2>7. CurrentInv' /\ PreviousInv'
    <3>1. CASE current > 0 /\ clock - began < SlideLength
      <4>1. current' = current + 1 /\ began' = began /\ previous' = previous
        BY <2>1, <3>1 DEF Increment
      <4>2. CurrentInv'
        <5> SUFFICES ASSUME NEW n \in Latest
                     PROVE  /\ admissions'[n] = -SlideLength \/ admissions'[n] >= 0
                            /\ admissions'[n] >= 0 =>
                                   /\ current' > 0
                                   /\ admissions'[n] < began' + SlideLength
                            /\ admissions'[n] >= began' =>
                                   n <= current' /\ n <= SlideLimit
          BY DEF CurrentInv
        <5>1. CASE n = 1
          BY <2>1, <2>2, <2>3, <2>5, <3>1, <4>1, <5>1
        <5>2. CASE n # 1
          BY <2>1, <2>2, <2>3, <2>5, <3>1, <4>1, <5>2 DEF SlideInv, CurrentInv
        <5>3. QED
          BY <5>1, <5>2
      <4>3. PreviousInv'
        <5> SUFFICES ASSUME NEW n \in Latest, NEW j \in Nat,
                            j < n, admissions'[j + 1] < began', admissions'[n] >= 0,
                            admissions'[n] >= began' - SlideLength
                     PROVE  n - j <= previous' /\ n - j <= SlideLimit
          BY DEF PreviousInv
        <5>1. j # 0 /\ n # 1 /\ j + 1 \in Latest
          <6>1. j # 0
            BY <2>1, <2>2, <2>3
          <6>2. n \in Nat /\ n # 1
            BY <2>1, <6>1
          <6>3. j + 1 \in Latest
            BY <6>1, <6>2 DEF Latest
          <6>4. QED
            BY <6>1, <6>2, <6>3
        <5>2. /\ n - 1 \in Latest /\ j - 1 \in Nat /\ j - 1 < n - 1
              /\ admissions[(j - 1) + 1] < began
              /\ admissions[n - 1] >= 0 /\ admissions[n - 1] >= began - SlideLength
          BY <2>1, <2>2, <4>1, <5>1
        <5>3. (n - 1) - (j - 1) <= previous /\ (n - 1) - (j - 1) <= SlideLimit
          BY <5>2 DEF SlideInv, PreviousInv
        <5>4. QED
          BY <2>1, <4>1, <5>3
      <4>4. QED
        BY <4>2, <4>3
    <3>2. CASE ~(current > 0 /\ clock - began < SlideLength)
      <4>1. /\ current' = 1 /\ began' = clock
            /\ previous' = IF current > 0 THEN current ELSE previous
        BY <2>1, <3>2 DEF Increment
      <4>2. \A i \in Latest : admissions[i] >= 0 => current > 0 /\ admissions[i] < clock
        BY <2>1, <3>2 DEF SlideInv, CurrentInv
      <4>3. CurrentInv'
        <5> SUFFICES ASSUME NEW n \in Latest
                     PROVE  /\ admissions'[n] = -SlideLength \/ admissions'[n] >= 0
                            /\ admissions'[n] >= 0 =>
                                   /\ current' > 0
                                   /\ admissions'[n] < began' + SlideLength
                            /\ admissions'[n] >= began' =>
                                   n <= current' /\ n <= SlideLimit
          BY DEF CurrentInv
        <5>1. CASE n = 1
          BY <2>1, <2>2, <4>1, <5>1
        <5>2. CASE n # 1
          <6>1. /\ admissions'[n] = admissions[n - 1] /\ n - 1 \in Latest
                /\ admissions[n - 1] = -SlideLength \/ admissions[n - 1] >= 0
            BY <2>1, <2>2, <5>2 DEF SlideInv, CurrentInv
          <6>2. QED
            BY <2>1, <4>1, <4>2, <6>1
        <5>3. QED
          BY <5>1, <5>2
      <4>4. PreviousInv'
        <5> SUFFICES ASSUME NEW n \in Latest, NEW j \in Nat,
                            j < n, admissions'[j + 1] < began', admissions'[n] >= 0,
                            admissions'[n] >= began' - SlideLength
                     PROVE  n - j <= previous' /\ n - j <= SlideLimit
          BY DEF PreviousInv
        <5>1. j # 0 /\ n # 1
          BY <2>1, <2>2, <4>1
        <5>2. /\ admissions'[n] = admissions[n - 1] /\ n - 1 \in Latest
              /\ admissions[n - 1] >= 0 /\ admissions[n - 1] >= clock - SlideLength
          BY <2>1, <2>2, <4>1, <5>1
        <5>3. current > 0 /\ admissions[n - 1] >= began
          BY <2>1, <3>2, <4>2, <5>2
        <5>4. n - 1 <= current /\ n - 1 <= SlideLimit
          BY <5>2, <5>3 DEF SlideInv, CurrentInv
        <5>5. QED
          BY <2>1, <4>1, <5>1, <5>3, <5>4
      <4>5. QED
        BY <4>3, <4>4
    <3>3. QED
      BY <3>1, <3>2
  <2>8. NoDoubleBurst'
    <3> SUFFICES ASSUME NEW n \in Latest, admissions'[n] > -SlideLength
                 PROVE  (n - SlideLimit) * SlideLength
                            <= SlideLimit * (admissions'[1] - admissions'[n])
      BY DEF NoDoubleBurst
    <3>1. admissions'[n] >= 0
      BY <2>2, <2>7 DEF CurrentInv
    <3>2. (n - SlideLimit) * SlideLength <= SlideLimit * (clock' - admissions'[n])
      <4>1. Admitted'
        BY <1>4, <2>1, <2>3 DEF Estimate, Admitted
      <4>2. BurstWithin'
        BY <2>6, <2>7, <4>1, BurstBoundedNext
      <4>3. QED
        BY <3>1, <4>2 DEF BurstWithin
    <3>3. QED
      BY <2>1, <2>2, <3>2
  <2>9. QED
    BY <2>6, <2>7, <2>8 DEF SlideInv
<1>5. QED
  BY <1>1, <1>2, <1>3, <1>4 DEF WindowNext, CheckSlide

\* No burst at a window's boundary (InMemoryBackend.get_sliding_count()).
THEOREM NeverDoubleBurst == WindowSpec => []NoDoubleBurst
BY SlideInvInit, SlideInvStep, PTL DEF WindowSpec, SlideInv

-----------------------------------------------------------------------------
(* Both limiters *)

\* Neither the counters of a limit nor the sliding window lets more through.
THEOREM RatesAlwaysHold == RateSpec /\ WindowSpec => []RatesHold
BY LimitsAlwaysHold, NeverDoubleBurst, PTL DEF RatesHold

-----------------------------------------------------------------------------
(* Lockout *)

\* The requests that have been let in and have not tried their password yet.
Guessing == {l \in Logins : login[l] \in {"delay", "handler"}}

\* Every attempt under a lockout was let in before it.
GuessInv ==
    /\ lockout = 0 => late = 0
    /\ lockout > 0 => late + Cardinality(Guessing) <= Cardinality(Logins) - 1

\* The inductive invariant.
LockoutInv == BruteTypeOK /\ LockedOnceOver /\ GuessInv

LEMMA GuessingFinite ==
    /\ IsFiniteSet(Guessing) /\ Cardinality(Guessing) \in Nat
    /\ Cardinality(Logins) \in Nat \ {0}
    /\ Cardinality(Guessing) <= Cardinality(Logins)
    /\ Guessing # Logins => Cardinality(Guessing) <= Cardinality(Logins) - 1
<1>1. IsFiniteSet(Logins) /\ Logins # {} /\ Guessing \subseteq Logins
  BY BruteForceAssumption DEF Guessing
<1>2. /\ IsFiniteSet(Guessing) /\ Cardinality(Guessing) <= Cardinality(Logins)
      /\ Cardinality(Guessing) = Cardinality(Logins) => Guessing = Logins
  BY <1>1, FS_Subset
<1>3. /\ Cardinality(Guessing) \in Nat /\ Cardinality(Logins) \in Nat
      /\ Cardinality(Logins) # 0
  BY <1>1, <1>2, FS_CardinalityType, FS_EmptySet
<1>4. QED
  BY <1>2, <1>3

LEMMA LockoutInvInit == BruteInit => LockoutInv
<1> SUFFICES ASSUME BruteInit PROVE LockoutInv
  OBVIOUS
<1>1. /\ MaxAttempts \in Nat \ {0} /\ LockoutTime \in Nat \ {0}
      /\ AttemptTtl \in Nat \ {0} /\ MaxFailures \in Nat \ {0}
  BY BruteForceAssumption
<1>2. BruteTypeOK
  <2>1. inMemory \in BOOLEAN /\ lapsed \in BOOLEAN
    BY DEF BruteInit
  <2>2. QED
    BY <1>1, <2>1 DEF BruteInit, BruteTypeOK
<1>3. LockedOnceOver /\ GuessInv
  BY <1>1 DEF BruteInit, LockedOnceOver, GuessInv
<1>4. QED
  BY <1>2, <1>3 DEF LockoutInv

LEMMA LockoutInvStep == LockoutInv /\ [BruteNext]_bruteVars => LockoutInv'
<1> SUFFICES ASSUME LockoutInv, [BruteNext]_bruteVars PROVE LockoutInv'
  OBVIOUS
<1> USE DEF LockoutInv
<1>1. /\ MaxAttempts \in Nat \ {0} /\ LockoutTime \in Nat \ {0}
      /\ AttemptTtl \in Nat \ {0} /\ MaxFailures \in Nat \ {0}
  BY BruteForceAssumption
<1> USE <1>1
<1>2. /\ attempts \in 0..MaxFailures /\ attemptsTtl \in 0..AttemptTtl
      /\ lockout \in 0..LockoutTime /\ late \in Nat /\ lapsed \in BOOLEAN
  BY DEF BruteTypeOK
<1>3. CASE BruteTick
  <2>1. BruteTypeOK' /\ LockedOnceOver'
    <3>1. /\ attemptsTtl' \in 0..AttemptTtl /\ attempts' \in {0, attempts}
          /\ lockout' \in 0..LockoutTime
          /\ attempts' = 0 <=> attemptsTtl' = 0
          /\ lockout > 1 => lockout' > 0
          /\ lockout = 0 => lockout' = 0
      BY <1>3, <1>2 DEF BruteTick, BruteTypeOK
    <3>2. /\ lapsed' \in BOOLEAN /\ late' \in {0, late}
          /\ lockout = 1 => (lapsed' <=> attempts' > 0)
          /\ lockout # 1 => (lapsed' <=> lapsed /\ attempts' > 0)
      <4>1. CASE lockout = 1
        <5>1. late' = 0 /\ lapsed' = (attempts' > 0)
          BY <1>3, <4>1 DEF BruteTick, Unlocks
        <5>2. (attempts' > 0) \in BOOLEAN
          OBVIOUS
        <5>3. QED
          BY <4>1, <5>1, <5>2
      <4>2. CASE lockout # 1
        <5>1. late' = late /\ lapsed' = (lapsed /\ attempts' > 0)
          BY <1>3, <4>2 DEF BruteTick
        <5>2. QED
          BY <4>2, <5>1
      <4>3. QED
        BY <4>1, <4>2
    <3>3. inMemory' = inMemory /\ login' = login
      BY <1>3 DEF BruteTick
    <3>4. BruteTypeOK'
      BY <1>2, <3>1, <3>2, <3>3 DEF BruteTypeOK
    <3>5. LockedOnceOver'
      BY <1>2, <3>1, <3>2, <3>3 DEF LockedOnceOver
    <3>6. QED
      BY <3>4, <3>5
  <2>2. Guessing' = Guessing
    BY <1>3 DEF BruteTick, Guessing
  <2>3. GuessInv'
    BY <1>3, <1>2, <2>2 DEF BruteTick, Unlocks, GuessInv
  <2>4. QED
    BY <2>1, <2>3
<1>4. ASSUME NEW l \in Logins, Submit(l) \/ CheckLockout(l) \/ Wake(l) PROVE LockoutInv'
  <2>1. PICK from \in {"idle", "check", "delay"},
             to \in {"check", "handler", "idle", "delay"} :
            /\ login[l] = from /\ login' = [login EXCEPT ![l] = to]
            /\ lockout > 0 /\ to \in {"delay", "handler"} => from = "delay"
            /\ UNCHANGED <<inMemory, guard, lapsed, late>>
    <3>1. CASE Submit(l)
      BY <3>1 DEF Submit, Advances
    <3>2. CASE CheckLockout(l)
      BY <1>2, <3>2 DEF CheckLockout, Advances
    <3>3. CASE Wake(l)
      BY <3>3 DEF Wake, Advances
    <3>4. QED
      BY <1>4, <3>1, <3>2, <3>3
  <2>2. BruteTypeOK' /\ LockedOnceOver'
    BY <2>1 DEF guard, BruteTypeOK, LockedOnceOver
  <2>3. lockout > 0 => Guessing' \subseteq Guessing
    BY <2>1 DEF BruteTypeOK, Guessing
  <2>4. lockout > 0 => Cardinality(Guessing') <= Cardinality(Guessing)
    BY <2>3, GuessingFinite, FS_Subset
  <2>5. IsFiniteSet(Guessing')
    BY BruteForceAssumption, FS_Subset DEF Guessing
  <2>6. GuessInv'
    BY <1>2, <2>1, <2>4, <2>5, GuessingFinite, FS_CardinalityType DEF guard, GuessInv
  <2>7. QED
    BY <2>2, <2>6
<1>5. ASSUME NEW l \in Logins, Attempt(l) PROVE LockoutInv'
  <2>1. PICK to \in {"record", "reset", "idle"} :
            /\ login[l] = "handler" /\ login' = [login EXCEPT ![l] = to]
            /\ late' = IF lockout > 0 THEN late + 1 ELSE late
            /\ UNCHANGED <<inMemory, guard, lapsed>>
    BY <1>5 DEF Attempt, Advances
  <2>2. BruteTypeOK' /\ LockedOnceOver'
    BY <1>2, <2>1 DEF guard, BruteTypeOK, LockedOnceOver
  <2>3. Guessing' = Guessing \ {l} /\ l \in Guessing
    BY <2>1 DEF BruteTypeOK, Guessing
  <2>4. Cardinality(Guessing') = Cardinality(Guessing) - 1
    BY <2>3, GuessingFinite, FS_RemoveElement
  <2>5. GuessInv'
    BY <1>2, <2>1, <2>4, GuessingFinite DEF guard, GuessInv
  <2>6. QED
    BY <2>2, <2>5
<1>6. ASSUME NEW l \in Logins, RecordAttempt(l) PROVE LockoutInv'
  <2>1. PICK to \in {"lock", "idle"} :
            /\ login[l] = "record" /\ login' = [login EXCEPT ![l] = to]
            /\ attempts + 1 >= MaxAttempts => to = "lock"
            /\ attempts < MaxFailures /\ attempts' = attempts + 1
            /\ attemptsTtl' =
                   IF attempts = 0 \/ inMemory THEN AttemptTtl ELSE attemptsTtl
            /\ UNCHANGED <<inMemory, lockout, lapsed, late>>
    BY <1>6 DEF RecordAttempt, Advances
  <2>2. BruteTypeOK' /\ LockedOnceOver'
    BY <1>2, <2>1 DEF BruteTypeOK, LockedOnceOver
  <2>3. Guessing' = Guessing
    BY <2>1 DEF BruteTypeOK, Guessing
  <2>4. QED
    BY <2>1, <2>2, <2>3 DEF GuessInv
<1>7. ASSUME NEW l \in Logins, SetLockout(l) PROVE LockoutInv'
  <2>1. /\ login[l] = "lock" /\ login' = [login EXCEPT ![l] = "idle"]
        /\ lockout' = LockoutTime
        /\ UNCHANGED <<inMemory, attempts, attemptsTtl, lapsed, late>>
    BY <1>7 DEF SetLockout, Advances
  <2>2. BruteTypeOK' /\ LockedOnceOver'
    BY <2>1 DEF BruteTypeOK, LockedOnceOver
  <2>3. Guessing' = Guessing /\ Guessing # Logins
    BY <2>1 DEF BruteTypeOK, Guessing
  <2>4. GuessInv'
    BY <1>2, <2>1, <2>3, GuessingFinite DEF GuessInv
  <2>5. QED
    BY <2>2, <2>4
<1>8. ASSUME NEW l \in Logins, Reset(l) PROVE LockoutInv'
  BY <1>8, <1>2 DEF Reset, Advances, Unlocks, BruteTypeOK, LockedOnceOver, GuessInv
<1>9. ASSUME NEW l \in Logins, AbandonLogin(l) PROVE LockoutInv'
  <2>1. /\ login' = [login EXCEPT ![l] = "idle"]
        /\ lapsed' = (lapsed \/ (login[l] = "lock" /\ attempts > 0))
        /\ UNCHANGED <<inMemory, guard, late>>
    BY <1>9 DEF AbandonLogin
  <2>2. BruteTypeOK' /\ LockedOnceOver'
    <3>1. lapsed' \in BOOLEAN
          /\ (lapsed' <=> lapsed \/ (login[l] = "lock" /\ attempts > 0))
      BY <1>2, <2>1
    <3>2. \A m \in Logins : login[m] = "lock" => m = l \/ login'[m] = "lock"
      BY <2>1 DEF BruteTypeOK
    <3>3. BruteTypeOK'
      BY <2>1, <3>1 DEF guard, BruteTypeOK
    <3>4. LockedOnceOver'
      BY <1>2, <2>1, <3>1, <3>2 DEF guard, LockedOnceOver
    <3>5. QED
      BY <3>3, <3>4
  <2>3. Guessing' \subseteq Guessing
    BY <2>1 DEF BruteTypeOK, Guessing
  <2>4. /\ IsFiniteSet(Guessing') /\ Cardinality(Guessing') <= Cardinality(Guessing)
        /\ Cardinality(Guessing') \in Nat
    BY <2>3, GuessingFinite, FS_Subset, FS_CardinalityType
  <2>5. GuessInv'
    BY <1>2, <2>1, <2>4, GuessingFinite DEF guard, GuessInv
  <2>6. QED
    BY <2>2, <2>5
<1>10. CASE UNCHANGED bruteVars
  <2>1. Guessing' = Guessing
    BY <1>10 DEF bruteVars, Guessing
  <2>2. QED
    BY <1>10, <2>1 DEF bruteVars, guard, BruteTypeOK, LockedOnceOver, GuessInv
<1>11. QED
  BY <1>3, <1>4, <1>5, <1>6, <1>7, <1>8, <1>9, <1>10 DEF BruteNext, LoginStep

\* The lockout holds under overlapping logins (BruteForceMiddleware.dispatch()).
THEOREM LockoutAlwaysHolds == BruteSpec => []LockoutHolds
<1>1. LockoutInv => LockoutHolds
  <2> SUFFICES ASSUME LockoutInv PROVE FewGuessesUnderLockout
    BY DEF LockoutInv, LockoutHolds
  <2>1. late \in Nat /\ lockout \in Nat
    BY BruteForceAssumption DEF LockoutInv, BruteTypeOK
  <2>2. QED
    BY <2>1, GuessingFinite DEF LockoutInv, GuessInv, FewGuessesUnderLockout
<1>2. QED
  BY <1>1, LockoutInvInit, LockoutInvStep, PTL DEF BruteSpec

-----------------------------------------------------------------------------
(* Enumeration detection *)

\* The failures within the window that ends with the request's own.
InItsWindow(q) ==
    {i \in 1..nth[q] : failed[caller[q]][nth[q]] - failed[caller[q]][i] < FailWindow}

FailuresTyped ==
    /\ failTime \in Nat
    /\ failed \in [Callers -> Seq(Nat)]
    /\ failures \in [Callers -> SUBSET Nat]
    /\ nth \in [AuthCalls -> Nat]
    /\ caller \in [AuthCalls -> Callers \cup {NoCaller}]
    /\ DOMAIN authStep = AuthCalls

\* The detector has dropped only what has left the window.
KeptFor(c) ==
    /\ failures[c] \subseteq 1..Len(failed[c])
    /\ \A i \in 1..Len(failed[c]) : InWindow(failed[c][i]) => i \in failures[c]

\* A request has a place among the failures once it has been tracked, and is
\* reported if the threshold was reached then.
JudgedFor(q) ==
    /\ authStep[q] # "idle" => caller[q] \in Callers
    /\ authStep[q] \in {"idle", "handler", "track"} => nth[q] = 0
    /\ nth[q] = 0 => q \notin detected
    /\ nth[q] # 0 =>
           /\ nth[q] \in 1..Len(failed[caller[q]])
           /\ q \in detected <=> Cardinality(InItsWindow(q)) >= FailThreshold

DetectionInv ==
    /\ FailuresTyped
    /\ \A c \in Callers : KeptFor(c)
    /\ \A q \in AuthCalls : JudgedFor(q)

LEMMA DetectionInvInit == EnumerationInit => DetectionInv
<1> SUFFICES ASSUME EnumerationInit PROVE DetectionInv
  OBVIOUS
<1> USE DEF EnumerationInit
<1>1. FailuresTyped
  BY DEF FailuresTyped
<1>2. \A c \in Callers : KeptFor(c)
  BY DEF KeptFor
<1>3. \A q \in AuthCalls : JudgedFor(q)
  BY DEF JudgedFor
<1>4. QED
  BY <1>1, <1>2, <1>3 DEF DetectionInv

LEMMA DetectionInvStep ==
    DetectionInv /\ [EnumerationNext]_enumerationVars => DetectionInv'
<1> SUFFICES ASSUME DetectionInv, [EnumerationNext]_enumerationVars
             PROVE  DetectionInv'
  OBVIOUS
<1>1. /\ FailuresTyped
      /\ \A c \in Callers : KeptFor(c)
      /\ \A q \in AuthCalls : JudgedFor(q)
  BY DEF DetectionInv
<1>2. FailWindow \in Nat \ {0} /\ FailThreshold \in Nat \ {0} /\ NoCaller \notin Callers
  BY EnumerationAssumption
<1>3. ASSUME UNCHANGED <<failTime, failed, failures>>
      PROVE  \A c \in Callers : KeptFor(c)'
  BY <1>1, <1>3 DEF KeptFor, InWindow
\* A step of a request that is not its tracking.
<1>4. ASSUME NEW q \in AuthCalls, UNCHANGED <<failTime, failed, failures>>,
             FailuresTyped',
             \A r \in AuthCalls \ {q} :
                 /\ authStep'[r] = authStep[r] /\ caller'[r] = caller[r]
                 /\ nth'[r] = nth[r] /\ (r \in detected' <=> r \in detected),
             \/ /\ caller'[q] = caller[q] /\ nth'[q] = nth[q]
                /\ q \in detected' <=> q \in detected
                /\ authStep[q] # "idle"
                /\ authStep'[q] \in {"idle", "handler", "track"} => nth[q] = 0
             \/ /\ nth'[q] = 0 /\ q \notin detected'
                /\ authStep'[q] # "idle" => caller'[q] \in Callers
      PROVE  DetectionInv'
  <2>1. ASSUME NEW r \in AuthCalls, r # q
        PROVE  JudgedFor(r)'
    <3>1. /\ authStep'[r] = authStep[r] /\ caller'[r] = caller[r]
          /\ nth'[r] = nth[r] /\ (r \in detected' <=> r \in detected)
      BY <1>4, <2>1
    <3>2. InItsWindow(r)' = InItsWindow(r)
      BY <1>4, <3>1 DEF InItsWindow
    <3>3. JudgedFor(r)
      BY <1>1
    <3>4. QED
      BY <1>4, <3>1, <3>2, <3>3 DEF JudgedFor
  <2>2. JudgedFor(q)'
    <3>1. CASE /\ caller'[q] = caller[q] /\ nth'[q] = nth[q]
               /\ q \in detected' <=> q \in detected
               /\ authStep[q] # "idle"
               /\ authStep'[q] \in {"idle", "handler", "track"} => nth[q] = 0
      <4>1. InItsWindow(q)' = InItsWindow(q)
        BY <1>4, <3>1 DEF InItsWindow
      <4>2. JudgedFor(q)
        BY <1>1
      <4>3. QED
        BY <1>4, <3>1, <4>1, <4>2 DEF JudgedFor
    <3>2. CASE /\ nth'[q] = 0 /\ q \notin detected'
               /\ authStep'[q] # "idle" => caller'[q] \in Callers
      BY <3>2 DEF JudgedFor
    <3>3. QED
      BY <1>4, <3>1, <3>2
  <2>3. QED
    BY <1>3, <1>4, <2>1, <2>2 DEF DetectionInv
<1>5. CASE FailTick
  <2>1. /\ failTime' = failTime + 1
        /\ UNCHANGED <<failures, authStep, caller, failed, nth, detected>>
    BY <1>5 DEF FailTick
  <2>2. FailuresTyped'
    BY <1>1, <2>1 DEF FailuresTyped
  <2>3. \A c \in Callers : KeptFor(c)'
    <3> SUFFICES ASSUME NEW c \in Callers PROVE KeptFor(c)'
      OBVIOUS
    <3>1. \A i \in 1..Len(failed[c]) : failed[c][i] \in Nat
      BY <1>1 DEF FailuresTyped
    <3>2. \A i \in 1..Len(failed[c]) : InWindow(failed[c][i])' => InWindow(failed[c][i])
      BY <1>1, <1>2, <2>1, <3>1 DEF FailuresTyped, InWindow
    <3>3. KeptFor(c)
      BY <1>1
    <3>4. QED
      BY <2>1, <3>2, <3>3 DEF KeptFor
  <2>4. \A q \in AuthCalls : InItsWindow(q)' = InItsWindow(q)
    BY <2>1 DEF InItsWindow
  <2>5. \A q \in AuthCalls : JudgedFor(q)'
    BY <1>1, <2>1, <2>4 DEF JudgedFor
  <2>6. QED
    BY <2>2, <2>3, <2>5 DEF DetectionInv
<1>6. ASSUME NEW q \in AuthCalls, Track(q)
      PROVE  DetectionInv'
  <2> DEFINE c == caller[q]
             n == Len(failed[c])
             recent == {i \in failures[c] : InWindow(failed[c][i])} \cup {n + 1}
  <2>1. /\ authStep[q] = "track"
        /\ failures' = [failures EXCEPT ![c] = recent]
        /\ failed' = [failed EXCEPT ![c] = Append(failed[c], failTime)]
        /\ nth' = [nth EXCEPT ![q] = n + 1]
        /\ UNCHANGED <<failTime, caller>>
    BY <1>6 DEF Track
  <2>2. IF Cardinality(recent) >= FailThreshold
        THEN AuthGoesTo(q, "report") /\ detected' = detected \cup {q}
        ELSE AuthGoesTo(q, "pad") /\ UNCHANGED detected
    BY <1>6 DEF Track
  <2>3. JudgedFor(q) /\ KeptFor(c) /\ c \in Callers /\ q \notin detected
    BY <1>1, <2>1 DEF JudgedFor
  <2>4. /\ failed[c] \in Seq(Nat) /\ n \in Nat /\ failTime \in Nat
        /\ \A i \in 1..n : failed[c][i] \in Nat
    BY <1>1, <2>3 DEF FailuresTyped
  <2>5. /\ Append(failed[c], failTime) \in Seq(Nat)
        /\ Len(Append(failed[c], failTime)) = n + 1
        /\ \A i \in 1..n : Append(failed[c], failTime)[i] = failed[c][i]
        /\ Append(failed[c], failTime)[n + 1] = failTime
    BY <2>4
  <2>6. /\ failed'[c] = Append(failed[c], failTime) /\ failures'[c] = recent
        /\ \A d \in Callers \ {c} : failed'[d] = failed[d] /\ failures'[d] = failures[d]
    BY <1>1, <2>1, <2>3 DEF FailuresTyped
  <2>7. /\ nth'[q] = n + 1 /\ authStep'[q] \in {"report", "pad"}
        /\ \A r \in AuthCalls \ {q} :
               /\ nth'[r] = nth[r] /\ authStep'[r] = authStep[r]
               /\ r \in detected' <=> r \in detected
    BY <1>1, <2>1, <2>2 DEF FailuresTyped, AuthGoesTo
  <2>8. recent \subseteq 1..n + 1 /\ recent \in SUBSET Nat
    BY <2>3, <2>4 DEF KeptFor
  <2>9. FailuresTyped'
    <3>1. failed' \in [Callers -> Seq(Nat)]
      BY <1>1, <2>1, <2>5 DEF FailuresTyped
    <3>2. failures' \in [Callers -> SUBSET Nat]
      BY <1>1, <2>1, <2>8 DEF FailuresTyped
    <3>3. nth' \in [AuthCalls -> Nat] /\ DOMAIN authStep' = AuthCalls
      <4>1. n + 1 \in Nat
        BY <2>4
      <4>2. QED
        BY <1>1, <2>1, <2>2, <4>1 DEF FailuresTyped, AuthGoesTo
    <3>4. QED
      BY <1>1, <2>1, <3>1, <3>2, <3>3 DEF FailuresTyped
  <2>10. \A i \in 1..n + 1 : failTime - failed'[c][i] < FailWindow <=> i \in recent
    <3> SUFFICES ASSUME NEW i \in 1..n + 1
                 PROVE  failTime - failed'[c][i] < FailWindow <=> i \in recent
      OBVIOUS
    <3>1. CASE i = n + 1
      BY <1>2, <2>4, <2>5, <2>6, <3>1
    <3>2. CASE i \in 1..n
      BY <2>3, <2>5, <2>6, <3>2 DEF KeptFor, InWindow
    <3>3. QED
      BY <2>4, <3>1, <3>2
  <2> HIDE DEF recent
  <2>11. ASSUME NEW d \in Callers
         PROVE  KeptFor(d)'
    <3>1. CASE d = c
      BY <2>1, <2>5, <2>6, <2>8, <2>10, <3>1 DEF KeptFor, InWindow
    <3>2. CASE d # c
      <4>1. KeptFor(d) /\ failed'[d] = failed[d] /\ failures'[d] = failures[d]
        BY <1>1, <2>6, <3>2
      <4>2. QED
        BY <2>1, <4>1 DEF KeptFor, InWindow
    <3>3. QED
      BY <3>1, <3>2
  <2>12. ASSUME NEW r \in AuthCalls
         PROVE  JudgedFor(r)'
    <3>1. CASE r = q
      <4>1. InItsWindow(q)' = recent
        <5>1. failed'[c][n + 1] = failTime
          BY <2>5, <2>6
        <5>2. InItsWindow(q)' = {i \in 1..n + 1 : failTime - failed'[c][i] < FailWindow}
          BY <2>1, <2>7, <5>1 DEF InItsWindow
        <5>3. QED
          BY <2>8, <2>10, <5>2
      <4>2. q \in detected' <=> Cardinality(recent) >= FailThreshold
        BY <2>2, <2>3
      <4>3. nth'[q] \in 1..Len(failed'[c]) /\ nth'[q] # 0
        BY <2>4, <2>5, <2>6, <2>7
      <4>4. QED
        BY <2>1, <2>3, <2>7, <3>1, <4>1, <4>2, <4>3 DEF JudgedFor
    <3>2. CASE r # q
      <4>1. /\ nth'[r] = nth[r] /\ authStep'[r] = authStep[r] /\ caller'[r] = caller[r]
            /\ r \in detected' <=> r \in detected
        BY <2>1, <2>7, <3>2
      <4>2. JudgedFor(r)
        BY <1>1
      <4>3. CASE nth[r] = 0
        BY <4>1, <4>2, <4>3 DEF JudgedFor
      <4>4. CASE nth[r] # 0
        <5>1. nth[r] \in 1..Len(failed[caller[r]]) /\ authStep[r] # "idle"
              /\ caller[r] \in Callers
          BY <4>2, <4>4 DEF JudgedFor
        <5>2. /\ Len(failed'[caller[r]]) >= Len(failed[caller[r]])
              /\ Len(failed[caller[r]]) \in Nat /\ Len(failed'[caller[r]]) \in Nat
              /\ \A i \in 1..nth[r] : failed'[caller[r]][i] = failed[caller[r]][i]
          <6>1. CASE caller[r] = c
            <7>1. failed[caller[r]] = failed[c] /\ Len(failed[caller[r]]) = n
              BY <6>1
            <7>2. failed'[caller[r]] = Append(failed[c], failTime)
              BY <2>6, <6>1
            <7>3. nth[r] \in 1..n
              BY <5>1, <7>1
            <7>4. \A i \in 1..nth[r] : i \in 1..n
              BY <2>4, <7>3
            <7>5. \A i \in 1..nth[r] : failed'[caller[r]][i] = failed[caller[r]][i]
              BY <2>5, <7>1, <7>2, <7>4
            <7>6. n + 1 >= n /\ n + 1 \in Nat
              BY <2>4
            <7>7. QED
              BY <2>4, <2>5, <7>1, <7>2, <7>5, <7>6
          <6>2. CASE caller[r] # c
            BY <1>1, <2>6, <5>1, <6>2 DEF FailuresTyped
          <6>3. QED
            BY <6>1, <6>2
        <5>3. nth[r] \in 1..nth[r] /\ nth[r] \in 1..Len(failed'[caller[r]])
          BY <5>1, <5>2
        <5>4. InItsWindow(r)' = InItsWindow(r)
          BY <4>1, <5>2, <5>3 DEF InItsWindow
        <5>5. QED
          BY <4>1, <4>2, <5>1, <5>3, <5>4 DEF JudgedFor
      <4>5. QED
        BY <4>3, <4>4
    <3>3. QED
      BY <3>1, <3>2
  <2>13. QED
    BY <2>9, <2>11, <2>12 DEF DetectionInv
<1>7. ASSUME NEW q \in AuthCalls, NEW c \in Callers, CallNext(q, c)
      PROVE  DetectionInv'
  <2>1. /\ authStep[q] = "idle" /\ caller' = [caller EXCEPT ![q] = c]
        /\ authStep' = [authStep EXCEPT ![q] = "handler"]
        /\ UNCHANGED <<failTime, failures, failed, nth, detected>>
    BY <1>7 DEF CallNext, AuthGoesTo
  <2>2. JudgedFor(q)
    BY <1>1
  <2>3. FailuresTyped'
    BY <1>1, <2>1 DEF FailuresTyped
  <2>4. nth'[q] = 0 /\ q \notin detected' /\ caller'[q] \in Callers
    BY <1>1, <2>1, <2>2 DEF FailuresTyped, JudgedFor
  <2>5. \A r \in AuthCalls \ {q} :
            /\ authStep'[r] = authStep[r] /\ caller'[r] = caller[r]
            /\ nth'[r] = nth[r] /\ (r \in detected' <=> r \in detected)
    BY <1>1, <2>1 DEF FailuresTyped
  <2>6. QED
    BY <1>4, <2>1, <2>3, <2>4, <2>5
<1>8. ASSUME NEW q \in AuthCalls,
             HandlerSucceeds(q) \/ HandlerRefuses(q) \/ Report(q) \/ Pad(q)
      PROVE  DetectionInv'
  <2>1. /\ authStep[q] \in {"handler", "report", "pad"}
        /\ UNCHANGED <<failTime, failures, failed, nth, detected, caller>>
    BY <1>8 DEF HandlerSucceeds, HandlerRefuses, Report, Pad
  <2>2. PICK next \in {"track", "pad", "answered"} :
            /\ authStep' = [authStep EXCEPT ![q] = next]
            /\ next = "track" => authStep[q] = "handler"
    <3>1. CASE HandlerSucceeds(q)
      BY <3>1 DEF HandlerSucceeds, AuthGoesTo
    <3>2. CASE HandlerRefuses(q)
      BY <3>2 DEF HandlerRefuses, AuthGoesTo
    <3>3. CASE Report(q)
      BY <3>3 DEF Report, AuthGoesTo
    <3>4. CASE Pad(q)
      BY <3>4 DEF Pad, AuthGoesTo
    <3>5. QED
      BY <1>8, <3>1, <3>2, <3>3, <3>4
  <2>3. JudgedFor(q)
    BY <1>1
  <2>4. FailuresTyped'
    BY <1>1, <2>1, <2>2 DEF FailuresTyped
  <2>5. /\ authStep[q] # "idle" /\ authStep'[q] = next
        /\ next \in {"idle", "handler", "track"} => nth[q] = 0
    BY <1>1, <2>1, <2>2, <2>3 DEF FailuresTyped, JudgedFor
  <2>6. \A r \in AuthCalls \ {q} : authStep'[r] = authStep[r]
    BY <1>1, <2>2 DEF FailuresTyped
  <2>7. QED
    BY <1>4, <2>1, <2>4, <2>5, <2>6
<1>9. ASSUME NEW q \in AuthCalls, AuthDone(q)
      PROVE  DetectionInv'
  <2>1. /\ caller' = [caller EXCEPT ![q] = NoCaller]
        /\ authStep' = [authStep EXCEPT ![q] = "idle"]
        /\ nth' = [nth EXCEPT ![q] = 0]
        /\ detected' = detected \ {q}
        /\ UNCHANGED <<failTime, failures, failed>>
    BY <1>9 DEF AuthDone, AuthGoesTo
  <2>2. FailuresTyped'
    BY <1>1, <2>1 DEF FailuresTyped
  <2>3. nth'[q] = 0 /\ q \notin detected' /\ authStep'[q] = "idle"
    BY <1>1, <2>1 DEF FailuresTyped
  <2>4. \A r \in AuthCalls \ {q} :
            /\ authStep'[r] = authStep[r] /\ caller'[r] = caller[r]
            /\ nth'[r] = nth[r] /\ (r \in detected' <=> r \in detected)
    BY <1>1, <2>1 DEF FailuresTyped
  <2>5. QED
    BY <1>4, <2>1, <2>2, <2>3, <2>4
<1>10. CASE UNCHANGED enumerationVars
  <2>1. UNCHANGED <<failTime, failures, failed, nth, detected, caller, authStep>>
    BY <1>10 DEF enumerationVars
  <2>2. \A q \in AuthCalls : InItsWindow(q)' = InItsWindow(q)
    BY <2>1 DEF InItsWindow
  <2>3. \A q \in AuthCalls : JudgedFor(q)'
    BY <1>1, <2>1, <2>2 DEF JudgedFor
  <2>4. QED
    BY <1>1, <1>3, <2>1, <2>3 DEF DetectionInv, FailuresTyped
<1>11. QED
  BY <1>5, <1>6, <1>7, <1>8, <1>9, <1>10 DEF EnumerationNext

\* A failed login is reported exactly if it reaches the threshold within the
\* window that ends with it, whatever other requests fail and are pruned.
THEOREM DetectionAlwaysExact == EnumerationSpec => []DetectionExact
<1>1. DetectionInv => DetectionExact
  <2> SUFFICES ASSUME DetectionInv, NEW q \in AuthCalls, nth[q] > 0
               PROVE  q \in detected <=> Cardinality(InItsWindow(q)) >= FailThreshold
    BY DEF DetectionExact, InItsWindow
  <2>1. JudgedFor(q) /\ nth[q] # 0
    BY DEF DetectionInv, FailuresTyped
  <2>2. QED
    BY <2>1 DEF JudgedFor
<1>2. QED
  BY DetectionInvInit, DetectionInvStep, <1>1, PTL DEF EnumerationSpec

-----------------------------------------------------------------------------
(* Failed logins *)

\* The lockout and the detector each count every failed login.
THEOREM FailuresAlwaysCounted == BruteSpec /\ EnumerationSpec => []FailuresCounted
BY LockoutAlwaysHolds, DetectionAlwaysExact, PTL DEF FailuresCounted

-----------------------------------------------------------------------------
(* Access by IP address *)

\* Behind trusted proxies that the socket reports as what they are, the first
\* entry of the header is the client, unless it has written one itself.
LEMMA ClientFound ==
    ASSUME NEW client \in Clients, NEW hops \in Routes,
           ~mapped,
           {hops[i] : i \in DOMAIN hops} \subseteq TrustedProxies
    PROVE  ClientIp(<<>>, client, hops) = client
<1>1. CASE hops = <<>>
  BY <1>1 DEF ClientIp, Forwarded, Peer
<1>2. CASE hops # <<>>
  <2>1. PICK n \in 0..MaxHops : hops \in [1..n -> Proxies]
    BY DEF Routes
  <2>2. /\ n \in Nat /\ hops \in Seq(Proxies) /\ Len(hops) = n /\ n # 0
    BY <1>2, <2>1, IpAssumption
  <2>3. SubSeq(hops, 1, Len(hops) - 1) \in Seq(Proxies)
    BY <2>2
  <2>4. /\ Forwarded(<<>>, client, hops) # <<>>
        /\ Forwarded(<<>>, client, hops)[1] = client
    BY <1>2, <2>3 DEF Forwarded
  <2>5. IsTrusted(Peer(client, hops))
    BY <1>2, <2>2 DEF IsTrusted, Peer
  <2>6. QED
    BY <2>4, <2>5 DEF ClientIp
<1>3. QED
  BY <1>1, <1>2

\* One that comes from elsewhere is its peer, whatever the header says.
LEMMA PeerFound ==
    ASSUME NEW claimed, NEW client, NEW hops,
           Peer(client, hops) \notin TrustedProxies
    PROVE  ClientIp(claimed, client, hops) = Peer(client, hops)
BY DEF ClientIp, IsTrusted

LEMMA ClientIpType ==
    ASSUME NEW claimed \in Claims, NEW client \in Clients, NEW hops \in Routes
    PROVE  ClientIp(claimed, client, hops) \in Hosts
<1>1. PICK n \in 0..MaxHops : hops \in [1..n -> Proxies]
  BY DEF Routes
<1>2. /\ n \in Nat /\ hops \in Seq(Proxies) /\ Len(hops) = n
  BY <1>1, IpAssumption
<1>3. Peer(client, hops) \in Hosts
  BY <1>2 DEF Peer, Hosts
<1>4. claimed \in Seq(Hosts)
  <2>1. CASE claimed = <<>>
    BY <2>1
  <2>2. ASSUME NEW host \in Clients, claimed = <<host>> PROVE claimed \in Seq(Hosts)
    <3>1. host \in Hosts
      BY DEF Hosts
    <3>2. QED
      BY <2>2, <3>1
  <2>3. QED
    BY <2>1, <2>2 DEF Claims
<1>5. (IF hops = <<>> THEN <<>>
       ELSE <<client>> \o SubSeq(hops, 1, Len(hops) - 1)) \in Seq(Hosts)
  <2>1. CASE hops # <<>>
    <3>1. SubSeq(hops, 1, Len(hops) - 1) \in Seq(Hosts)
      <4>1. hops \in Seq(Hosts)
        BY <1>2 DEF Hosts
      <4>2. QED
        BY <1>2, <2>1, <4>1
    <3>2. <<client>> \in Seq(Hosts)
      BY DEF Hosts
    <3>3. QED
      BY <2>1, <3>1, <3>2
  <2>2. QED
    BY <2>1
<1>6. Forwarded(claimed, client, hops) \in Seq(Hosts)
  BY <1>4, <1>5 DEF Forwarded
<1>7. Forwarded(claimed, client, hops) # <<>> =>
          Forwarded(claimed, client, hops)[1] \in Hosts
  BY <1>6
<1>8. QED
  BY <1>3, <1>7 DEF ClientIp

\* What an undecided request has seen of the lists includes what they say now,
\* and the second lookup comes after a blocklist that did not match.
UndecidedInv ==
    \A v \in Visits :
        /\ visitStep[v] \in {"first", "second"} =>
               /\ IsAllowed(v) \in onAllow[v]
               /\ IsBlocked(v) \in onBlock[v]
        /\ visitStep[v] = "second" => mode = "hybrid" /\ FALSE \in onBlock[v]

\* The address of a request is the one get_client_ip() has found for it.
FoundFor(v) ==
    address[v] # NoAddress =>
        /\ origin[v] \in Clients
        /\ address[v] = ClientIp(claim[v], origin[v], route[v])
AddressInv == \A v \in Visits : FoundFor(v)

\* What was seen of the lists accounts for a decision.
ListsInv == \A v \in Visits : JudgedByLists(v)

\* The inductive invariant.
IpInv == IpTypeOK /\ UndecidedInv /\ AddressInv /\ ListsInv

LEMMA IpInvInit == IpInit => IpInv
<1> SUFFICES ASSUME IpInit PROVE IpInv
  OBVIOUS
<1>1. <<>> \in Routes
  BY IpAssumption DEF Routes
<1>2. IpTypeOK
  BY <1>1 DEF IpInit, IpTypeOK, Claims, Decided
<1>3. QED
  BY <1>2 DEF IpInit, IpInv, UndecidedInv, AddressInv, FoundFor, ListsInv,
              JudgedByLists

LEMMA IpInvStep == IpInv /\ [IpNext]_ipVars => IpInv'
<1> SUFFICES ASSUME IpInv, [IpNext]_ipVars PROVE IpInv'
  OBVIOUS
<1> USE DEF IpInv
<1>1. ASSUME NEW v \in Visits, VisitArrives(v) PROVE IpInv'
  <2>1. PICK client \in Clients, hops \in Routes, claimed \in Claims :
            /\ visitStep[v] = "idle"
            /\ VisitGoesTo(v, "first")
            /\ origin' = [origin EXCEPT ![v] = client]
            /\ route' = [route EXCEPT ![v] = hops]
            /\ claim' = [claim EXCEPT ![v] = claimed]
            /\ address' = [address EXCEPT ![v] = ClientIp(claimed, client, hops)]
            /\ onAllow' = [onAllow EXCEPT ![v] =
                              {Matches(ClientIp(claimed, client, hops), allowlist)}]
            /\ onBlock' = [onBlock EXCEPT ![v] =
                              {Matches(ClientIp(claimed, client, hops), blocklist)}]
            /\ UNCHANGED <<mode, shared, mapped, allowlist, blocklist>>
    BY <1>1 DEF VisitArrives, ipConfig, ipLists
  <2>2. ClientIp(claimed, client, hops) \in Hosts
    BY ClientIpType
  <2>3. IpTypeOK'
    BY <2>1, <2>2 DEF IpTypeOK, VisitGoesTo, Decided, Matches
  <2>4. UndecidedInv'
    BY <2>1 DEF IpTypeOK, UndecidedInv, VisitGoesTo, IsAllowed, IsBlocked, Matches
  <2>5. AddressInv'
    <3> SUFFICES ASSUME NEW w \in Visits PROVE FoundFor(w)'
      BY DEF AddressInv
    <3>1. CASE w = v
      BY <2>1, <3>1 DEF IpTypeOK, FoundFor, ClientIp, IsTrusted
    <3>2. CASE w # v
      <4>1. /\ address'[w] = address[w] /\ origin'[w] = origin[w]
            /\ route'[w] = route[w] /\ claim'[w] = claim[w] /\ mapped' = mapped
        BY <2>1, <3>2 DEF IpTypeOK
      <4>2. QED
        BY <4>1 DEF AddressInv, FoundFor, ClientIp, IsTrusted
    <3>3. QED
      BY <3>1, <3>2
  <2>6. ListsInv'
    BY <2>1 DEF IpTypeOK, VisitGoesTo, ListsInv, JudgedByLists
  <2>7. QED
    BY <2>3, <2>4, <2>5, <2>6
<1>2. ASSUME NEW v \in Visits, FirstLookup(v) \/ SecondLookup(v) PROVE IpInv'
  <2>1. /\ UNCHANGED <<mode, shared, mapped, allowlist, blocklist, origin, route,
                       claim, address, onAllow, onBlock>>
        /\ \E next \in {"second", "forwarded", "denied"} : VisitGoesTo(v, next)
    BY <1>2 DEF FirstLookup, SecondLookup, ipConfig, ipLists, Decide, IpTypeOK
  <2>2. IpTypeOK'
    BY <2>1 DEF IpTypeOK, VisitGoesTo, Decided
  <2>3. UndecidedInv'
    <3>1. \A w \in Visits : w # v => visitStep'[w] = visitStep[w]
      BY <2>1 DEF IpTypeOK, VisitGoesTo
    <3>2. \A w \in Visits : IsAllowed(w)' = IsAllowed(w)
      BY <2>1 DEF IsAllowed, Matches
    <3>3. \A w \in Visits : IsBlocked(w)' = IsBlocked(w)
      BY <2>1 DEF IsBlocked, Matches
    <3>4. visitStep'[v] = "second" =>
              mode = "hybrid" /\ IsBlocked(v) = FALSE /\ visitStep[v] = "first"
      <4>1. IsBlocked(v) \in BOOLEAN
        BY DEF IsBlocked, Matches
      <4>2. QED
        BY <1>2, <4>1 DEF FirstLookup, SecondLookup, Decide, VisitGoesTo, IpTypeOK
    <3>5. visitStep'[v] # "first" /\ visitStep[v] \in {"first", "second"}
      BY <1>2, <2>1 DEF FirstLookup, SecondLookup, VisitGoesTo, IpTypeOK
    <3>6. QED
      BY <2>1, <3>1, <3>4, <3>5, <3>2, <3>3 DEF UndecidedInv
  <2>4. AddressInv'
    BY <2>1 DEF AddressInv, FoundFor, ClientIp, IsTrusted
  <2>5. ListsInv'
    <3> SUFFICES ASSUME NEW w \in Visits PROVE JudgedByLists(w)'
      BY DEF ListsInv
    <3>1. CASE w = v
      <4>1. visitStep[v] \in {"first", "second"}
        BY <1>2 DEF FirstLookup, SecondLookup
      <4>2. /\ visitStep'[v] = "forwarded" =>
                    /\ mode # "block" => IsAllowed(v)
                    /\ mode = "block" => ~IsBlocked(v)
                    /\ mode = "hybrid" =>
                           ~IsBlocked(v) \/ visitStep[v] = "second"
            /\ visitStep'[v] = "denied" =>
                    \/ mode # "block" /\ ~IsAllowed(v)
                    \/ mode # "allow" /\ IsBlocked(v)
        BY <1>2 DEF IpTypeOK, UndecidedInv, FirstLookup, SecondLookup, Decide,
                    VisitGoesTo
      <4>3. QED
        BY <2>1, <3>1, <4>1, <4>2
        DEF IpTypeOK, UndecidedInv, JudgedByLists, IsAllowed, IsBlocked, Matches
    <3>2. CASE w # v
      BY <2>1, <3>2 DEF IpTypeOK, VisitGoesTo, ListsInv, JudgedByLists
    <3>3. QED
      BY <3>1, <3>2
  <2>6. QED
    BY <2>2, <2>3, <2>4, <2>5
<1>3. ASSUME NEW v \in Visits, VisitEnds(v) PROVE IpInv'
  <2>1. <<>> \in Routes
    BY IpAssumption DEF Routes
  <2>2. IpTypeOK'
    BY <1>3, <2>1 DEF VisitEnds, IpTypeOK, VisitGoesTo, Decided, Claims, ipConfig,
                      ipLists
  <2>3. UndecidedInv'
    BY <1>3 DEF VisitEnds, IpTypeOK, UndecidedInv, VisitGoesTo, IsAllowed, IsBlocked,
                Matches, ipConfig, ipLists
  <2>4. AddressInv'
    BY <1>3 DEF VisitEnds, IpTypeOK, AddressInv, FoundFor, ClientIp,
                IsTrusted, ipConfig
  <2>5. ListsInv'
    BY <1>3 DEF VisitEnds, IpTypeOK, VisitGoesTo, ListsInv, JudgedByLists, ipConfig
  <2>6. QED
    BY <2>2, <2>3, <2>4, <2>5
<1>4. ASSUME ChangesAllowlist \/ ChangesBlocklist PROVE IpInv'
  <2>1. /\ UNCHANGED <<mode, shared, mapped, visitStep, origin, route, claim,
                       address>>
        /\ \/ onAllow' = [v \in Visits |-> Seen(v, onAllow[v], allowlist')]
           \/ UNCHANGED <<allowlist, onAllow>>
        /\ \/ onBlock' = [v \in Visits |-> Seen(v, onBlock[v], blocklist')]
           \/ UNCHANGED <<blocklist, onBlock>>
    BY <1>4 DEF ChangesAllowlist, ChangesBlocklist, ipConfig
  <2>2. allowlist' \cup blocklist' \subseteq Entries
    BY <1>4 DEF ChangesAllowlist, ChangesBlocklist, IpTypeOK
  <2>3. {onAllow', onBlock'} \subseteq [Visits -> SUBSET BOOLEAN]
    <3>1. \A host, list : Matches(host, list) \in BOOLEAN
      BY DEF Matches
    <3>2. \A list : \A w \in Visits, seen \in SUBSET BOOLEAN :
              Seen(w, seen, list) \in SUBSET BOOLEAN
      BY <3>1 DEF Seen
    <3>3. {onAllow, onBlock} \subseteq [Visits -> SUBSET BOOLEAN]
      BY DEF IpTypeOK
    <3>4. QED
      BY <2>1, <3>2, <3>3
  <2>4. IpTypeOK'
    BY <2>1, <2>2, <2>3 DEF IpTypeOK
  <2>5. UndecidedInv'
    BY <2>1 DEF UndecidedInv, IsAllowed, IsBlocked, Seen
  <2>6. AddressInv'
    BY <2>1 DEF AddressInv, FoundFor, ClientIp, IsTrusted
  <2>7. ListsInv'
    BY <2>1 DEF ListsInv, JudgedByLists, Seen
  <2>8. QED
    BY <2>4, <2>5, <2>6, <2>7
<1>5. CASE UNCHANGED ipVars
  BY <1>5 DEF ipVars, ipConfig, ipLists, IpTypeOK, UndecidedInv, AddressInv, ListsInv,
              FoundFor, JudgedByLists, IsAllowed, IsBlocked, Matches, ClientIp,
              IsTrusted
<1>6. QED
  BY <1>1, <1>2, <1>3, <1>4, <1>5 DEF IpNext

LEMMA IpInvJudges == IpInv => IpJudged
<1> SUFFICES ASSUME IpInv, NEW v \in Visits
             PROVE  JudgedByClient(v) /\ JudgedByLists(v)
  BY DEF IpJudged
<1>1. ASSUME address[v] # NoAddress, PassedTrusted(v), claim[v] = <<>>
      PROVE  address[v] = origin[v]
  BY <1>1, ClientFound DEF IpInv, IpTypeOK, AddressInv, FoundFor, PassedTrusted
<1>2. ASSUME address[v] # NoAddress, Peer(origin[v], route[v]) \notin TrustedProxies
      PROVE  address[v] = Peer(origin[v], route[v])
  BY <1>2, PeerFound DEF IpInv, AddressInv, FoundFor
<1>3. QED
  BY <1>1, <1>2 DEF IpInv, ListsInv, JudgedByClient

\* A request is judged by the address of its client, if it comes through trusted
\* proxies and the client has written no header of its own, by that of its peer
\* if that is no trusted proxy, and by what the lists have said while it was
\* judged (IPAccessMiddleware.dispatch(), get_client_ip()).
THEOREM IpAlwaysJudged == IpSpec => []IpJudged
BY IpInvInit, IpInvStep, IpInvJudges, PTL DEF IpSpec

-----------------------------------------------------------------------------
(* The double-submit cookie *)

\* A token in use has been issued, and carries the expiry it was issued with.
Genuine(t) ==
    t = NoToken \/ /\ t.raw \in DOMAIN issued
                   /\ t.expiry = issued[t.raw] + TokenExpiry
AllGenuine ==
    /\ Genuine(jar)
    /\ \A p \in Pages :
           /\ Genuine(token[p]) /\ Genuine(fresh[p])
           /\ Genuine(sent[p].header) /\ Genuine(sent[p].cookie)

\* Without a response in between, the page and the jar hold the same token.
AgreementInv ==
    \A p \in Pages :
        /\ p \notin stale => token[p] = jar
        /\ p \notin overtaken => sent[p].header = sent[p].cookie

\* A request is judged once it is in the middleware.
UnjudgedInv ==
    \A p \in Pages : pageStep[p] \in {"idle", "middleware"} => ruling[p] = "none"

\* What a ruling says of its request.
Justified(p) ==
    LET own == sent[p] IN
    /\ ruling[p] = "passed" =>
           /\ own.header = own.cookie /\ own.cookie # NoToken
           /\ judgedAt[p] - issued[own.cookie.raw] < TokenExpiry
    /\ ruling[p] \in {"missing", "mismatch"} =>
           \/ own.header = NoToken \/ p \in overtaken
           \/ /\ own.cookie # NoToken
              /\ judgedAt[p] - issued[own.cookie.raw] >= TokenExpiry
RulingsInv == \A p \in Pages : Justified(p)

\* The inductive invariant.
CsrfInv == CsrfTypeOK /\ AllGenuine /\ AgreementInv /\ UnjudgedInv /\ RulingsInv

\* No token is ever taken back.
IssuedGrows ==
    \A i \in DOMAIN issued : i \in DOMAIN issued' /\ issued'[i] = issued[i]

LEMMA GenuineStays == IssuedGrows => \A t : Genuine(t) => Genuine(t)'
BY DEF IssuedGrows, Genuine

LEMMA GenerateIssues ==
    ASSUME CsrfTypeOK, NEW p \in Pages, Generate(p)
    PROVE  /\ issued' \in Seq(0..MaxCsrfTime) /\ Len(issued') <= MaxTokens
           /\ IssuedGrows
           /\ fresh' \in [Pages -> TokensOrNone]
           /\ \A q \in Pages : q # p => fresh'[q] = fresh[q]
           /\ fresh'[p].raw \in DOMAIN issued'
           /\ fresh'[p].expiry = issued'[fresh'[p].raw] + TokenExpiry
<1>1. /\ issued \in Seq(0..MaxCsrfTime) /\ csrfTime \in 0..MaxCsrfTime
      /\ Len(issued) < MaxTokens /\ issued' = Append(issued, csrfTime)
      /\ TokenExpiry \in Nat /\ MaxCsrfTime \in Nat /\ MaxTokens \in Nat
  BY CsrfAssumption DEF CsrfTypeOK, Generate
<1>2. /\ issued' \in Seq(0..MaxCsrfTime) /\ Len(issued') = Len(issued) + 1
      /\ Len(issued') \in DOMAIN issued' /\ issued'[Len(issued')] = csrfTime
      /\ IssuedGrows
  BY <1>1 DEF IssuedGrows
<1> DEFINE new == [raw |-> Len(issued'), expiry |-> csrfTime + TokenExpiry]
<1>3. new \in Tokens
  <2>1. /\ Len(issued') \in 1..MaxTokens
        /\ csrfTime + TokenExpiry \in TokenExpiry..(MaxCsrfTime + TokenExpiry)
    BY <1>1, <1>2
  <2>2. QED
    BY <2>1 DEF Tokens
<1>4. fresh' = [fresh EXCEPT ![p] = new] /\ fresh \in [Pages -> TokensOrNone]
  BY DEF Generate, CsrfTypeOK
<1>5. /\ fresh' \in [Pages -> TokensOrNone] /\ fresh'[p] = new
      /\ \A q \in Pages : q # p => fresh'[q] = fresh[q]
  BY <1>3, <1>4 DEF TokensOrNone
<1>6. QED
  BY <1>1, <1>2, <1>5

LEMMA CsrfInvInit == CsrfInit => CsrfInv
BY CsrfAssumption
   DEF CsrfInit, CsrfInv, CsrfTypeOK, TokensOrNone, AllGenuine, Genuine, AgreementInv,
       UnjudgedInv, RulingsInv, Justified

\* A check of genuine tokens is justified.
LEMMA ChecksJustified ==
    ASSUME CsrfInv, NEW p \in Pages, Says(p, CheckTokens(sent[p])),
           UNCHANGED <<sent, overtaken>>, IssuedGrows
    PROVE  /\ ruling' \in [Pages -> {"none", "passed", "missing", "mismatch"}]
           /\ judgedAt' \in [Pages -> 0..MaxCsrfTime]
           /\ \A q \in Pages : q # p => ruling'[q] = ruling[q]
           /\ RulingsInv'
<1>1. /\ ruling'[p] = CheckTokens(sent[p]) /\ judgedAt'[p] = csrfTime
      /\ CheckTokens(sent[p]) \in {"passed", "missing", "mismatch"}
      /\ \A q \in Pages : q # p => ruling'[q] = ruling[q] /\ judgedAt'[q] = judgedAt[q]
      /\ ruling' \in [Pages -> {"none", "passed", "missing", "mismatch"}]
      /\ judgedAt' \in [Pages -> 0..MaxCsrfTime]
  BY DEF CsrfInv, CsrfTypeOK, Says, CheckTokens
<1>2. Justified(p)'
  <2> DEFINE header == sent[p].header
             cookie == sent[p].cookie
  <2>1. /\ header \in TokensOrNone /\ Genuine(header)
        /\ cookie \in TokensOrNone /\ Genuine(cookie)
        /\ p \notin overtaken => header = cookie
        /\ csrfTime \in Nat /\ TokenExpiry \in Nat /\ MaxCsrfTime \in Nat
        /\ issued \in Seq(0..MaxCsrfTime)
    BY CsrfAssumption DEF CsrfInv, CsrfTypeOK, AllGenuine, AgreementInv
  <2>2. ASSUME cookie # NoToken
        PROVE  /\ cookie.expiry = issued[cookie.raw] + TokenExpiry
               /\ issued'[cookie.raw] = issued[cookie.raw]
               /\ issued[cookie.raw] \in Nat
    BY <2>1, <2>2 DEF Genuine, IssuedGrows
  <2>3. ASSUME header.raw = cookie.raw, header # NoToken, cookie # NoToken
        PROVE  header = cookie
    <3>1. header \in Tokens /\ cookie \in Tokens
      BY <2>1, <2>3 DEF TokensOrNone
    <3>2. header.expiry = cookie.expiry
      BY <2>1, <2>3 DEF Genuine
    <3> HIDE DEF header, cookie
    <3>3. QED
      BY <2>3, <3>1, <3>2 DEF Tokens
  <2>4. CASE ruling'[p] = "passed"
    <3>1. header # NoToken /\ cookie # NoToken /\ ValidateToken(sent[p])
      BY <1>1, <2>4 DEF CheckTokens
    <3>2. header = cookie /\ csrfTime < cookie.expiry
      BY <2>3, <3>1 DEF ValidateToken
    <3>3. csrfTime - issued'[cookie.raw] < TokenExpiry
      <4> HIDE DEF header, cookie
      <4> QED
        BY <2>1, <2>2, <3>1, <3>2
    <3>4. QED
      BY <1>1, <2>4, <3>1, <3>2, <3>3 DEF Justified
  <2>5. CASE ruling'[p] # "passed" /\ p \notin overtaken /\ header # NoToken
    <3>1. header = cookie /\ ~ValidateToken(sent[p])
      BY <1>1, <2>1, <2>5 DEF CheckTokens
    <3>2. csrfTime >= cookie.expiry
      BY <2>1, <2>2, <2>5, <3>1 DEF ValidateToken
    <3>3. /\ cookie # NoToken
          /\ csrfTime - issued'[cookie.raw] >= TokenExpiry
      <4> HIDE DEF header, cookie
      <4> QED
        BY <2>1, <2>2, <2>5, <3>1, <3>2
    <3>4. QED
      BY <1>1, <2>5, <3>3 DEF Justified
  <2>6. CASE ruling'[p] # "passed" /\ (p \in overtaken \/ header = NoToken)
    BY <2>6 DEF Justified
  <2>7. QED
    BY <2>4, <2>5, <2>6
<1>3. ASSUME NEW q \in Pages, q # p PROVE Justified(q)'
  BY <1>1, <1>3 DEF CsrfInv, RulingsInv, Justified, AllGenuine, Genuine, IssuedGrows
<1>4. QED
  BY <1>1, <1>2, <1>3 DEF RulingsInv

LEMMA CsrfInvStep == CsrfInv /\ [CsrfNext]_csrfVars => CsrfInv'
<1> SUFFICES ASSUME CsrfInv, [CsrfNext]_csrfVars PROVE CsrfInv'
  OBVIOUS
<1> USE DEF CsrfInv
<1>1. ASSUME NEW p \in Pages, ReadCookie(p) PROVE CsrfInv'
  BY <1>1 DEF ReadCookie, CsrfTypeOK, AllGenuine, Genuine, AgreementInv, UnjudgedInv,
              RulingsInv, Justified
<1>2. ASSUME NEW p \in Pages, SendUnsafe(p) PROVE CsrfInv'
  <2>1. CsrfTypeOK'
    BY <1>2 DEF SendUnsafe, PageGoesTo, CsrfTypeOK
  <2>2. AllGenuine' /\ AgreementInv' /\ UnjudgedInv'
    BY <1>2 DEF SendUnsafe, PageGoesTo, CsrfTypeOK, AllGenuine, Genuine, AgreementInv,
                UnjudgedInv
  <2>3. RulingsInv'
    BY <1>2 DEF SendUnsafe, CsrfTypeOK, UnjudgedInv, RulingsInv, Justified
  <2>4. QED
    BY <2>1, <2>2, <2>3
<1>3. ASSUME NEW p \in Pages, SetCsrfCookie(p) PROVE CsrfInv'
  <2>1. /\ IssuedGrows
        /\ issued' \in Seq(0..MaxCsrfTime) /\ Len(issued') <= MaxTokens
        /\ fresh' \in [Pages -> TokensOrNone]
        /\ \A q \in Pages : q # p => fresh'[q] = fresh[q]
        /\ Genuine(fresh[p])'
    BY <1>3, GenerateIssues DEF SetCsrfCookie, Genuine
  <2>2. CsrfTypeOK' /\ AgreementInv' /\ UnjudgedInv'
    BY <1>3, <2>1 DEF SetCsrfCookie, PageGoesTo, CsrfTypeOK, AgreementInv, UnjudgedInv
  <2>3. AllGenuine'
    BY <1>3, <2>1, GenuineStays DEF SetCsrfCookie, AllGenuine, Genuine, IssuedGrows
  <2>4. RulingsInv'
    BY <1>3, <2>1 DEF SetCsrfCookie, RulingsInv, Justified, AllGenuine, Genuine,
                      IssuedGrows
  <2>5. QED
    BY <2>2, <2>3, <2>4
<1>4. ASSUME NEW p \in Pages, Dispatch(p) PROVE CsrfInv'
  <2>1. /\ Says(p, CheckTokens(sent[p]))
        /\ \E step \in {"route", "answered"} : PageGoesTo(p, step)
        /\ UNCHANGED <<autoRefresh, csrfTime, issued, jar, token, sent, fresh, stale,
                       overtaken>>
    BY <1>4 DEF Dispatch
  <2>2. IssuedGrows
    BY <2>1 DEF IssuedGrows
  <2>3. /\ RulingsInv'
        /\ ruling' \in [Pages -> {"none", "passed", "missing", "mismatch"}]
        /\ judgedAt' \in [Pages -> 0..MaxCsrfTime]
        /\ \A q \in Pages : q # p => ruling'[q] = ruling[q]
    BY <2>1, <2>2, ChecksJustified
  <2>4. PICK step \in {"route", "answered"} : PageGoesTo(p, step)
    BY <2>1
  <2>5. /\ pageStep' \in [Pages -> {"idle", "middleware", "route", "answered"}]
        /\ pageStep'[p] = step
        /\ \A q \in Pages : q # p => pageStep'[q] = pageStep[q]
    BY <2>4 DEF PageGoesTo, CsrfTypeOK
  <2>6. CsrfTypeOK'
    BY <2>1, <2>3, <2>5 DEF CsrfTypeOK
  <2>7. UnjudgedInv'
    BY <2>3, <2>5 DEF UnjudgedInv
  <2>8. AllGenuine' /\ AgreementInv'
    BY <2>1 DEF AllGenuine, Genuine, AgreementInv
  <2>9. QED
    BY <2>3, <2>6, <2>7, <2>8
<1>5. ASSUME NEW p \in Pages, RouteAnswers(p) PROVE CsrfInv'
  <2>1. /\ Says(p, CheckTokens(sent[p])) \/ UNCHANGED <<ruling, judgedAt>>
        /\ Generate(p) \/ UNCHANGED <<issued, fresh>>
        /\ PageGoesTo(p, "answered") /\ pageStep[p] = "route"
        /\ UNCHANGED <<autoRefresh, csrfTime, jar, token, sent, stale, overtaken>>
    BY <1>5 DEF RouteAnswers
  <2>2. /\ IssuedGrows
        /\ issued' \in Seq(0..MaxCsrfTime) /\ Len(issued') <= MaxTokens
        /\ fresh' \in [Pages -> TokensOrNone]
        /\ \A q \in Pages : q # p => fresh'[q] = fresh[q]
        /\ Genuine(fresh[p])'
    <3>1. CASE Generate(p)
      BY <3>1, GenerateIssues DEF Genuine
    <3>2. CASE UNCHANGED <<issued, fresh>>
      BY <3>2 DEF IssuedGrows, CsrfTypeOK, AllGenuine, Genuine
    <3>3. QED
      BY <2>1, <3>1, <3>2
  <2>3. /\ RulingsInv'
        /\ ruling' \in [Pages -> {"none", "passed", "missing", "mismatch"}]
        /\ judgedAt' \in [Pages -> 0..MaxCsrfTime]
        /\ \A q \in Pages : q # p => ruling'[q] = ruling[q]
    <3>1. CASE Says(p, CheckTokens(sent[p]))
      BY <2>1, <2>2, <3>1, ChecksJustified
    <3>2. CASE UNCHANGED <<ruling, judgedAt>>
      BY <2>1, <2>2, <3>2 DEF CsrfTypeOK, RulingsInv, Justified, AllGenuine, Genuine,
                              IssuedGrows
    <3>3. QED
      BY <2>1, <3>1, <3>2
  <2>4. CsrfTypeOK' /\ UnjudgedInv'
    BY <2>1, <2>2, <2>3 DEF PageGoesTo, CsrfTypeOK, UnjudgedInv
  <2>5. AllGenuine' /\ AgreementInv'
    BY <2>1, <2>2, GenuineStays DEF AllGenuine, Genuine, IssuedGrows, AgreementInv
  <2>6. QED
    BY <2>3, <2>4, <2>5
<1>6. ASSUME NEW p \in Pages, ReceiveResponse(p) PROVE CsrfInv'
  <2>1. CsrfTypeOK'
    BY <1>6 DEF ReceiveResponse, PageGoesTo, CsrfTypeOK, TokensOrNone
  <2>2. AllGenuine'
    BY <1>6 DEF ReceiveResponse, CsrfTypeOK, AllGenuine, Genuine
  <2>3. AgreementInv' /\ UnjudgedInv'
    BY <1>6 DEF ReceiveResponse, PageGoesTo, CsrfTypeOK, AgreementInv, UnjudgedInv
  <2>4. RulingsInv'
    BY <1>6 DEF ReceiveResponse, CsrfTypeOK, RulingsInv, Justified
  <2>5. QED
    BY <2>1, <2>2, <2>3, <2>4
<1>7. CASE CsrfTick
  <2>1. CsrfTypeOK'
    BY <1>7, CsrfAssumption DEF CsrfTick, CsrfTypeOK
  <2>2. QED
    BY <1>7, <2>1 DEF CsrfTick, AllGenuine, Genuine, AgreementInv, UnjudgedInv,
                      RulingsInv, Justified
<1>8. CASE UNCHANGED csrfVars
  BY <1>8 DEF csrfVars, CsrfTypeOK, AllGenuine, Genuine, AgreementInv, UnjudgedInv,
              RulingsInv, Justified
<1>9. QED
  BY <1>1, <1>2, <1>3, <1>4, <1>5, <1>6, <1>7, <1>8 DEF CsrfNext

\* The check of a request, which reads nothing but the request, is right about
\* the client (CSRFMiddleware.dispatch(), CSRFHandler.validate_token()).
THEOREM CsrfAlwaysHonoured == CsrfSpec => []CsrfHonoured
<1>1. CsrfInv => CsrfHonoured
  BY DEF CsrfInv, RulingsInv, Justified, CsrfHonoured
<1>2. QED
  BY <1>1, CsrfInvInit, CsrfInvStep, PTL DEF CsrfSpec

-----------------------------------------------------------------------------
(* OAuth2 logins *)

\* Logins are numbered in the order in which they begin.
LoginsInv ==
    /\ wall \in Nat
    /\ \E k \in Nat : DOMAIN begun = 1..k
    /\ DOMAIN begun \subseteq LoginIds
    /\ \A n \in DOMAIN begun : begun[n].at \in Nat
    /\ codes \subseteq DOMAIN begun

\* A state is in the store of the process that made it, with its expiry, and
\* in no other, until it is taken.
StatesInv ==
    /\ redeemed \in [LoginIds -> Nat]
    /\ DOMAIN states = ServerProcesses
    /\ \A n \in LoginIds \ DOMAIN begun : redeemed[n] = 0
    /\ \A w \in ServerProcesses : \A e \in states[w] :
           /\ e.state \in DOMAIN begun
           /\ e.expires = begun[e.state].at + StateTtl
           /\ redeemed[e.state] = 0
    /\ \A v, w \in ServerProcesses : \A d \in states[v], e \in states[w] :
           d.state = e.state => v = w /\ d = e

\* What a callback has in hand.
Carried ==
    [step : {"exchange", "userinfo"}, worker : ServerProcesses, provider : Providers,
     code : LoginIds, state : LoginIds]

\* The provider has accepted the code of a callback that asks for the user.
CallbacksInv ==
    /\ callback \in [Callbacks -> {IdleCallback} \cup Carried]
    /\ \A c \in Callbacks :
           callback[c].step = "exchange" =>
               callback[c].code \in codes /\ callback[c].state \in DOMAIN begun
    /\ \A c \in Callbacks :
           callback[c].step = "userinfo" =>
               /\ callback[c].code = callback[c].state
               /\ callback[c].state \in DOMAIN begun
               /\ callback[c].provider = begun[callback[c].state].provider

CompletedInv ==
    \A done \in completed :
        /\ done.code = done.state
        /\ done.state \in DOMAIN begun
        /\ done.provider = begun[done.state].provider

\* The inductive invariant.
OAuthInv ==
    /\ LoginsInv
    /\ StatesInv
    /\ CallbacksInv
    /\ CompletedInv

\* What StateTakenOnce says of a step.
TakenOnce ==
    /\ \A n \in DOMAIN begun :
           redeemed'[n] > redeemed[n] =>
               redeemed[n] = 0 /\ wall - begun[n].at <= StateTtl
    /\ \A done \in completed' :
           done.code = done.state /\ done.provider = begun[done.state].provider

-----------------------------------------------------------------------------

LEMMA OAuthInvInit == OAuthInit => OAuthInv
<1> SUFFICES ASSUME OAuthInit PROVE OAuthInv
  OBVIOUS
<1> USE OAuthAssumption DEF OAuthInit
<1>1. DOMAIN begun = {} /\ 1..0 = {}
  OBVIOUS
<1>2. LoginsInv
  BY <1>1 DEF LoginsInv
<1>3. StatesInv
  BY <1>1 DEF StatesInv
<1>4. CallbacksInv /\ CompletedInv
  BY DEF CallbacksInv, CompletedInv, IdleCallback
<1>5. QED
  BY <1>2, <1>3, <1>4 DEF OAuthInv

\* The number of the next login is unused.
LEMMA NextLogin ==
  ASSUME LoginsInv
  PROVE  /\ LoginNumber \in Nat
         /\ DOMAIN begun = 1..LoginNumber
         /\ LoginNumber + 1 \notin DOMAIN begun
<1>1. PICK k \in Nat : DOMAIN begun = 1..k
  BY DEF LoginsInv
<1>2. Cardinality(1..k) = k
  BY FS_Interval
<1>3. QED
  BY <1>1, <1>2 DEF LoginNumber

\* What depends on the logins, and on the stores, alone.
LEMMA LoginsKept == LoginsInv /\ UNCHANGED <<wall, begun, codes>> => LoginsInv'
BY DEF LoginsInv

LEMMA StatesKept == StatesInv /\ UNCHANGED <<begun, states, redeemed>> => StatesInv'
BY DEF StatesInv

LEMMA CallbacksKept ==
  CallbacksInv /\ UNCHANGED <<begun, callback>> /\ codes \subseteq codes'
      => CallbacksInv'
BY DEF CallbacksInv

\* Requests that take no state and complete no login.
LEMMA QuietStep ==
  ASSUME OAuthInv, UNCHANGED <<begun, redeemed, completed>>
  PROVE  TakenOnce /\ CompletedInv'
BY DEF OAuthInv, StatesInv, CompletedInv, TakenOnce, LoginsInv

LEMMA BeginLoginKeeps ==
  ASSUME OAuthInv, NEW w \in ServerProcesses, NEW p \in Providers, BeginLogin(w, p)
  PROVE  OAuthInv' /\ TakenOnce
<1> USE OAuthAssumption
<1> DEFINE n == LoginNumber + 1
<1>1. /\ LoginsInv /\ StatesInv /\ CallbacksInv /\ CompletedInv
      /\ LoginNumber \in Nat /\ DOMAIN begun = 1..LoginNumber
      /\ n \in LoginIds \ DOMAIN begun
  BY NextLogin DEF OAuthInv, BeginLogin
<1>2. /\ DOMAIN begun' = 1..n
      /\ begun'[n] = [provider |-> p, at |-> wall]
      /\ \A i \in DOMAIN begun : begun'[i] = begun[i]
      /\ UNCHANGED <<wall, codes, codesSpent, callback, redeemed, completed>>
  BY <1>1 DEF BeginLogin
<1>3. /\ states' = [states EXCEPT ![w] =
                        Fresh(w) \cup {[state |-> n, expires |-> wall + StateTtl]}]
      /\ Fresh(w) \subseteq states[w]
  BY DEF BeginLogin, Fresh
<1> HIDE DEF n
<1>4. LoginsInv'
  BY <1>1, <1>2 DEF LoginsInv, n, LoginIds
<1>5. StatesInv'
  <2>1. /\ DOMAIN states' = ServerProcesses
        /\ \A v \in ServerProcesses : \A e \in states'[v] :
               \/ e \in states[v]
               \/ v = w /\ e = [state |-> n, expires |-> wall + StateTtl]
    BY <1>1, <1>3 DEF StatesInv
  <2>2. \A v \in ServerProcesses : \A e \in states'[v] :
            /\ e.state \in DOMAIN begun'
            /\ e.expires = begun'[e.state].at + StateTtl
            /\ redeemed'[e.state] = 0
    BY <1>1, <1>2, <2>1 DEF StatesInv, n
  <2>3. \A u, v \in ServerProcesses : \A d \in states'[u], e \in states'[v] :
            d.state = e.state => u = v /\ d = e
    BY <1>1, <2>1 DEF StatesInv
  <2>4. \A i \in LoginIds \ DOMAIN begun' : redeemed'[i] = 0
    BY <1>1, <1>2 DEF StatesInv, n
  <2>5. QED
    BY <1>1, <1>2, <2>1, <2>2, <2>3, <2>4 DEF StatesInv
<1>6. CallbacksInv' /\ CompletedInv'
  BY <1>1, <1>2 DEF CallbacksInv, CompletedInv, n
<1>7. TakenOnce
  BY <1>1, <1>2 DEF TakenOnce, StatesInv, CompletedInv, LoginsInv
<1>8. QED
  BY <1>4, <1>5, <1>6, <1>7 DEF OAuthInv

LEMMA CallbackKeeps ==
  ASSUME OAuthInv, NEW c \in Callbacks, NEW w \in ServerProcesses, NEW p \in Providers,
         NEW code \in codes, NEW s \in DOMAIN begun, Callback(c, w, p, code, s)
  PROVE  OAuthInv' /\ TakenOnce
<1> USE OAuthAssumption
<1>1. /\ LoginsInv /\ StatesInv /\ CallbacksInv /\ CompletedInv
      /\ UNCHANGED <<wall, begun, codes, codesSpent, completed>>
      /\ states' = [states EXCEPT ![w] = {e \in Fresh(w) : e.state # s}]
      /\ Fresh(w) = {e \in states[w] : wall <= e.expires}
  BY DEF OAuthInv, Callback, PopState, Fresh
<1>2. LoginsInv' /\ CompletedInv'
  BY <1>1 DEF LoginsInv, CompletedInv
<1>3. CASE \E e \in Fresh(w) : e.state = s
  <2>1. PICK e \in states[w] : e.state = s /\ wall <= e.expires
    BY <1>1, <1>3
  <2>2. s \in LoginIds /\ code \in LoginIds
    BY <1>1 DEF LoginsInv
  <2>3. /\ redeemed' = [redeemed EXCEPT ![s] = redeemed[s] + 1]
        /\ callback' = [callback EXCEPT ![c] =
                            [step |-> "exchange", worker |-> w, provider |-> p,
                             code |-> code, state |-> s]]
    BY <1>3 DEF Callback
  <2>4. StatesInv'
    <3>1. \A v \in ServerProcesses : \A d \in states'[v] :
              d \in states[v] /\ d.state # s
      BY <1>1, <2>1 DEF StatesInv
    <3>2. QED
      BY <1>1, <2>2, <2>3, <3>1 DEF StatesInv
  <2>5. CallbacksInv'
    <3>1. [step |-> "exchange", worker |-> w, provider |-> p, code |-> code,
           state |-> s] \in Carried
      BY <1>1, <2>2 DEF Carried
    <3>2. callback' \in [Callbacks -> {IdleCallback} \cup Carried]
      BY <1>1, <2>3, <3>1 DEF CallbacksInv
    <3>3. QED
      BY <1>1, <2>3, <3>2 DEF CallbacksInv
  <2>6. TakenOnce
    <3>1. redeemed[s] = 0 /\ wall - begun[s].at <= StateTtl
      BY <1>1, <2>1 DEF StatesInv, LoginsInv
    <3>2. \A n \in DOMAIN begun : n # s => redeemed'[n] = redeemed[n]
      BY <1>1, <2>3 DEF StatesInv, LoginsInv
    <3>3. \A n \in DOMAIN begun : redeemed[n] \in Nat
      BY <1>1 DEF StatesInv, LoginsInv
    <3>4. QED
      BY <1>1, <3>1, <3>2, <3>3 DEF TakenOnce, CompletedInv
  <2>7. QED
    BY <1>2, <2>4, <2>5, <2>6 DEF OAuthInv
<1>4. CASE ~\E e \in Fresh(w) : e.state = s
  <2>1. UNCHANGED <<callback, redeemed>>
    BY <1>4 DEF Callback
  <2>2. StatesInv'
    <3>1. \A v \in ServerProcesses : states'[v] \subseteq states[v]
      BY <1>1 DEF StatesInv
    <3>2. QED
      BY <1>1, <2>1, <3>1 DEF StatesInv
  <2>3. CallbacksInv'
    BY <1>1, <2>1 DEF CallbacksInv
  <2>4. QED
    BY <1>1, <1>2, <2>1, <2>2, <2>3, QuietStep DEF OAuthInv
<1>5. QED
  BY <1>3, <1>4

LEMMA ExchangeKeeps ==
  ASSUME OAuthInv, NEW c \in Callbacks, ExchangeCode(c)
  PROVE  OAuthInv' /\ TakenOnce
<1>1. /\ LoginsInv /\ StatesInv /\ CallbacksInv /\ CompletedInv
      /\ UNCHANGED <<wall, begun, states, codes, redeemed, completed>>
  BY DEF OAuthInv, ExchangeCode
<1>2. LoginsInv' /\ StatesInv'
  BY <1>1, LoginsKept, StatesKept
<1>3. CallbacksInv'
  <2>1. /\ callback[c].step = "exchange"
        /\ \/ callback' = [callback EXCEPT ![c] = IdleCallback]
           \/ Accepts(callback[c])
              /\ callback' = [callback EXCEPT ![c].step = "userinfo"]
    BY DEF ExchangeCode
  <2>2. callback[c] \in Carried /\ callback[c].state \in DOMAIN begun
    BY <1>1, <2>1 DEF CallbacksInv, IdleCallback
  <2>3. CASE callback' = [callback EXCEPT ![c] = IdleCallback]
    BY <1>1, <2>3 DEF CallbacksInv, IdleCallback
  <2>4. CASE /\ Accepts(callback[c])
             /\ callback' = [callback EXCEPT ![c].step = "userinfo"]
    <3>1. callback'[c] = [callback[c] EXCEPT !.step = "userinfo"]
      BY <1>1, <2>4 DEF CallbacksInv
    <3>2. /\ callback'[c] \in Carried /\ callback'[c].step = "userinfo"
          /\ callback'[c].code = callback[c].code
          /\ callback'[c].state = callback[c].state
          /\ callback'[c].provider = callback[c].provider
      BY <2>2, <3>1 DEF Carried
    <3>3. \A d \in Callbacks : d # c => callback'[d] = callback[d]
      BY <1>1, <2>4 DEF CallbacksInv
    <3>4. callback' \in [Callbacks -> {IdleCallback} \cup Carried]
      BY <1>1, <2>4, <3>2, <3>3 DEF CallbacksInv
    <3>5. QED
      BY <1>1, <2>2, <2>4, <3>2, <3>3, <3>4 DEF CallbacksInv, Accepts
  <2>5. QED
    BY <2>1, <2>3, <2>4
<1>4. QED
  BY <1>1, <1>2, <1>3, QuietStep DEF OAuthInv

LEMMA UserInfoKeeps ==
  ASSUME OAuthInv, NEW c \in Callbacks, UserInfo(c)
  PROVE  OAuthInv' /\ TakenOnce
<1>1. /\ LoginsInv /\ StatesInv /\ CallbacksInv /\ CompletedInv
      /\ UNCHANGED <<wall, begun, states, codes, codesSpent, redeemed>>
      /\ callback[c].step = "userinfo"
      /\ callback' = [callback EXCEPT ![c] = IdleCallback]
  BY DEF OAuthInv, UserInfo
<1>2. LoginsInv' /\ StatesInv'
  BY <1>1, LoginsKept, StatesKept
<1>3. CallbacksInv'
  BY <1>1 DEF CallbacksInv, IdleCallback
<1>4. CompletedInv'
  <2>1. \A done \in completed' :
            \/ done \in completed
            \/ done = [state |-> callback[c].state, code |-> callback[c].code,
                       provider |-> callback[c].provider]
    BY DEF UserInfo
  <2>2. QED
    BY <1>1, <2>1 DEF CompletedInv, CallbacksInv
<1>5. TakenOnce
  BY <1>1, <1>4 DEF TakenOnce, CompletedInv, StatesInv, LoginsInv
<1>6. QED
  BY <1>2, <1>3, <1>4, <1>5 DEF OAuthInv

\* Time passes, a user consents, a server process stops.
LEMMA SurroundingsKeep ==
  ASSUME OAuthInv,
         \/ SecondPasses
         \/ \E n \in DOMAIN begun : Consent(n)
         \/ \E w \in ServerProcesses : WorkerRestarts(w)
  PROVE  OAuthInv' /\ TakenOnce
<1>1. /\ LoginsInv /\ StatesInv /\ CallbacksInv /\ CompletedInv
      /\ UNCHANGED <<begun, redeemed, completed>>
  BY DEF OAuthInv, SecondPasses, Consent, WorkerRestarts
<1>2. CASE SecondPasses
  <2>1. LoginsInv'
    BY <1>1, <1>2 DEF SecondPasses, LoginsInv
  <2>2. StatesInv' /\ CallbacksInv'
    BY <1>1, <1>2, StatesKept, CallbacksKept DEF SecondPasses
  <2>3. QED
    BY <1>1, <2>1, <2>2, QuietStep DEF OAuthInv
<1>3. ASSUME NEW n \in DOMAIN begun, Consent(n)
      PROVE  OAuthInv' /\ TakenOnce
  <2>1. LoginsInv'
    BY <1>1, <1>3 DEF Consent, LoginsInv
  <2>2. StatesInv' /\ CallbacksInv'
    BY <1>1, <1>3, StatesKept, CallbacksKept DEF Consent
  <2>3. QED
    BY <1>1, <2>1, <2>2, QuietStep DEF OAuthInv
<1>4. ASSUME NEW w \in ServerProcesses, WorkerRestarts(w)
      PROVE  OAuthInv' /\ TakenOnce
  <2>1. LoginsInv'
    BY <1>1, <1>4 DEF WorkerRestarts, LoginsInv
  <2>2. StatesInv'
    <3>1. /\ DOMAIN states' = ServerProcesses
          /\ \A v \in ServerProcesses : states'[v] \subseteq states[v]
      BY <1>1, <1>4 DEF WorkerRestarts, StatesInv
    <3>2. QED
      BY <1>1, <3>1 DEF StatesInv
  <2>3. CallbacksInv'
    <3>1. \A c \in Callbacks : callback'[c] \in {callback[c], IdleCallback}
      BY <1>4 DEF WorkerRestarts
    <3>2. callback' \in [Callbacks -> {IdleCallback} \cup Carried] /\ codes' = codes
      BY <1>1, <1>4, <3>1 DEF WorkerRestarts, CallbacksInv
    <3>3. QED
      BY <1>1, <3>1, <3>2 DEF CallbacksInv, IdleCallback
  <2>4. QED
    BY <1>1, <2>1, <2>2, <2>3, QuietStep DEF OAuthInv
<1>5. QED
  BY <1>2, <1>3, <1>4

LEMMA OAuthInvStep == OAuthInv /\ OAuthNext => OAuthInv' /\ TakenOnce
BY BeginLoginKeeps, CallbackKeeps, ExchangeKeeps, UserInfoKeeps, SurroundingsKeep
DEF OAuthNext

-----------------------------------------------------------------------------

\* A step that leaves the logins alone keeps the invariant as well.
LEMMA OAuthInvKeeps == OAuthInv /\ [OAuthNext]_oauthVars => OAuthInv'
<1>1. OAuthInv /\ UNCHANGED oauthVars => OAuthInv'
  BY LoginsKept, StatesKept, CallbacksKept DEF oauthVars, OAuthInv, CompletedInv
<1>2. QED
  BY <1>1, OAuthInvStep

\* A state is taken once, by the process that issued it and in time, and a login
\* completes only with its own code at its own provider, however many callbacks,
\* restarts and processes there are.
THEOREM StateAlwaysTakenOnce == OAuthSpec => StateTakenOnce
<1>1. OAuthInv /\ [OAuthNext]_oauthVars => OAuthInv' /\ [TakenOnce]_oauthVars
  BY OAuthInvKeeps, OAuthInvStep
<1>2. OAuthSpec => [][TakenOnce]_oauthVars
  BY <1>1, OAuthInvInit, PTL DEF OAuthSpec
<1>3. QED
  BY <1>2, PTL DEF StateTakenOnce, TakenOnce

-----------------------------------------------------------------------------
(* Discovery *)

\* No request is older than its timeout, and an answer on its way was current
\* after its request was sent.
InFlightInv ==
    \A d \in Discoveries :
        /\ discovery[d].phase # "idle" => today - discovery[d].began <= FetchTimeout
        /\ discovery[d].phase = "answered" =>
               /\ discovery[d].version \in 1..metadata
               /\ discovery[d].version < metadata =>
                      discovery[d].began <= supersededAt[discovery[d].version]

\* A replaced version is put into the cache within one timeout.
CachedInv ==
    /\ cached.version <= metadata
    /\ cached.version \in 1..(metadata - 1) =>
           cached.stamp <= supersededAt[cached.version] + FetchTimeout

\* The inductive invariant.
MetadataInv == DiscoveryTypeOK /\ InFlightInv /\ CachedInv /\ MetadataAge

LEMMA MetadataInvInit == DiscoveryInit => MetadataInv
BY DiscoveryAssumption
   DEF DiscoveryInit, MetadataInv, DiscoveryTypeOK, Versions, NoDiscovery, InFlightInv,
       CachedInv, MetadataAge

LEMMA MetadataInvStep == MetadataInv /\ [DiscoveryNext]_discoveryVars => MetadataInv'
<1> SUFFICES ASSUME MetadataInv, [DiscoveryNext]_discoveryVars PROVE MetadataInv'
  OBVIOUS
<1> USE DEF MetadataInv, Versions
<1>1. /\ MaxVersions \in Nat /\ MaxFetchTime \in Nat
      /\ CacheTtl \in Nat /\ CacheTtl > 0 /\ FetchTimeout \in Nat /\ FetchTimeout > 0
  BY DiscoveryAssumption
<1>2. /\ today \in Nat /\ metadata \in 1..MaxVersions /\ cached.stamp \in 0..today
      /\ cached.version \in 0..MaxVersions
      /\ \A v \in Versions : supersededAt[v] \in 0..today /\ served[v] \in 0..today
      /\ \A d \in Discoveries : discovery[d].began \in 0..today
  BY <1>1 DEF DiscoveryTypeOK
<1> USE <1>1, <1>2
<1>3. CASE SecondGoesBy
  <2>1. DiscoveryTypeOK'
    <3>1. /\ today' \in 0..MaxFetchTime /\ today \in Nat /\ today' = today + 1
          /\ 0..today \subseteq 0..today'
      BY <1>3 DEF SecondGoesBy, DiscoveryTypeOK
    <3>2. QED
      BY <1>3, <3>1 DEF SecondGoesBy, DiscoveryTypeOK
  <2>2. InFlightInv'
    BY <1>3 DEF SecondGoesBy, DiscoveryTypeOK, InFlightInv
  <2>3. QED
    BY <1>3, <2>1, <2>2 DEF SecondGoesBy, CachedInv, MetadataAge
<1>4. CASE IssuerReplaces
  <2>1. DiscoveryTypeOK'
    BY <1>4 DEF IssuerReplaces, DiscoveryTypeOK
  <2>2. /\ supersededAt'[metadata] = today /\ today \in Nat
        /\ \A v \in Versions : v # metadata => supersededAt'[v] = supersededAt[v]
    BY <1>4 DEF IssuerReplaces, DiscoveryTypeOK
  <2>3. InFlightInv'
    BY <1>4, <2>2 DEF IssuerReplaces, InFlightInv
  <2>4. CachedInv'
    BY <1>4, <2>2 DEF IssuerReplaces, CachedInv
  <2>5. MetadataAge'
    BY <1>4, <2>2 DEF IssuerReplaces, MetadataAge
  <2>6. QED
    BY <2>1, <2>3, <2>4, <2>5
<1>5. ASSUME NEW d \in Discoveries, Discover(d) PROVE MetadataInv'
  <2>1. CASE cached.version # 0 /\ today - cached.stamp < CacheTtl
    <3>1. /\ UNCHANGED <<today, metadata, supersededAt, discovery, cached>>
          /\ served' = [served EXCEPT ![cached.version] = today]
      BY <1>5, <2>1 DEF Discover, Hit
    <3>2. DiscoveryTypeOK'
      <4>1. served' \in [Versions -> 0..today]
        BY <2>1, <3>1 DEF DiscoveryTypeOK
      <4>2. QED
        BY <3>1, <4>1 DEF DiscoveryTypeOK
    <3>3. /\ served'[cached.version] = today
          /\ \A v \in Versions : v # cached.version => served'[v] = served[v]
      BY <2>1, <3>1 DEF DiscoveryTypeOK
    <3>4. MetadataAge'
      BY <2>1, <3>1, <3>3 DEF CachedInv, MetadataAge
    <3>5. QED
      BY <3>1, <3>2, <3>4 DEF InFlightInv, CachedInv
  <2>2. CASE ~(cached.version # 0 /\ today - cached.stamp < CacheTtl)
    <3>1. /\ UNCHANGED <<today, metadata, supersededAt, served, cached>>
          /\ discovery' = [discovery EXCEPT ![d] =
                               [phase |-> "sent", began |-> today, version |-> 0]]
      BY <1>5, <2>2 DEF Discover
    <3>2. DiscoveryTypeOK'
      BY <3>1 DEF DiscoveryTypeOK
    <3>3. InFlightInv'
      BY <3>1 DEF DiscoveryTypeOK, InFlightInv
    <3>4. QED
      BY <3>1, <3>2, <3>3 DEF CachedInv, MetadataAge
  <2>3. QED
    BY <2>1, <2>2
<1>6. ASSUME NEW d \in Discoveries, IssuerAnswers(d) PROVE MetadataInv'
  <2>1. DiscoveryTypeOK'
    BY <1>6 DEF IssuerAnswers, DiscoveryTypeOK
  <2>2. InFlightInv'
    <3>1. /\ discovery[d].phase = "sent" /\ UNCHANGED <<today, metadata, supersededAt>>
          /\ \A e \in Discoveries :
                 /\ discovery'[e].began = discovery[e].began
                 /\ e # d => discovery'[e] = discovery[e]
          /\ discovery'[d].version = metadata
      BY <1>6 DEF IssuerAnswers, DiscoveryTypeOK
    <3>2. metadata \in 1..metadata /\ ~(metadata < metadata)
      BY DEF DiscoveryTypeOK
    <3>3. QED
      BY <3>1, <3>2 DEF InFlightInv
  <2>3. QED
    BY <1>6, <2>1, <2>2 DEF IssuerAnswers, CachedInv, MetadataAge
<1>7. ASSUME NEW d \in Discoveries, Receive(d) PROVE MetadataInv'
  <2> DEFINE version == discovery[d].version
  <2>1. /\ version \in 1..metadata /\ discovery[d].began \in Nat
        /\ today - discovery[d].began <= FetchTimeout
        /\ version < metadata => discovery[d].began <= supersededAt[version]
    BY <1>7 DEF Receive, InFlightInv, DiscoveryTypeOK
  <2>2. /\ UNCHANGED <<today, metadata, supersededAt>>
        /\ cached' = [version |-> version, stamp |-> today]
        /\ served' = [served EXCEPT ![version] = today]
        /\ discovery' = [discovery EXCEPT ![d] = NoDiscovery]
    BY <1>7 DEF Receive
  <2> HIDE DEF version
  <2>3. /\ served' \in [Versions -> 0..today]
        /\ served'[version] = today
        /\ \A v \in Versions : v # version => served'[v] = served[v]
    BY <2>1, <2>2 DEF DiscoveryTypeOK
  <2>4. DiscoveryTypeOK'
    <3>1. /\ today \in 0..MaxFetchTime /\ metadata \in Versions
          /\ supersededAt \in [Versions -> 0..today]
          /\ discovery \in [Discoveries -> [phase : {"idle", "sent", "answered"},
                                            began : 0..today,
                                            version : {0} \cup Versions]]
      BY DEF DiscoveryTypeOK
    <3>2. NoDiscovery \in [phase : {"idle", "sent", "answered"}, began : 0..today,
                           version : {0} \cup Versions]
      BY <3>1 DEF NoDiscovery
    <3>3. version \in {0} \cup Versions /\ today \in 0..today
      BY <2>1, <3>1
    <3>4. cached' \in [version : {0} \cup Versions, stamp : 0..today]
      BY <2>2, <3>3
    <3>5. discovery' \in [Discoveries -> [phase : {"idle", "sent", "answered"},
                                          began : 0..today,
                                          version : {0} \cup Versions]]
      BY ONLY <2>2, <3>1, <3>2
    <3>6. QED
      BY <2>2, <2>3, <3>1, <3>4, <3>5 DEF DiscoveryTypeOK
  <2>5. InFlightInv'
    <3>1. /\ discovery'[d].phase = "idle"
          /\ \A e \in Discoveries : e # d => discovery'[e] = discovery[e]
      BY <2>2 DEF DiscoveryTypeOK, NoDiscovery
    <3>2. QED
      BY <2>2, <3>1 DEF InFlightInv
  <2>6. CachedInv'
    BY <2>1, <2>2 DEF CachedInv
  <2>7. MetadataAge'
    <3> SUFFICES ASSUME NEW v \in Versions, v < metadata
                 PROVE  served'[v] < supersededAt[v] + CacheTtl + FetchTimeout
      BY <2>2 DEF MetadataAge
    <3>1. CASE v # version
      BY <2>3, <3>1 DEF MetadataAge
    <3>2. CASE v = version
      <4>1. /\ served'[v] = today /\ discovery[d].began <= supersededAt[v]
            /\ today - discovery[d].began <= FetchTimeout /\ discovery[d].began \in Nat
        BY <2>1, <2>3, <3>2
      <4>2. supersededAt[v] \in Nat /\ today \in Nat
        BY <1>2
      <4>3. QED
        BY ONLY <1>1, <4>1, <4>2
    <3>3. QED
      BY <3>1, <3>2
  <2>8. QED
    BY <2>4, <2>5, <2>6, <2>7
<1>8. ASSUME NEW d \in Discoveries, DiscoveryFails(d) PROVE MetadataInv'
  <2>1. /\ discovery' = [discovery EXCEPT ![d] = NoDiscovery]
        /\ UNCHANGED <<today, metadata, supersededAt, cached, served>>
    BY <1>8 DEF DiscoveryFails
  <2>2. DiscoveryTypeOK'
    BY <2>1 DEF DiscoveryTypeOK, NoDiscovery
  <2>3. InFlightInv'
    <3>1. /\ discovery'[d].phase = "idle"
          /\ \A e \in Discoveries : e # d => discovery'[e] = discovery[e]
      BY <2>1 DEF DiscoveryTypeOK, NoDiscovery
    <3>2. QED
      BY <2>1, <3>1 DEF InFlightInv
  <2>4. QED
    BY <2>1, <2>2, <2>3 DEF CachedInv, MetadataAge
<1>9. CASE UNCHANGED discoveryVars
  BY <1>9 DEF discoveryVars, DiscoveryTypeOK, InFlightInv, CachedInv, MetadataAge
<1>10. QED
  BY <1>3, <1>4, <1>5, <1>6, <1>7, <1>8, <1>9 DEF DiscoveryNext

\* Metadata the issuer has replaced is returned for less than cache_ttl_seconds
\* and the time of one fetch (OIDCDiscoveryClient.discover()).
THEOREM MetadataNeverOld == DiscoverySpec => []MetadataAge
BY MetadataInvInit, MetadataInvStep, PTL DEF DiscoverySpec, MetadataInv

-----------------------------------------------------------------------------
(* TOTP codes *)

\* A whole period later the counter is one higher.
LEMMA PeriodsCount ==
    ASSUME NEW a \in Int, NEW o \in Int, NEW p \in Nat \ {0}
    PROVE  (a + o * p) \div p = (a \div p) + o
<1> DEFINE k == a \div p
           c == (a + o * p) \div p
<1>1. o * p \in Int /\ a + o * p \in Int
  OBVIOUS
<1>2. k \in Int /\ k * p <= a /\ a < k * p + p
  BY IntegerDivision
<1>3. c \in Int /\ c * p <= a + o * p /\ a + o * p < c * p + p
  BY <1>1, IntegerDivision
<1>4. (k + o) * p = k * p + o * p /\ k * p \in Int /\ c * p \in Int
  BY <1>2, <1>3
<1> HIDE DEF k, c
<1>5. c * p < (k + o) * p + p /\ (k + o) * p < c * p + p
  BY <1>1, <1>2, <1>3, <1>4
<1>6. c <= k + o /\ k + o <= c
  BY <1>2, <1>3, <1>5, Multiples
<1>7. QED
  BY <1>2, <1>3, <1>6 DEF k, c

\* At every time the tolerated drift is what the window allows, rounded to
\* whole periods.
LEMMA DriftAlwaysTolerated ==
    ASSUME epoch \in Nat
    PROVE  DriftTolerated
<1> DEFINE p == Period
           w == DriftWindow
           k == epoch \div p
<1>1. p \in Nat \ {0} /\ w \in Nat /\ epoch \in Int
  BY MultiFactorAssumption
<1>2. k \in Int /\ k * p <= epoch /\ epoch < k * p + p
  BY <1>1, IntegerDivision
<1> SUFFICES ASSUME NEW drift \in -(w + 2) * p..(w + 2) * p
             PROVE  /\ drift \in -w * p..w * p => VerifyTotp(Counter(epoch + drift))
                    /\ VerifyTotp(Counter(epoch + drift)) =>
                           drift \in 1 - (w + 1) * p..(w + 1) * p - 1
  BY DEF DriftTolerated
<1> DEFINE c == (epoch + drift) \div p
<1>3. drift \in Int /\ epoch + drift \in Int
  BY <1>1
<1>4. c \in Int /\ c * p <= epoch + drift /\ epoch + drift < c * p + p
  BY <1>1, <1>3, IntegerDivision
<1>5. VerifyTotp(c) <=> \E o \in -w..w : k + o = c
  <2>1. \A o \in -w..w : Counter(epoch + o * p) = k + o
    <3> SUFFICES ASSUME NEW o \in -w..w PROVE Counter(epoch + o * p) = k + o
      OBVIOUS
    <3>1. o \in Int
      BY <1>1
    <3>2. (epoch + o * p) \div p = (epoch \div p) + o
      BY <1>1, <3>1, PeriodsCount
    <3>3. QED
      BY <3>2 DEF Counter
  <2>2. QED
    BY <2>1 DEF VerifyTotp, Offsets
<1>6. Counter(epoch + drift) = c
  BY DEF Counter
<1> HIDE DEF k, c
<1>7. ASSUME drift \in -w * p..w * p
      PROVE  VerifyTotp(c)
  <2> DEFINE wp == w * p
             kp == k * p
             cp == c * p
  <2>1. wp \in Nat /\ kp \in Int /\ cp \in Int
    BY <1>1, <1>2, <1>4
  <2>2. -wp <= drift /\ drift <= wp
    BY <1>1, <1>7, <2>1
  <2>3. (k + w) * p = kp + wp /\ (c + w) * p = cp + wp
    BY <1>1, <1>2, <1>4
  <2>4. kp <= epoch /\ epoch < kp + p /\ cp <= epoch + drift /\ epoch + drift < cp + p
    BY <1>2, <1>4
  <2>5. cp < (k + w) * p + p /\ kp < (c + w) * p + p
    <3> HIDE DEF wp, kp, cp
    <3> QED
      BY <1>1, <1>3, <2>1, <2>2, <2>3, <2>4
  <2>6. c <= k + w /\ k <= c + w
    BY <1>1, <1>2, <1>4, <2>5, Multiples
  <2>7. c - k \in -w..w /\ k + (c - k) = c
    BY <1>1, <1>2, <1>4, <2>6
  <2>8. QED
    BY <1>5, <2>7
<1>8. ASSUME VerifyTotp(c)
      PROVE  drift \in 1 - (w + 1) * p..(w + 1) * p - 1
  <2>1. PICK o \in -w..w : k + o = c
    BY <1>5, <1>8
  <2>2. c * p = k * p + o * p /\ k * p \in Int /\ o * p \in Int
    BY <1>1, <1>2, <1>4, <2>1
  <2>3. o * p <= w * p /\ -(w * p) <= o * p /\ w * p \in Int
    <3>1. w - o \in Nat /\ w + o \in Nat
      BY <1>1
    <3>2. (w - o) * p \in Nat /\ (w + o) * p \in Nat
      BY <1>1, <3>1
    <3>3. (w - o) * p = w * p - o * p /\ (w + o) * p = w * p + o * p
      BY <1>1
    <3>4. QED
      BY <1>1, <2>2, <3>2, <3>3
  <2>4. (w + 1) * p = w * p + p
    BY <1>1
  <2>5. drift < o * p + p /\ o * p - p < drift
    BY <1>1, <1>2, <1>3, <1>4, <2>2
  <2>6. QED
    BY <1>1, <1>3, <2>3, <2>4, <2>5
<1>9. QED
  BY <1>6, <1>7, <1>8

-----------------------------------------------------------------------------
(* Recovery codes *)

\* The codes the first n set-ups have handed out.
HandedOut(n) == 1..n * CodeCount

NoRepeat(s) == \A i, j \in DOMAIN s : s[i] = s[j] => i = j

\* A list of recovery codes, of the set-ups so far.
CodeList(s, n) == s \in Seq(Nat) /\ NoRepeat(s) /\ ToSet(s) \subseteq HandedOut(n)

\* What a request with a recovery code holds.
Redeems(q, n) ==
    /\ q.code \in HandedOut(n) /\ CodeList(q.list, n) /\ CodeList(q.basis, n)
    /\ q.at = "loaded" => q.list = q.basis
    /\ q.at = "verified" =>
           q.code \in ToSet(q.basis) /\ ToSet(q.list) = ToSet(q.basis) \ {q.code}

Request ==
    [at : {"idle", "loaded", "verified"}, code : Nat, list : Seq(Nat), basis : Seq(Nat)]

\* The requests' lists, whatever was overwritten.
RequestsHold ==
    /\ redemption \in [Recoveries -> Request]
    /\ \A r \in Recoveries : redemption[r] = NoRequest \/ Redeems(redemption[r], setups)

CountersTyped == epoch \in Nat /\ setups \in Nat /\ setups <= MaxSetups

StoredHolds == CodeList(recovery, setups)

\* Only a code that was handed out has been used.
UsedHolds ==
    /\ used \in [AllCodes -> Nat]
    /\ \A c \in AllCodes : used[c] # 0 => c \in HandedOut(setups)

\* The stored codes are the last set-up's, and unused.
Unused(c) == c \in ToSet(Codes(setups)) /\ used[c] = 0

UnusedUnlessOverwritten ==
    ~overwritten =>
        /\ \A c \in AllCodes : used[c] <= 1
        /\ \A c \in ToSet(recovery) : Unused(c)

RecoveryInv ==
    /\ CountersTyped
    /\ StoredHolds
    /\ RequestsHold
    /\ UsedHolds
    /\ UnusedUnlessOverwritten

LEMMA HandedOutGrows ==
    ASSUME NEW n \in Nat, n + 1 <= MaxSetups
    PROVE  /\ (n + 1) * CodeCount = n * CodeCount + CodeCount
           /\ n * CodeCount \in Nat
           /\ HandedOut(n) \subseteq HandedOut(n + 1)
<1>1. CodeCount \in Nat
  BY MultiFactorAssumption
<1>2. (n + 1) * CodeCount = n * CodeCount + CodeCount /\ n * CodeCount \in Nat
  BY <1>1
<1>3. QED
  BY <1>1, <1>2 DEF HandedOut

LEMMA HandedOutIsKnown ==
    ASSUME NEW n \in Nat, n <= MaxSetups
    PROVE  HandedOut(n) \subseteq AllCodes /\ HandedOut(n) \subseteq Nat
<1>1. CodeCount \in Nat /\ MaxSetups \in Nat
  BY MultiFactorAssumption
<1>2. PICK k \in Nat : MaxSetups = n + k
  <2>1. MaxSetups - n \in Nat /\ MaxSetups = n + (MaxSetups - n)
    BY <1>1
  <2>2. QED
    BY <2>1
<1>3. MaxSetups * CodeCount = n * CodeCount + k * CodeCount
  BY <1>1, <1>2
<1>4. n * CodeCount \in Nat /\ k * CodeCount \in Nat
  BY <1>1, <1>2
<1>5. QED
  BY <1>3, <1>4 DEF HandedOut, AllCodes

\* A new set-up's list: all its codes are new.
LEMMA NewCodes ==
    ASSUME NEW n \in Nat, n + 1 <= MaxSetups
    PROVE  /\ CodeList(Codes(n + 1), n + 1)
           /\ \A c \in ToSet(Codes(n + 1)) : c \in AllCodes /\ c \notin HandedOut(n)
<1> DEFINE m == n * CodeCount
           s == [i \in 1..CodeCount |-> m + i]
<1>1. CodeCount \in Nat /\ m \in Nat
  BY MultiFactorAssumption
<1>2. n + 1 - 1 = n
  OBVIOUS
<1>3. Codes(n + 1) = s
  BY <1>2 DEF Codes
<1>4. (n + 1) * CodeCount = m + CodeCount
  BY HandedOutGrows
<1>5. HandedOut(n + 1) = 1..m + CodeCount /\ HandedOut(n) = 1..m
  BY <1>4 DEF HandedOut
<1> HIDE DEF m
<1>6. s \in Seq(Nat) /\ DOMAIN s = 1..CodeCount
  BY <1>1
<1>7. NoRepeat(s)
  BY <1>1 DEF NoRepeat
<1>8. \A c \in ToSet(s) : c \in 1..m + CodeCount /\ c \notin 1..m
  BY <1>1 DEF ToSet
<1>9. HandedOut(n + 1) \subseteq AllCodes
  BY HandedOutIsKnown
<1>10. CodeList(s, n + 1)
  BY <1>5, <1>6, <1>7, <1>8 DEF CodeList
<1>11. \A c \in ToSet(s) : c \in AllCodes /\ c \notin HandedOut(n)
  BY <1>5, <1>8, <1>9
<1>12. QED
  BY <1>3, <1>10, <1>11

\* Taking one entry out of a list without repetitions takes its code out.
LEMMA TakenOut ==
    ASSUME NEW s \in Seq(Nat), NoRepeat(s), NEW i \in DOMAIN s
    PROVE  /\ CodesWithout(s, i) \in Seq(Nat)
           /\ NoRepeat(CodesWithout(s, i))
           /\ ToSet(CodesWithout(s, i)) = ToSet(s) \ {s[i]}
<1> DEFINE t == CodesWithout(s, i)
           old(j) == IF j < i THEN j ELSE j + 1
<1>1. DOMAIN s = 1..Len(s) /\ Len(s) \in Nat /\ i \in 1..Len(s)
  OBVIOUS
<1>2. /\ t \in Seq(Nat) /\ DOMAIN t = 1..Len(s) - 1
      /\ \A j \in 1..Len(s) - 1 : t[j] = IF j < i THEN s[j] ELSE s[j + 1]
  <2>1. t = WithoutAt(s, i)
    BY DEF CodesWithout, RemoveAt, WithoutAt
  <2> HIDE DEF t
  <2>2. /\ WithoutAt(s, i) \in Seq(Nat) /\ DOMAIN WithoutAt(s, i) = 1..Len(s) - 1
        /\ \A j \in 1..Len(s) - 1 :
               WithoutAt(s, i)[j] = IF j < i THEN s[j] ELSE s[j + 1]
    BY <1>1, RemovedOne
  <2>3. QED
    BY ONLY <2>1, <2>2
<1> HIDE DEF t
<1>3. \A j \in 1..Len(s) - 1 : old(j) \in DOMAIN s /\ t[j] = s[old(j)]
  BY <1>1, <1>2
<1>4. t \in Seq(Nat) /\ DOMAIN t = 1..Len(s) - 1
  BY <1>2
<1>5. \A j, k \in 1..Len(s) - 1 : old(j) = old(k) => j = k
  BY <1>1
<1>6. \A j \in 1..Len(s) - 1 : old(j) # i
  BY <1>1
<1>7. \A k \in DOMAIN s : k # i => \E j \in 1..Len(s) - 1 : old(j) = k
  <2> SUFFICES ASSUME NEW k \in DOMAIN s, k # i
               PROVE  \E j \in 1..Len(s) - 1 : old(j) = k
    OBVIOUS
  <2>1. CASE k < i
    BY <1>1, <2>1
  <2>2. CASE i < k
    <3>1. k - 1 \in 1..Len(s) - 1 /\ old(k - 1) = k
      BY <1>1, <2>2
    <3>2. QED
      BY <3>1
  <2>3. QED
    BY <1>1, <2>1, <2>2
<1> HIDE DEF old
<1>8. NoRepeat(t)
  BY <1>4, <1>3, <1>5 DEF NoRepeat
<1>9. \A j \in DOMAIN t : t[j] \in ToSet(s) /\ t[j] # s[i]
  <2> SUFFICES ASSUME NEW j \in 1..Len(s) - 1
               PROVE  t[j] \in ToSet(s) /\ t[j] # s[i]
    BY <1>2
  <2>1. old(j) \in DOMAIN s /\ old(j) # i /\ t[j] = s[old(j)]
    BY <1>3, <1>6
  <2>2. QED
    BY <2>1 DEF NoRepeat, ToSet
<1>10. \A k \in DOMAIN s : s[k] # s[i] => s[k] \in ToSet(t)
  BY <1>4, <1>3, <1>7 DEF ToSet
<1>11. ToSet(t) = ToSet(s) \ {s[i]}
  BY <1>9, <1>10 DEF ToSet
<1>12. QED
  BY <1>4, <1>8, <1>11 DEF t

LEMMA IdleIsRequest == NoRequest \in Request
<1>1. <<>> \in Seq(Nat)
  OBVIOUS
<1>2. QED
  BY <1>1 DEF NoRequest, Request

LEMMA RecoveryInvInit == FactorInit => RecoveryInv
<1> SUFFICES ASSUME FactorInit PROVE RecoveryInv
  OBVIOUS
<1> USE DEF FactorInit
<1>1. CountersTyped
  BY MultiFactorAssumption DEF CountersTyped
<1>2. StoredHolds
  BY DEF StoredHolds, CodeList, NoRepeat, ToSet
<1>3. RequestsHold
  BY IdleIsRequest DEF RequestsHold
<1>4. UsedHolds
  BY DEF UsedHolds
<1>5. UnusedUnlessOverwritten
  BY DEF UnusedUnlessOverwritten, ToSet
<1>6. QED
  BY <1>1, <1>2, <1>3, <1>4, <1>5 DEF RecoveryInv

LEMMA RecoveryInvStep == RecoveryInv /\ [FactorNext]_factorVars => RecoveryInv'
<1> SUFFICES ASSUME RecoveryInv, [FactorNext]_factorVars
             PROVE  RecoveryInv'
  OBVIOUS
<1>1. CountersTyped /\ StoredHolds /\ RequestsHold /\ UsedHolds
      /\ UnusedUnlessOverwritten
  BY DEF RecoveryInv
<1>2. setups \in Nat /\ setups <= MaxSetups /\ epoch \in Nat /\ MaxSetups \in Nat
  BY <1>1, MultiFactorAssumption DEF CountersTyped
<1>3. HandedOut(setups) \subseteq AllCodes /\ HandedOut(setups) \subseteq Nat
  BY <1>2, HandedOutIsKnown
<1>4. NoRequest \in Request
  BY IdleIsRequest
<1> USE DEF CodeList
<1>5. CASE UNCHANGED factorVars
  BY <1>1, <1>5 DEF RecoveryInv, CountersTyped, StoredHolds, RequestsHold, UsedHolds,
                    UnusedUnlessOverwritten, Unused, factorVars
<1>6. CASE EpochPasses
  BY <1>1, <1>2, <1>6
     DEF EpochPasses, RecoveryInv, CountersTyped, StoredHolds, RequestsHold,
                    UsedHolds, UnusedUnlessOverwritten, Unused
<1>7. CASE Setup
  <2>1. /\ setups' = setups + 1 /\ setups + 1 <= MaxSetups /\ setups + 1 \in Nat
        /\ recovery' = Codes(setups + 1)
        /\ UNCHANGED <<epoch, redemption, used, overwritten>>
    BY <1>2, <1>7 DEF Setup
  <2>2. HandedOut(setups) \subseteq HandedOut(setups + 1)
    BY <1>2, <2>1, HandedOutGrows
  <2>3. /\ CodeList(Codes(setups + 1), setups + 1)
        /\ \A c \in ToSet(Codes(setups + 1)) : c \in AllCodes
           /\ c \notin HandedOut(setups)
    BY <1>2, <2>1, NewCodes
  <2>4. CountersTyped'
    BY <1>2, <2>1 DEF CountersTyped
  <2>5. StoredHolds'
    BY <2>1, <2>3 DEF StoredHolds
  <2>6. \A q : Redeems(q, setups) => Redeems(q, setups + 1)
    BY <2>2 DEF Redeems
  <2>7. RequestsHold'
    BY <1>1, <2>1, <2>6 DEF RequestsHold
  <2>8. UsedHolds'
    BY <1>1, <2>1, <2>2 DEF UsedHolds
  <2>9. \A c \in ToSet(Codes(setups + 1)) : used[c] = 0
    BY <1>1, <2>3 DEF UsedHolds
  <2>10. UnusedUnlessOverwritten'
    BY <1>1, <2>1, <2>9 DEF UnusedUnlessOverwritten, Unused
  <2>11. QED
    BY <2>4, <2>5, <2>7, <2>8, <2>10 DEF RecoveryInv
<1>8. ASSUME NEW r \in Recoveries, NEW c \in 1..setups * CodeCount, LoadCodes(r, c)
      PROVE  RecoveryInv'
  <2> DEFINE q == [at |-> "loaded", code |-> c, list |-> recovery, basis |-> recovery]
  <2>1. redemption' = [redemption EXCEPT ![r] = q]
        /\ UNCHANGED <<epoch, setups, recovery, used, overwritten>>
    BY <1>8 DEF LoadCodes
  <2>2. c \in HandedOut(setups)
    BY <1>8 DEF HandedOut
  <2>3. q \in Request /\ Redeems(q, setups)
    BY <1>1, <1>3, <2>2 DEF Request, Redeems, StoredHolds
  <2> HIDE DEF q
  <2>4. RequestsHold'
    BY <1>1, <2>1, <2>3 DEF RequestsHold
  <2>5. CountersTyped' /\ StoredHolds' /\ UsedHolds' /\ UnusedUnlessOverwritten'
    BY <1>1, <2>1
       DEF CountersTyped, StoredHolds, UsedHolds, UnusedUnlessOverwritten, Unused
  <2>6. QED
    BY <2>4, <2>5 DEF RecoveryInv
<1>9. ASSUME NEW r \in Recoveries, VerifyRecovery(r)
      PROVE  RecoveryInv'
  <2> DEFINE q == redemption[r]
             matches == {i \in DOMAIN q.list : q.list[i] = q.code}
             first == CHOOSE i \in matches : \A j \in matches : i <= j
             p == [q EXCEPT !.at = "verified", !.list = CodesWithout(q.list, first)]
  <2>1. /\ q.at = "loaded"
        /\ redemption' =
               [redemption EXCEPT ![r] = IF matches = {} THEN NoRequest ELSE p]
        /\ UNCHANGED <<epoch, setups, recovery, used, overwritten>>
    BY <1>9 DEF VerifyRecovery
  <2>2. q \in Request /\ q # NoRequest /\ Redeems(q, setups)
    BY <1>1, <2>1 DEF RequestsHold, NoRequest
  <2>3. q.list = q.basis /\ q.list \in Seq(Nat) /\ NoRepeat(q.list)
    BY <2>1, <2>2 DEF Redeems
  <2>4. ASSUME matches # {}
        PROVE  p \in Request /\ Redeems(p, setups)
    <3>1. PICK k \in matches : TRUE
      BY <2>4
    <3>2. matches = {k} /\ k \in Nat
      BY <2>3, <3>1 DEF NoRepeat
    <3>3. first \in matches
      BY <3>2
    <3> HIDE DEF first
    <3>4. first \in DOMAIN q.list /\ q.list[first] = q.code
      BY <3>3
    <3>5. /\ CodesWithout(q.list, first) \in Seq(Nat)
          /\ NoRepeat(CodesWithout(q.list, first))
          /\ ToSet(CodesWithout(q.list, first)) = ToSet(q.list) \ {q.code}
      BY <2>3, <3>4, TakenOut
    <3>6. q.code \in ToSet(q.list)
      BY <3>4 DEF ToSet
    <3>7. /\ p.at = "verified" /\ p.code = q.code /\ p.basis = q.basis
          /\ p.list = CodesWithout(q.list, first) /\ p \in Request
      BY <2>2, <3>5 DEF Request
    <3>8. QED
      BY <2>2, <2>3, <3>5, <3>6, <3>7 DEF Redeems
  <2>5. NoRequest \in Request
    BY <1>4
  <2>6. RequestsHold'
    <3> HIDE DEF p, matches
    <3>1. CASE matches = {}
      BY <1>1, <2>1, <2>5, <3>1 DEF RequestsHold
    <3>2. CASE matches # {}
      BY <1>1, <2>1, <2>4, <3>2 DEF RequestsHold
    <3>3. QED
      BY <3>1, <3>2
  <2>7. CountersTyped' /\ StoredHolds' /\ UsedHolds' /\ UnusedUnlessOverwritten'
    BY <1>1, <2>1
       DEF CountersTyped, StoredHolds, UsedHolds, UnusedUnlessOverwritten, Unused
  <2>8. QED
    BY <2>6, <2>7 DEF RecoveryInv
<1>10. ASSUME NEW r \in Recoveries, SaveCodes(r)
      PROVE  RecoveryInv'
  <2> DEFINE q == redemption[r]
  <2>1. /\ q.at = "verified"
        /\ recovery' = q.list
        /\ used' = [used EXCEPT ![q.code] = IF used[q.code] = 0 THEN 1 ELSE 2]
        /\ redemption' = [redemption EXCEPT ![r] = NoRequest]
        /\ UNCHANGED <<epoch, setups>>
    BY <1>10 DEF SaveCodes
  <2>2. overwritten' = (overwritten \/ recovery # q.basis)
    BY <1>10 DEF SaveCodes
  <2>3. Redeems(q, setups)
    BY <1>1, <2>1 DEF RequestsHold, NoRequest
  <2>4. /\ CodeList(q.list, setups) /\ q.code \in HandedOut(setups)
           /\ q.code \in AllCodes
        /\ q.code \in ToSet(q.basis) /\ ToSet(q.list) = ToSet(q.basis) \ {q.code}
    BY <1>3, <2>1, <2>3 DEF Redeems
  <2> HIDE DEF q
  <2>5. CountersTyped' /\ StoredHolds'
    BY <1>1, <2>1, <2>4 DEF CountersTyped, StoredHolds
  <2>6. RequestsHold'
    <3>1. NoRequest \in Request
      BY <1>4
    <3>2. QED
      BY <1>1, <2>1, <3>1 DEF RequestsHold
  <2>7. UsedHolds'
    BY <1>1, <2>1, <2>4 DEF UsedHolds
  <2>8. ASSUME ~overwritten, recovery = q.basis
        PROVE  /\ \A c \in AllCodes : used'[c] <= 1
               /\ \A c \in ToSet(recovery') : Unused(c)'
    <3>1. /\ \A c \in AllCodes : used[c] <= 1
          /\ \A c \in ToSet(recovery) : Unused(c)
      BY <1>1, <2>8 DEF UnusedUnlessOverwritten
    <3>2. used[q.code] = 0
      BY <2>4, <2>8, <3>1 DEF Unused
    <3>3. \A c \in AllCodes : used'[c] = IF c = q.code THEN 1 ELSE used[c]
      BY <1>1, <2>1, <3>2 DEF UsedHolds
    <3>4. ToSet(recovery') = ToSet(recovery) \ {q.code}
      BY <2>1, <2>4, <2>8
    <3>5. ToSet(recovery) \subseteq AllCodes
      BY <1>1, <1>3 DEF StoredHolds
    <3>6. \A c \in AllCodes : used'[c] <= 1
      BY <3>1, <3>3
    <3>7. \A c \in ToSet(recovery') : Unused(c)'
      BY <2>1, <3>1, <3>3, <3>4, <3>5 DEF Unused
    <3>8. QED
      BY <3>6, <3>7
  <2>9. UnusedUnlessOverwritten'
    BY <2>2, <2>8 DEF UnusedUnlessOverwritten
  <2>10. QED
    BY <2>5, <2>6, <2>7, <2>9 DEF RecoveryInv
<1>11. QED
  BY <1>5, <1>6, <1>7, <1>8, <1>9, <1>10 DEF FactorNext

\* TOTP codes are accepted within the window, and a recovery code is accepted
\* once and by the set-up it belongs to, unless a save overwrote another.
THEOREM CodesAlwaysHonoured == FactorSpec => []CodesHonoured
<1>1. RecoveryInv => RecoveryOnce
  BY DEF RecoveryInv, UnusedUnlessOverwritten, Unused, RecoveryOnce
<1>2. RecoveryInv => DriftTolerated
  BY DriftAlwaysTolerated DEF RecoveryInv, CountersTyped
<1>3. RecoveryInv => CodesHonoured
  BY <1>1, <1>2 DEF CodesHonoured
<1>4. QED
  BY RecoveryInvInit, RecoveryInvStep, <1>3, PTL DEF FactorSpec

-----------------------------------------------------------------------------
(* WebAuthn: responses *)

\* What the authenticator has signed is about a challenge that was issued, and
\* raises its counter if it has one.
SignedOK ==
    /\ IsFiniteSet(responses)
    /\ \A r \in responses : /\ r.challenge \in 1..challenges
                               /\ r.count \in 0..MaxResponses
                            /\ r.type \in {"create", "get"}
                            /\ setup.counts => r.count > 0

StoresTyped ==
    /\ challenges \in 0..MaxChallenges /\ challenge \in 0..challenges
    /\ signCount \in {NoCredential} \cup 0..MaxResponses
    /\ accepted \subseteq responses /\ replayed \subseteq accepted

CallsTyped ==
    /\ ceremony \in [Ceremonies -> {"idle", "load", "challenge", "delete", "check",
                                    "save",
                                    "update"}]
    /\ response \in [Ceremonies -> responses \cup {NoResponse}]
    /\ kept \in [Ceremonies -> 0..challenges]
    /\ loaded \in [Ceremonies -> {NoCredential} \cup 0..MaxResponses]
    /\ found \in [Ceremonies -> 0..challenges]
    /\ before \in [Ceremonies -> SUBSET accepted]

\* A verification holds a response, and a challenge that it finds in the store
\* was not used before it began; once it goes on to compare it, the challenge
\* is no longer in the store.
ChallengeFor(c) ==
    /\ ceremony[c] # "idle" => response[c] \in responses
    /\ ceremony[c] \in {"idle", "load"} => found[c] = 0
    /\ ceremony[c] \in {"load", "update"} => response[c].type = "get"
    /\ ceremony[c] = "save" => response[c].type = "create"
    /\ ~setup.keeps =>
           /\ kept[c] = 0
           /\ found[c] # 0 => \A q \in before[c] : found[c] # q.challenge
           /\ ceremony[c] \in {"check", "save", "update"} =>
                  found[c] = 0 \/ challenge # found[c]
           /\ ceremony[c] \in {"save", "update"} => ChallengeMatches(c)

\* The count it has read is at least those accepted before it began.
CountFor(c) ==
    ~lowered =>
        /\ /\ setup.redis
           /\ ceremony[c] \in {"challenge", "delete", "check"}
           /\ response[c].type = "get"
           => \A q \in before[c] : loaded[c] >= q.count
        /\ ceremony[c] = "update" /\ setup.counts => response[c] \notin before[c]

\* What was accepted has used its challenge up, and has raised the count.
AcceptedOK ==
    /\ ~setup.keeps => \A r \in accepted : challenge # r.challenge
    /\ ~lowered => \A r \in accepted : signCount >= r.count

ResponseInv ==
    /\ SignedOK /\ StoresTyped /\ CallsTyped /\ AcceptedOK /\ ResponseOnce
    /\ \A c \in Ceremonies : ChallengeFor(c) /\ CountFor(c)

LEMMA WebAuthnConstants ==
    MaxChallenges \in Nat \ {0} /\ ChallengeTtl \in Nat \ {0}
    /\ MaxResponses \in Nat \ {0}
BY WebAuthnAssumption

\* Steps outside of the verifications.
LEMMA ResponseBeside ==
    ASSUME ResponseInv, CreateChallenge \/ Sign \/ ChallengeAges
    PROVE  ResponseInv'
<1> USE WebAuthnConstants
<1>1. /\ SignedOK /\ StoresTyped /\ CallsTyped /\ AcceptedOK /\ ResponseOnce
      /\ \A c \in Ceremonies : ChallengeFor(c) /\ CountFor(c)
  BY DEF ResponseInv
<1>2. UNCHANGED <<setup, signCount, calls, accepted, replayed, lowered>>
  BY DEF CreateChallenge, Sign, ChallengeAges, stores
<1>3. /\ challenges <= challenges' /\ challenges' \in 0..MaxChallenges
      /\ challenge' \in {0, challenge, challenges + 1} /\ challenge' \in 0..challenges'
  BY <1>1 DEF CreateChallenge, Sign, ChallengeAges, stores, StoresTyped
<1>4. SignedOK' /\ responses \subseteq responses'
  <2>1. CASE responses' = responses
    BY <1>1, <1>2, <1>3, <2>1 DEF SignedOK, StoresTyped
  <2>2. CASE Sign
    <3>1. PICK n \in 1..challenges, type \in {"create", "get"} :
              responses' = responses \cup
               {[challenge |-> n, type |-> type,
                 count |-> IF setup.counts THEN Cardinality(responses) + 1 ELSE 0]}
      BY <2>2 DEF Sign
    <3>2. Cardinality(responses) \in Nat
          /\ Cardinality(responses) + 1 \in 0..MaxResponses
      BY <1>1, <2>2, FS_CardinalityType DEF Sign, SignedOK
    <3>3. IsFiniteSet(responses')
      BY <1>1, <3>1, FS_AddElement DEF SignedOK
    <3>4. UNCHANGED <<setup, challenges>>
      BY <2>2 DEF Sign
    <3>5. \A r \in responses' : /\ r.challenge \in 1..challenges'
                                /\ r.count \in 0..MaxResponses
                                /\ r.type \in {"create", "get"}
      BY <1>1, <3>1, <3>2, <3>4 DEF SignedOK, StoresTyped
    <3>6. \A r \in responses' : setup'.counts => r.count > 0
      BY <1>1, <3>1, <3>2, <3>4 DEF SignedOK, StoresTyped
    <3>7. SignedOK'
      BY <3>3, <3>5, <3>6 DEF SignedOK
    <3>8. QED
      BY <3>1, <3>7
  <2>3. QED
    BY <2>1, <2>2 DEF CreateChallenge, ChallengeAges
<1>5. StoresTyped' /\ CallsTyped'
  BY <1>1, <1>2, <1>3, <1>4 DEF StoresTyped, CallsTyped, calls
<1>6. AcceptedOK'
  BY <1>1, <1>2, <1>3 DEF AcceptedOK, SignedOK, StoresTyped
<1>7. ResponseOnce'
  BY <1>1, <1>2 DEF ResponseOnce
<1>8. ASSUME NEW c \in Ceremonies
      PROVE  ChallengeFor(c)' /\ CountFor(c)'
  <2>1. CountFor(c)'
    BY <1>1, <1>2 DEF CountFor, calls
  <2>2. found[c] # 0 => challenge' = challenge \/ challenge' # found[c]
    BY <1>1, <1>3 DEF CallsTyped, StoresTyped
  <2>3. ChallengeMatches(c)' <=> ChallengeMatches(c)
    BY <1>2 DEF ChallengeMatches, calls
  <2>4. ChallengeFor(c)'
    BY <1>1, <1>2, <1>4, <2>2, <2>3 DEF ChallengeFor, calls
  <2>5. QED
    BY <2>1, <2>4
<1>9. QED
  BY <1>4, <1>5, <1>6, <1>7, <1>8 DEF ResponseInv

\* A verification leaves the others alone.
Others(c) ==
    \A d \in Ceremonies \ {c} :
        /\ ceremony'[d] = ceremony[d] /\ response'[d] = response[d]
           /\ kept'[d] = kept[d]
        /\ loaded'[d] = loaded[d] /\ found'[d] = found[d] /\ before'[d] = before[d]

\* What a verification does with its own variables, and with the shared ones,
\* is enough for the invariant.
LEMMA ResponseStep ==
    ASSUME ResponseInv, NEW c \in Ceremonies, Others(c), CallsTyped', StoresTyped',
           UNCHANGED <<setup, challenges, responses>>,
           challenge' \in {0, challenge}, accepted \subseteq accepted',
           lowered => lowered',
           AcceptedOK', ResponseOnce', ChallengeFor(c)', CountFor(c)'
    PROVE  ResponseInv'
<1>1. /\ SignedOK /\ StoresTyped /\ CallsTyped
      /\ \A d \in Ceremonies : ChallengeFor(d) /\ CountFor(d)
  BY DEF ResponseInv
<1>2. SignedOK'
  BY <1>1 DEF SignedOK
<1>3. ASSUME NEW d \in Ceremonies \ {c}
      PROVE  ChallengeFor(d)' /\ CountFor(d)'
  <2>1. /\ ceremony'[d] = ceremony[d] /\ response'[d] = response[d]
           /\ kept'[d] = kept[d]
        /\ loaded'[d] = loaded[d] /\ found'[d] = found[d] /\ before'[d] = before[d]
    BY <1>3 DEF Others
  <2>2. CountFor(d)'
    BY <1>1, <2>1 DEF CountFor
  <2>3. found[d] # 0 => challenge' = challenge \/ challenge' # found[d]
    OBVIOUS
  <2>4. ChallengeMatches(d)' <=> ChallengeMatches(d)
    BY <2>1 DEF ChallengeMatches
  <2>5. ChallengeFor(d)'
    BY <1>1, <2>1, <2>3, <2>4 DEF ChallengeFor
  <2>6. QED
    BY <2>2, <2>5
<1>4. QED
  BY <1>2, <1>3 DEF ResponseInv

\* A verification that ends owes nothing.
LEMMA ResponseEnds ==
    ASSUME ResponseInv, NEW c \in Ceremonies, EndsCeremony(c),
           accepted \subseteq accepted',
           UNCHANGED <<setup, challenges, responses>>
    PROVE  Others(c) /\ CallsTyped' /\ ChallengeFor(c)' /\ CountFor(c)'
<1>1. CallsTyped /\ StoresTyped
  BY DEF ResponseInv
<1>2. Others(c)
  BY DEF EndsCeremony, GoesTo, Others, ResponseInv, CallsTyped
<1>3. CallsTyped'
  BY <1>1 DEF CallsTyped, StoresTyped, EndsCeremony, GoesTo
<1>4. /\ ceremony'[c] = "idle" /\ kept'[c] = 0 /\ found'[c] = 0 /\ before'[c] = {}
  BY <1>1 DEF EndsCeremony, GoesTo, CallsTyped
<1>5. ChallengeFor(c)' /\ CountFor(c)'
  BY <1>4 DEF ChallengeFor, CountFor
<1>6. QED
  BY <1>2, <1>3, <1>5

LEMMA ResponseAccess ==
    ASSUME ResponseInv, NEW c \in Ceremonies,
           \/ \E r \in responses : Verify(c, r)
           \/ LoadCredential(c)
           \/ GetChallenge(c)
           \/ DeleteChallenge(c)
           \/ AbandonCeremony(c)
    PROVE  ResponseInv'
<1>1. /\ SignedOK /\ StoresTyped /\ CallsTyped /\ AcceptedOK /\ ResponseOnce
      /\ ChallengeFor(c) /\ CountFor(c)
  BY DEF ResponseInv
<1>2. UNCHANGED <<setup, challenges, responses, signCount, accepted, replayed, lowered>>
      /\ challenge' \in {0, challenge}
  BY DEF Verify, LoadCredential, GetChallenge, DeleteChallenge, AbandonCeremony, stores
<1>3. StoresTyped' /\ AcceptedOK' /\ ResponseOnce'
  <2>1. StoresTyped'
    BY <1>1, <1>2 DEF StoresTyped
  <2>2. AcceptedOK'
    BY <1>1, <1>2 DEF AcceptedOK, SignedOK, StoresTyped
  <2>3. ResponseOnce'
    BY <1>1, <1>2 DEF ResponseOnce
  <2>4. QED
    BY <2>1, <2>2, <2>3
<1>4. CASE EndsCeremony(c)
  BY <1>2, <1>3, <1>4, ResponseEnds, ResponseStep
<1>5. SUFFICES ASSUME ~EndsCeremony(c)
               PROVE  Others(c) /\ CallsTyped' /\ ChallengeFor(c)' /\ CountFor(c)'
  BY <1>2, <1>3, <1>4, ResponseStep
<1>6. ASSUME NEW r \in responses, Verify(c, r)
      PROVE  Others(c) /\ CallsTyped' /\ ChallengeFor(c)' /\ CountFor(c)'
  <2>1. Others(c)
    BY <1>1, <1>6 DEF Verify, At, GoesTo, Others, CallsTyped
  <2>2. CallsTyped'
    BY <1>1, <1>6 DEF Verify, At, GoesTo, CallsTyped, StoresTyped
  <2>3. /\ ceremony[c] = "idle" /\ response'[c] = r /\ before'[c] = accepted
        /\ kept'[c] = IF setup.keeps THEN challenges ELSE 0
        /\ ceremony'[c] = IF r.type = "create" THEN "challenge" ELSE "load"
        /\ found'[c] = found[c]
    BY <1>1, <1>6 DEF Verify, At, GoesTo, CallsTyped
  <2>4. found[c] = 0
    BY <1>1, <2>3 DEF ChallengeFor
  <2>5. r.type \in {"create", "get"}
    BY <1>1 DEF SignedOK
  <2>6. ChallengeFor(c)'
    BY <1>2, <2>3, <2>4, <2>5 DEF ChallengeFor
  <2>7. CountFor(c)'
    BY <1>2, <2>3, <2>5 DEF CountFor
  <2>8. QED
    BY <2>1, <2>2, <2>6, <2>7
<1>7. CASE LoadCredential(c)
  <2>1. /\ ceremony[c] = "load" /\ loaded' = [loaded EXCEPT ![c] = signCount]
        /\ ceremony' = [ceremony EXCEPT ![c] = "challenge"]
        /\ UNCHANGED <<response, kept, found, before>>
    BY <1>5, <1>7 DEF LoadCredential, At, GoesTo
  <2>2. Others(c) /\ CallsTyped'
    BY <1>1, <1>2, <2>1 DEF Others, CallsTyped, StoresTyped
  <2>3. ceremony'[c] = "challenge" /\ loaded'[c] = signCount
    BY <1>1, <2>1 DEF CallsTyped
  <2>4. ChallengeFor(c)'
    BY <1>1, <1>2, <2>1, <2>3 DEF ChallengeFor
  <2>5. CountFor(c)'
    BY <1>1, <1>2, <2>1, <2>3 DEF CountFor, AcceptedOK, CallsTyped
  <2>6. QED
    BY <2>2, <2>4, <2>5
<1>8. CASE GetChallenge(c)
  <2>1. /\ ceremony[c] = "challenge" /\ found' = [found EXCEPT ![c] = challenge]
        /\ ceremony' =
               [ceremony EXCEPT ![c] = IF challenge # 0 THEN "delete" ELSE "check"]
        /\ UNCHANGED <<response, kept, loaded, before, challenge>>
    BY <1>5, <1>8 DEF GetChallenge, At, GoesTo, stores
  <2>2. Others(c) /\ CallsTyped'
    BY <1>1, <1>2, <2>1 DEF Others, CallsTyped, StoresTyped
  <2>3. ceremony'[c] = (IF challenge # 0 THEN "delete" ELSE "check")
        /\ found'[c] = challenge
    BY <1>1, <2>1 DEF CallsTyped
  <2>4. ChallengeFor(c)'
    BY <1>1, <1>2, <2>1, <2>3 DEF ChallengeFor, AcceptedOK, CallsTyped
  <2>5. CountFor(c)'
    BY <1>1, <1>2, <2>1, <2>3 DEF CountFor
  <2>6. QED
    BY <2>2, <2>4, <2>5
<1>9. CASE DeleteChallenge(c)
  <2>1. /\ ceremony[c] = "delete" /\ challenge' = 0
        /\ ceremony' = [ceremony EXCEPT ![c] = "check"]
        /\ UNCHANGED <<response, kept, loaded, found, before>>
    BY <1>9 DEF DeleteChallenge, At, GoesTo
  <2>2. Others(c) /\ CallsTyped'
    BY <1>1, <1>2, <2>1 DEF Others, CallsTyped, StoresTyped
  <2>3. ceremony'[c] = "check"
    BY <1>1, <2>1 DEF CallsTyped
  <2>4. ChallengeFor(c)'
    BY <1>1, <1>2, <2>1, <2>3 DEF ChallengeFor
  <2>5. CountFor(c)'
    BY <1>1, <1>2, <2>1, <2>3 DEF CountFor
  <2>6. QED
    BY <2>2, <2>4, <2>5
<1>10. QED
  BY <1>5, <1>6, <1>7, <1>8, <1>9 DEF AbandonCeremony

LEMMA ResponseCheck ==
    ASSUME ResponseInv, NEW c \in Ceremonies, Check(c)
    PROVE  ResponseInv'
<1>1. /\ SignedOK /\ StoresTyped /\ CallsTyped /\ AcceptedOK /\ ResponseOnce
      /\ ChallengeFor(c) /\ CountFor(c) /\ NoCredential = -1
  BY DEF ResponseInv, NoCredential
<1>2. UNCHANGED <<setup, challenges, responses, challenge, accepted, replayed, lowered>>
      /\ ceremony[c] = "check"
  BY DEF Check, At
<1>3. ResponseOnce'
  BY <1>1, <1>2 DEF ResponseOnce
<1>4. CASE EndsCeremony(c) /\ UNCHANGED signCount
  <2>1. StoresTyped' /\ AcceptedOK'
    BY <1>1, <1>2, <1>4 DEF StoresTyped, AcceptedOK
  <2>2. QED
    BY <1>2, <1>3, <1>4, <2>1, ResponseEnds, ResponseStep
<1>5. CASE ~(EndsCeremony(c) /\ UNCHANGED signCount)
  <2>1. /\ ChallengeMatches(c) /\ (response[c].type = "get" => CountGrows(c))
        /\ ceremony' = [ceremony EXCEPT ![c] = IF response[c].type = "get" THEN "update"
                                               ELSE "save"]
        /\ signCount' = IF response[c].type = "get" /\ ~setup.redis
                        THEN response[c].count ELSE signCount
        /\ UNCHANGED <<response, kept, loaded, found, before>>
    BY <1>5 DEF Check, GoesTo
  <2>2. response[c] \in responses /\ response[c].count \in 0..MaxResponses
        /\ response[c].type \in {"create", "get"}
        /\ (setup.counts => response[c].count > 0)
    BY <1>1, <1>2 DEF ChallengeFor, SignedOK
  <2>3. signCount \in Int /\ signCount' \in {NoCredential} \cup 0..MaxResponses
        /\ loaded[c] \in Int
    BY <1>1, <2>1, <2>2, WebAuthnConstants DEF StoresTyped, CallsTyped
  <2>4. StoresTyped'
    BY <1>1, <1>2, <2>3 DEF StoresTyped
  <2>5. signCount <= signCount'
    BY <1>1, <2>1, <2>2, <2>3 DEF CountGrows, Known
  <2>6. AcceptedOK'
    <3>1. \A r \in accepted : r.count \in Int
      BY <1>1 DEF StoresTyped, SignedOK
    <3>2. ~setup'.keeps => \A r \in accepted' : challenge' # r.challenge
      BY <1>1, <1>2 DEF AcceptedOK
    <3>3. signCount' \in Int
      BY <2>3, WebAuthnConstants DEF NoCredential
    <3>4. ASSUME ~lowered', NEW r \in accepted'
          PROVE  signCount' >= r.count
      <4>1. signCount >= r.count /\ r.count \in Int
        BY <1>1, <1>2, <3>1, <3>4 DEF AcceptedOK
      <4>2. QED
        BY <2>3, <2>5, <3>3, <4>1
    <3>5. QED
      BY <3>2, <3>4 DEF AcceptedOK
  <2>7. Others(c) /\ CallsTyped'
    BY <1>1, <1>2, <2>1 DEF Others, CallsTyped
  <2>8. ceremony'[c] = IF response[c].type = "get" THEN "update" ELSE "save"
    BY <1>1, <2>1 DEF CallsTyped
  <2>9. ChallengeMatches(c)'
    BY <2>1 DEF ChallengeMatches
  <2>10. ChallengeFor(c)'
    BY <1>1, <1>2, <2>1, <2>2, <2>8, <2>9 DEF ChallengeFor
  <2>11. CountFor(c)'
    <3>1. ASSUME ~lowered, response[c].type = "get", setup.counts,
                 response[c] \in before[c]
          PROVE  FALSE
      <4>1. response[c].count > Known(c)
        BY <2>1, <2>2, <3>1 DEF CountGrows
      <4>2. CASE setup.redis
        <5>1. loaded[c] >= response[c].count
          BY <1>1, <1>2, <3>1, <4>2 DEF CountFor
        <5>2. QED
          BY <2>2, <2>3, <4>1, <4>2, <5>1 DEF Known
      <4>3. CASE ~setup.redis
        <5>1. signCount >= response[c].count
          BY <1>1, <3>1 DEF AcceptedOK, CallsTyped
        <5>2. QED
          BY <2>2, <2>3, <4>1, <4>3, <5>1 DEF Known
      <4>4. QED
        BY <4>2, <4>3
    <3>2. QED
      BY <1>2, <2>1, <2>8, <3>1 DEF CountFor
  <2>12. QED
    BY <1>2, <1>3, <2>4, <2>6, <2>7, <2>10, <2>11, ResponseStep
<1>6. QED
  BY <1>4, <1>5

LEMMA ResponseStore ==
    ASSUME ResponseInv, NEW c \in Ceremonies, Store(c)
    PROVE  ResponseInv'
<1> DEFINE r == response[c]
<1>1. /\ SignedOK /\ StoresTyped /\ CallsTyped /\ AcceptedOK /\ ResponseOnce
      /\ ChallengeFor(c) /\ CountFor(c)
  BY DEF ResponseInv
<1>2. /\ ceremony[c] \in {"save", "update"} /\ signCount' = r.count
      /\ lowered' = (lowered \/ r.count < signCount)
      /\ accepted' = accepted \cup {r}
      /\ replayed' = IF r \in before[c] THEN replayed \cup {r} ELSE replayed
      /\ EndsCeremony(c)
      /\ UNCHANGED <<setup, challenges, challenge, challengeTtl, responses>>
  BY DEF Store
<1>3. r \in responses /\ r.count \in 0..MaxResponses /\ r.challenge \in 1..challenges
      /\ (ceremony[c] = "update" => r.type = "get")
  BY <1>1, <1>2 DEF ChallengeFor, SignedOK
<1>4. before[c] \subseteq accepted
  BY <1>1 DEF CallsTyped
<1>5. StoresTyped'
  BY <1>1, <1>2, <1>3, <1>4, WebAuthnConstants DEF StoresTyped
<1>6. Others(c) /\ CallsTyped' /\ ChallengeFor(c)' /\ CountFor(c)'
  <2>1. accepted \subseteq accepted'
    BY <1>2
  <2>2. QED
    BY <1>2, <2>1, ResponseEnds
<1>7. lowered => lowered'
  BY <1>2
<1>8. ~setup.keeps => found[c] = r.challenge /\ challenge # r.challenge
  BY <1>1, <1>2, <1>3 DEF ChallengeFor, ChallengeMatches
<1>9. AcceptedOK'
  <2>1. ~setup'.keeps => \A q \in accepted' : challenge' # q.challenge
    BY <1>1, <1>2, <1>8 DEF AcceptedOK
  <2>2. ASSUME ~lowered', NEW q \in accepted'
        PROVE  signCount' >= q.count
    <3>1. ~lowered /\ ~(r.count < signCount)
      BY <1>2, <2>2
    <3>2. signCount \in Int /\ q.count \in Int
      BY <1>1, <1>2, <1>3 DEF StoresTyped, SignedOK, NoCredential
    <3>3. q = r \/ signCount >= q.count
      BY <1>1, <1>2, <3>1 DEF AcceptedOK
    <3>4. QED
      BY <1>2, <1>3, <3>1, <3>2, <3>3
  <2>3. QED
    BY <2>1, <2>2 DEF AcceptedOK
<1>10. ResponseOnce'
  <2>1. ASSUME r \in before[c]
        PROVE  setup.keeps /\ (r.type = "create" \/ lowered \/ ~setup.counts)
    <3>1. setup.keeps
      BY <1>1, <1>3, <1>8, <2>1 DEF ChallengeFor
    <3>2. CASE ceremony[c] = "update"
      BY <1>1, <2>1, <3>1, <3>2 DEF CountFor
    <3>3. CASE ceremony[c] = "save"
      BY <1>1, <3>1, <3>3 DEF ChallengeFor
    <3>4. QED
      BY <1>2, <3>2, <3>3
  <2>2. r.type \in {"create", "get"}
    BY <1>1, <1>3 DEF SignedOK
  <2>3. setup' = setup
    BY <1>2
  <2>4. QED
    BY <1>1, <1>2, <1>7, <2>1, <2>2, <2>3 DEF ResponseOnce
<1>11. QED
  BY <1>2, <1>5, <1>6, <1>7, <1>9, <1>10, ResponseStep

LEMMA ResponseInvInit == WebAuthnInit => ResponseInv
<1> SUFFICES ASSUME WebAuthnInit PROVE ResponseInv
  OBVIOUS
<1>1. SignedOK
  BY FS_EmptySet DEF WebAuthnInit, SignedOK
<1>2. StoresTyped /\ CallsTyped /\ AcceptedOK /\ ResponseOnce
  BY WebAuthnConstants
  DEF WebAuthnInit, StoresTyped, CallsTyped, AcceptedOK, ResponseOnce
<1>3. \A c \in Ceremonies : ChallengeFor(c) /\ CountFor(c)
  BY DEF WebAuthnInit, ChallengeFor, CountFor
<1>4. QED
  BY <1>1, <1>2, <1>3 DEF ResponseInv

\* A step keeps it.
LEMMA ResponseInvStep == ResponseInv /\ [WebAuthnNext]_webAuthnVars => ResponseInv'
<1>1. ASSUME ResponseInv, UNCHANGED webAuthnVars
      PROVE  ResponseInv'
  BY <1>1 DEF webAuthnVars, stores, calls, ResponseInv, SignedOK, StoresTyped,
              CallsTyped,
     AcceptedOK, ResponseOnce, ChallengeFor, ChallengeMatches, CountFor
<1>2. QED
  BY <1>1, ResponseBeside, ResponseAccess, ResponseCheck, ResponseStore
     DEF WebAuthnNext

\* No response is honoured twice: a verification that begins after it was
\* accepted refuses it, by its challenge, which is used up, or by its count.
THEOREM ResponsesHonouredOnce == WebAuthnSpec => []ResponseOnce
<1>1. ResponseInv => ResponseOnce
  BY DEF ResponseInv
<1>2. QED
  BY <1>1, ResponseInvInit, ResponseInvStep, PTL DEF WebAuthnSpec

-----------------------------------------------------------------------------
(* Both second factors *)

\* Whatever the user shows besides the password is honoured as its owner would
\* wish.
THEOREM FactorsAlwaysHonoured ==
    FactorSpec /\ WebAuthnSpec => []FactorsHonoured
BY CodesAlwaysHonoured, ResponsesHonouredOnce, PTL DEF FactorsHonoured

-----------------------------------------------------------------------------
(* The role engine *)

\* The least set of roles that has the role r and, with every role, those it
\* inherits from outside the set V.
Reached(i, V, r) ==
    {a \in Roles :
        \A C \in SUBSET Roles :
            r \in C /\ (\A q \in C : Parents(i, q) \ V \subseteq C) => a \in C}

\* What the walk from a role finds, with the roles in V behind it.
Gathered(d, i, V, r) ==
    IF r \in V THEN {} ELSE UNION {Direct(d, a) : a \in Reached(i, V, r)}

ParentsTyped(i) == \A r \in Roles : Parents(i, r) \subseteq Roles

\* The roles that are reached are closed under inheritance.
LEMMA ReachedCloses ==
    ASSUME NEW i, NEW V \in SUBSET Roles, NEW r \in Roles, ParentsTyped(i)
    PROVE  /\ Reached(i, V, r) \in SUBSET Roles /\ r \in Reached(i, V, r)
           /\ \A q \in Reached(i, V, r) : Parents(i, q) \ V \subseteq Reached(i, V, r)
<1>1. Reached(i, V, r) \in SUBSET Roles /\ r \in Reached(i, V, r)
  BY DEF Reached
<1>2. ASSUME NEW q \in Reached(i, V, r), NEW p \in Parents(i, q) \ V
      PROVE  p \in Reached(i, V, r)
  <2>1. q \in Roles /\ p \in Roles
    BY <1>1, <1>2 DEF ParentsTyped
  <2>2. ASSUME NEW C \in SUBSET Roles, r \in C,
               \A s \in C : Parents(i, s) \ V \subseteq C
        PROVE  p \in C
    <3>1. q \in C
      BY <2>2 DEF Reached
    <3>2. QED
      BY <1>2, <2>2, <3>1
  <2>3. QED
    BY <2>1, <2>2 DEF Reached
<1>3. QED
  BY <1>1, <1>2

\* No closed set is smaller.
LEMMA ReachedLeast ==
    ASSUME NEW i, NEW V, NEW r, NEW C \in SUBSET Roles, r \in C,
           \A q \in C : Parents(i, q) \ V \subseteq C
    PROVE  Reached(i, V, r) \subseteq C
BY DEF Reached

\* One step of the walk: the roles reached from r are r itself and those
\* reached from its parents without passing r again.
LEMMA OneStep ==
    ASSUME NEW i, NEW V \in SUBSET Roles, NEW r \in Roles \ V, ParentsTyped(i)
    PROVE  Reached(i, V, r) =
               {r} \cup UNION {Reached(i, V \cup {r}, p) :
                                   p \in Parents(i, r) \ (V \cup {r})}
<1> DEFINE W == V \cup {r}
           C == {r} \cup UNION {Reached(i, W, p) : p \in Parents(i, r) \ W}
<1>1. W \in SUBSET Roles /\ Parents(i, r) \subseteq Roles
  BY DEF ParentsTyped
<1>2. \A p \in Parents(i, r) \ W :
          /\ Reached(i, W, p) \in SUBSET Roles /\ p \in Reached(i, W, p)
          /\ \A q \in Reached(i, W, p) : Parents(i, q) \ W \subseteq Reached(i, W, p)
  BY <1>1, ReachedCloses
<1>3. Reached(i, V, r) \subseteq C
  <2>1. C \in SUBSET Roles /\ r \in C
    BY <1>2
  <2>2. ASSUME NEW q \in C, NEW s \in Parents(i, q) \ V PROVE s \in C
    <3>1. CASE s = r
      BY <3>1
    <3>2. CASE s # r /\ q = r
      <4>1. s \in Parents(i, r) \ W
        BY <2>2, <3>2
      <4>2. QED
        BY <1>2, <4>1
    <3>3. CASE s # r /\ q # r
      <4>1. PICK p \in Parents(i, r) \ W : q \in Reached(i, W, p)
        BY <2>2, <3>3
      <4>2. s \in Reached(i, W, p)
        BY <1>2, <2>2, <3>3, <4>1
      <4>3. QED
        BY <4>1, <4>2
    <3>4. QED
      BY <3>1, <3>2, <3>3
  <2> HIDE DEF C
  <2>3. QED
    BY <2>1, <2>2, ReachedLeast
<1>4. C \subseteq Reached(i, V, r)
  <2>1. /\ r \in Reached(i, V, r) /\ Reached(i, V, r) \in SUBSET Roles
        /\ \A q \in Reached(i, V, r) : Parents(i, q) \ V \subseteq Reached(i, V, r)
    BY ReachedCloses
  <2>2. ASSUME NEW p \in Parents(i, r) \ W
        PROVE  Reached(i, W, p) \subseteq Reached(i, V, r)
    <3>1. p \in Reached(i, V, r)
      BY <2>1, <2>2
    <3>2. \A q \in Reached(i, V, r) : Parents(i, q) \ W \subseteq Reached(i, V, r)
      BY <2>1
    <3> DEFINE D == Reached(i, V, r)
    <3> HIDE DEF D, W
    <3>3. QED
      BY <2>1, <3>1, <3>2, ReachedLeast DEF D
  <2>3. QED
    BY <2>1, <2>2
<1>5. QED
  BY <1>3, <1>4

\* What _expand() does in one call.
Walks(d, i, f) ==
    f = [visited \in SUBSET Roles |->
            [r \in Roles |->
                 IF r \in visited THEN {}
                 ELSE Direct(d, r) \cup
                      UNION {f[visited \cup {r}][p] : p \in Parents(i, r)}]]

\* The walk exists, and finds what it should.
LEMMA WalkExists ==
    ASSUME NEW d, NEW i, ParentsTyped(i)
    PROVE  Walks(d, i,
                 [V \in SUBSET Roles |-> [r \in Roles |-> Gathered(d, i, V, r)]])
<1> DEFINE f == [V \in SUBSET Roles |-> [r \in Roles |-> Gathered(d, i, V, r)]]
<1>1. ASSUME NEW V \in SUBSET Roles, NEW r \in Roles
      PROVE  f[V][r] = IF r \in V THEN {}
                       ELSE Direct(d, r) \cup
                            UNION {f[V \cup {r}][p] : p \in Parents(i, r)}
  <2>1. CASE r \in V
    BY <2>1 DEF Gathered
  <2>2. CASE r \notin V
    <3> DEFINE W == V \cup {r}
    <3>1. W \in SUBSET Roles /\ Parents(i, r) \subseteq Roles
      BY DEF ParentsTyped
    <3>2. \A p \in Parents(i, r) : f[W][p] = Gathered(d, i, W, p)
      BY <3>1
    <3>3. f[V][r] = UNION {Direct(d, a) : a \in Reached(i, V, r)}
      BY <2>2 DEF Gathered
    <3>4. Reached(i, V, r) =
              {r} \cup UNION {Reached(i, W, p) : p \in Parents(i, r) \ W}
      BY <2>2, OneStep
    <3> HIDE DEF f, W
    <3>5. UNION {Direct(d, a) : a \in Reached(i, V, r)} =
              Direct(d, r) \cup UNION {Gathered(d, i, W, p) : p \in Parents(i, r)}
      BY <3>4 DEF Gathered
    <3>6. UNION {f[W][p] : p \in Parents(i, r)} =
              UNION {Gathered(d, i, W, p) : p \in Parents(i, r)}
      BY <3>2
    <3>7. QED
      BY <2>2, <3>3, <3>5, <3>6 DEF W
  <2>3. QED
    BY <2>1, <2>2
<1>2. ASSUME NEW V \in SUBSET Roles
      PROVE  f[V] = [r \in Roles |->
                        IF r \in V THEN {}
                        ELSE Direct(d, r) \cup
                             UNION {f[V \cup {r}][p] : p \in Parents(i, r)}]
  <2> DEFINE F(r) == IF r \in V THEN {}
                     ELSE Direct(d, r) \cup
                          UNION {f[V \cup {r}][p] : p \in Parents(i, r)}
  <2>1. f[V] = [r \in Roles |-> f[V][r]]
    OBVIOUS
  <2> HIDE DEF f
  <2>2. \A r \in Roles : f[V][r] = F(r)
    BY <1>1
  <2> HIDE DEF F
  <2>3. f[V] = [r \in Roles |-> F(r)]
    BY <2>1, <2>2
  <2>4. QED
    BY <2>3 DEF F
<1>3. f = [V \in SUBSET Roles |-> f[V]]
  OBVIOUS
<1> HIDE DEF f
<1>4. f = [V \in SUBSET Roles |->
             [r \in Roles |->
                 IF r \in V THEN {}
                 ELSE Direct(d, r) \cup
                      UNION {f[V \cup {r}][p] : p \in Parents(i, r)}]]
  BY <1>2, <1>3
<1>5. Walks(d, i, f)
  BY <1>4 DEF Walks
<1>6. QED
  BY <1>5 DEF f

\* Nothing else does the same: of the places where two walks differ, one has
\* the most roles behind it.
LEMMA WalkUnique ==
    ASSUME NEW d, NEW i, ParentsTyped(i), NEW f, Walks(d, i, f), NEW g, Walks(d, i, g)
    PROVE  f = g
<1> DEFINE Ahead(V) == Cardinality(Roles \ V)
           Bad == {V \in SUBSET Roles : f[V] # g[V]}
           Sizes == {Ahead(V) : V \in Bad}
<1>1. /\ f = [V \in SUBSET Roles |-> f[V]] /\ g = [V \in SUBSET Roles |-> g[V]]
  BY DEF Walks
<1>2. \A V \in SUBSET Roles :
          /\ IsFiniteSet(Roles \ V) /\ Ahead(V) \in Nat
          /\ \A r \in Roles \ V : Ahead(V \cup {r}) = Ahead(V) - 1
  <2> TAKE V \in SUBSET Roles
  <2>1. IsFiniteSet(Roles \ V) /\ Ahead(V) \in Nat
    BY RbacAssumption, FS_Subset, FS_CardinalityType
  <2>2. ASSUME NEW r \in Roles \ V
        PROVE  Ahead(V \cup {r}) = Ahead(V) - 1
    <3> DEFINE S == Roles \ V
    <3>1. Roles \ (V \cup {r}) = S \ {r}
      OBVIOUS
    <3>2. IsFiniteSet(S) /\ r \in S
      BY <2>1
    <3> HIDE DEF S
    <3>3. Cardinality(S \ {r}) = Cardinality(S) - 1
      BY ONLY <3>2, FS_RemoveElement
    <3>4. QED
      BY <3>1, <3>3 DEF S
  <2>3. QED
    BY <2>1, <2>2
<1>3. Bad = {}
  <2> SUFFICES ASSUME Bad # {} PROVE FALSE
    OBVIOUS
  <2>1. Sizes \in SUBSET Nat /\ Sizes # {}
    BY <1>2
  <2> HIDE DEF Sizes
  <2>2. PICK least \in Sizes : \A n \in Sizes : least <= n
    BY <2>1, LeastNumber
  <2> USE DEF Sizes
  <2>3. PICK V \in Bad : least = Ahead(V)
    OBVIOUS
  <2>4. \A r \in Roles \ V : f[V \cup {r}] = g[V \cup {r}]
    <3> SUFFICES ASSUME NEW r \in Roles \ V, V \cup {r} \in Bad PROVE FALSE
      OBVIOUS
    <3>1. Ahead(V \cup {r}) \in Sizes /\ Ahead(V \cup {r}) = Ahead(V) - 1
          /\ Ahead(V) \in Nat
      BY <1>2
    <3> HIDE DEF Sizes, Ahead
    <3>2. least <= Ahead(V \cup {r})
      BY <2>2, <3>1
    <3>3. QED
      BY ONLY <2>3, <3>1, <3>2
  <2> HIDE DEF Sizes, Bad
  <2>5. V \in SUBSET Roles /\ f[V] # g[V]
    BY <2>3 DEF Bad
  <2>6. /\ f[V] = [r \in Roles |->
                      IF r \in V THEN {}
                      ELSE Direct(d, r) \cup
                           UNION {f[V \cup {r}][p] : p \in Parents(i, r)}]
        /\ g[V] = [r \in Roles |->
                      IF r \in V THEN {}
                      ELSE Direct(d, r) \cup
                           UNION {g[V \cup {r}][p] : p \in Parents(i, r)}]
    BY <2>5 DEF Walks
  <2> DEFINE F(r) == IF r \in V THEN {}
                     ELSE Direct(d, r) \cup
                          UNION {f[V \cup {r}][p] : p \in Parents(i, r)}
             G(r) == IF r \in V THEN {}
                     ELSE Direct(d, r) \cup
                          UNION {g[V \cup {r}][p] : p \in Parents(i, r)}
  <2>7. f[V] = [r \in Roles |-> F(r)] /\ g[V] = [r \in Roles |-> G(r)]
    BY <2>6
  <2>8. \A r \in Roles : F(r) = G(r)
    <3> TAKE r \in Roles
    <3>1. CASE r \in V
      BY <3>1
    <3>2. CASE r \notin V
      BY <2>4, <3>2
    <3>3. QED
      BY <3>1, <3>2
  <2> HIDE DEF F, G
  <2>9. QED
    BY <2>5, <2>7, <2>8
<1>4. QED
  BY <1>1, <1>3

\* The walk of _expand() finds exactly what the hierarchy entitles a role to.
LEMMA ExpandIsEntitled ==
    ASSUME NEW d, NEW i, NEW name \in Roles, ParentsTyped(i)
    PROVE  Expand(d, i, name) = Entitled(d, i, name)
<1> DEFINE g == CHOOSE f : Walks(d, i, f)
           h == [V \in SUBSET Roles |-> [r \in Roles |-> Gathered(d, i, V, r)]]
<1>1. Walks(d, i, h)
  BY WalkExists
<1>2. Walks(d, i, g)
  <2>1. \E f : Walks(d, i, f)
    BY <1>1
  <2>2. QED
    BY <2>1
<1>3. Expand(d, i, name) = g[{}][name]
  BY DEF Expand, Walks
<1>4. g = h
  <2> HIDE DEF g, h
  <2>1. QED
    BY <1>1, <1>2, WalkUnique
<1>5. h[{}][name] = UNION {Direct(d, a) : a \in Reached(i, {}, name)}
  BY DEF Gathered
<1>6. Reached(i, {}, name) = Ancestors(i, name)
  BY DEF Reached, Ancestors
<1>7. QED
  BY <1>3, <1>4, <1>5, <1>6 DEF Entitled

-----------------------------------------------------------------------------
(* The caches of the engine *)

\* The inductive invariant: a cache that is not out of date is exact.
RbacInv ==
    /\ RbacTypeOK
    /\ inherits \in [Defined -> Seq(Roles)]
    /\ \A r \in Defined \ outdated : expanded[r] = Entitled(direct, inherits, r)

LEMMA ParentsInRoles ==
    ASSUME NEW D \in SUBSET Roles, NEW i \in [D -> Seq(Roles)]
    PROVE  ParentsTyped(i)
<1>1. \A r \in D : ToSet(i[r]) \subseteq Roles
  BY DEF ToSet
<1>2. QED
  BY <1>1 DEF ParentsTyped, Parents

LEMMA EntitledTyped ==
    ASSUME NEW D \in SUBSET Roles, NEW d \in [D -> SUBSET Grants], NEW i, NEW r
    PROVE  Entitled(d, i, r) \in SUBSET Grants
BY DEF Entitled, Direct

\* Taking a role out of a list of parents.
LEMMA RemovedTyped ==
    ASSUME NEW list \in Seq(Roles), NEW name
    PROVE  Removed(list, name) \in Seq(Roles)
<1> DEFINE Positions == {k \in 1..Len(list) : list[k] = name}
<1>1. CASE name \in ToSet(list)
  <2>1. Removed(list, name) = RemoveAt(list, Min(Positions))
    <3>1. Positions # {}
      BY <1>1 DEF ToSet
    <3>2. QED
      BY <1>1, <3>1 DEF Removed, RemoveFirst, SelectInSeq
  <2>2. Min(Positions) \in 1..Len(list)
    <3>1. Positions # {} /\ Positions \in SUBSET Nat
      BY <1>1 DEF ToSet
    <3> HIDE DEF Positions
    <3>2. PICK least \in Positions : \A n \in Positions : least <= n
      BY <3>1, LeastNumber
    <3>3. Min(Positions) \in Positions
      BY <3>2 DEF Min
    <3>4. QED
      BY <3>3 DEF Positions
  <2>3. RemoveAt(list, Min(Positions)) = WithoutAt(list, Min(Positions))
    BY DEF RemoveAt, WithoutAt
  <2> HIDE DEF Positions
  <2>4. QED
    BY <2>1, <2>2, <2>3, RemovedOne
<1>2. CASE name \notin ToSet(list)
  BY <1>2 DEF Removed
<1>3. QED
  BY <1>1, <1>2

LEMMA RbacInvInit == RbacInit => RbacInv
<1> SUFFICES ASSUME RbacInit PROVE RbacInv
  OBVIOUS
<1>1. Defined = {} /\ direct = <<>> /\ inherits = <<>> /\ expanded = <<>>
      /\ changes = 0 /\ outdated = {}
  BY DEF RbacInit, Defined
<1>2. RbacTypeOK
  BY <1>1, RbacAssumption DEF RbacTypeOK
<1>3. QED
  BY <1>1, <1>2 DEF RbacInv

\* The entitlement of a role does not change with one that it does not reach.
LEMMA EntitlementKept ==
    ASSUME NEW d, NEW i, NEW dd, NEW ii, NEW name, NEW r \in Roles,
           ParentsTyped(i), ParentsTyped(ii), name \notin Ancestors(i, r),
           \A q \in Roles \ {name} : /\ Parents(ii, q) = Parents(i, q)
                                     /\ Direct(dd, q) = Direct(d, q)
    PROVE  Entitled(dd, ii, r) = Entitled(d, i, r)
<1>1. /\ Ancestors(i, r) = Reached(i, {}, r) /\ Ancestors(ii, r) = Reached(ii, {}, r)
  BY DEF Ancestors, Reached
<1>2. /\ Ancestors(i, r) \in SUBSET Roles /\ r \in Ancestors(i, r)
      /\ \A q \in Ancestors(i, r) : Parents(i, q) \subseteq Ancestors(i, r)
      /\ Ancestors(ii, r) \in SUBSET Roles /\ r \in Ancestors(ii, r)
      /\ \A q \in Ancestors(ii, r) : Parents(ii, q) \subseteq Ancestors(ii, r)
  <2>1. /\ Reached(i, {}, r) \in SUBSET Roles /\ r \in Reached(i, {}, r)
        /\ \A q \in Reached(i, {}, r) : Parents(i, q) \ {} \subseteq Reached(i, {}, r)
    BY ReachedCloses
  <2>2. /\ Reached(ii, {}, r) \in SUBSET Roles /\ r \in Reached(ii, {}, r)
        /\ \A q \in Reached(ii, {}, r) :
               Parents(ii, q) \ {} \subseteq Reached(ii, {}, r)
    BY ReachedCloses
  <2>3. QED
    BY <1>1, <2>1, <2>2
<1>3. Ancestors(ii, r) \subseteq Ancestors(i, r)
  <2>1. \A q \in Ancestors(i, r) : Parents(ii, q) \subseteq Ancestors(i, r)
    BY <1>2
  <2>2. QED
    BY <1>2, <2>1 DEF Ancestors
<1>4. Ancestors(i, r) \subseteq Ancestors(ii, r)
  <2> DEFINE C == Ancestors(ii, r)
  <2>1. \A q \in C : Parents(i, q) \subseteq C
    BY <1>2, <1>3
  <2>2. C \in SUBSET Roles /\ r \in C
    BY <1>2
  <2> HIDE DEF C
  <2>3. Ancestors(i, r) \subseteq C
    BY <2>1, <2>2 DEF Ancestors
  <2>4. QED
    BY <2>3 DEF C
<1>5. Ancestors(i, r) = Ancestors(ii, r)
  BY <1>3, <1>4
<1>6. \A a \in Ancestors(i, r) : Direct(dd, a) = Direct(d, a)
  BY <1>2
<1>7. QED
  BY <1>5, <1>6 DEF Entitled

LEMMA AddRoleKeeps ==
    ASSUME RbacInv, NEW name \in Roles, NEW permissions \in SUBSET Grants,
           NEW parents \in Seq(Roles), AddRole(name, permissions, parents)
    PROVE  RbacInv'
<1> DEFINE D == Defined \cup {name}
           d == [r \in D |-> IF r = name THEN permissions ELSE direct[r]]
           i == [r \in D |-> IF r = name THEN parents ELSE inherits[r]]
           refreshed ==
               [r \in D |-> IF r = name THEN Expand(d, i, name) ELSE expanded[r]]
           heirs == {r \in Defined : name \in Ancestors(inherits, r)}
<1>1. /\ changes < MaxChanges /\ changes' = changes + 1
      /\ direct' = d /\ inherits' = i /\ expanded' = refreshed
      /\ outdated' = (outdated \cup heirs) \ {name}
  BY DEF AddRole
<1>2. /\ Defined \in SUBSET Roles /\ direct \in [Defined -> SUBSET Grants]
      /\ inherits \in [Defined -> Seq(Roles)]
      /\ expanded \in [Defined -> SUBSET Grants]
      /\ changes \in 0..MaxChanges /\ outdated \in SUBSET Defined
      /\ \A r \in Defined \ outdated : expanded[r] = Entitled(direct, inherits, r)
  BY DEF RbacInv, RbacTypeOK
<1>3. D \in SUBSET Roles /\ d \in [D -> SUBSET Grants] /\ i \in [D -> Seq(Roles)]
  BY <1>2
<1>4. ParentsTyped(i) /\ ParentsTyped(inherits)
  <2> HIDE DEF D, d, i
  <2>1. QED
    BY <1>2, <1>3, ParentsInRoles
<1>5. refreshed[name] = Entitled(d, i, name)
  <2> HIDE DEF d, i
  <2>1. QED
    BY <1>4, ExpandIsEntitled
<1>6. ASSUME NEW r \in D \ outdated', r # name
      PROVE  refreshed[r] = Entitled(d, i, r)
  <2>1. r \in Defined \ outdated /\ name \notin Ancestors(inherits, r) /\ r \in Roles
    BY <1>1, <1>2, <1>6
  <2>2. \A q \in Roles \ {name} : /\ Parents(i, q) = Parents(inherits, q)
                                  /\ Direct(d, q) = Direct(direct, q)
    BY <1>2, <1>3 DEF Parents, Direct
  <2>3. refreshed[r] = expanded[r]
    BY <1>6
  <2>4. Entitled(d, i, r) = Entitled(direct, inherits, r)
    <3> HIDE DEF D, d, i
    <3>1. QED
      BY <1>4, <2>1, <2>2, EntitlementKept
  <2> HIDE DEF D, d, i, refreshed
  <2>5. QED
    BY <1>2, <2>1, <2>3, <2>4
<1>7. Entitled(d, i, name) \in SUBSET Grants
  <2> HIDE DEF D, d, i
  <2>1. QED
    BY <1>3, EntitledTyped
<1>8. refreshed \in [D -> SUBSET Grants]
  <2>1. \A r \in D : refreshed[r] \in SUBSET Grants
    BY <1>2, <1>5, <1>7
  <2>2. QED
    BY <2>1
<1>9. Defined' = D
  BY <1>1 DEF Defined
<1>10. outdated' \in SUBSET D /\ changes' \in 0..MaxChanges
  BY <1>1, <1>2, RbacAssumption
<1> HIDE DEF D, d, i, refreshed, heirs
<1>11. \A r \in D : ToSet(i[r]) \subseteq Roles /\ i[r] \in Seq(Roles)
  BY <1>3 DEF ToSet
<1>12. RbacTypeOK'
  BY <1>1, <1>3, <1>8, <1>9, <1>10, <1>11 DEF RbacTypeOK
<1>13. \A r \in D \ outdated' : expanded'[r] = Entitled(d, i, r)
  BY <1>1, <1>5, <1>6
<1>14. QED
  BY <1>1, <1>3, <1>9, <1>12, <1>13 DEF RbacInv

LEMMA RemoveRoleKeeps ==
    ASSUME RbacInv, NEW name \in Roles, RemoveRole(name)
    PROVE  RbacInv'
<1> DEFINE left == Defined \ {name}
           d == [r \in left |-> direct[r]]
           i == [r \in left |-> Removed(inherits[r], name)]
<1>1. /\ changes < MaxChanges /\ changes' = changes + 1
      /\ direct' = d /\ inherits' = i /\ outdated' = {}
      /\ expanded' = [r \in left |-> Expand(d, i, r)]
  BY DEF RemoveRole, Reexpands
<1>2. /\ Defined \in SUBSET Roles /\ direct \in [Defined -> SUBSET Grants]
      /\ inherits \in [Defined -> Seq(Roles)]
      /\ changes \in 0..MaxChanges
  BY DEF RbacInv, RbacTypeOK
<1>3. left \in SUBSET Roles /\ d \in [left -> SUBSET Grants]
  BY <1>2
<1>4. i \in [left -> Seq(Roles)]
  BY <1>2, RemovedTyped
<1>5. Defined' = left
  BY <1>1 DEF Defined
<1> HIDE DEF left, d, i
<1>6. ParentsTyped(i)
  BY <1>3, <1>4, ParentsInRoles
<1>7. \A r \in left : Expand(d, i, r) = Entitled(d, i, r)
  BY <1>3, <1>6, ExpandIsEntitled
<1>8. \A r \in left : Entitled(d, i, r) \in SUBSET Grants
  BY <1>3, EntitledTyped
<1>9. \A r \in left : ToSet(i[r]) \subseteq Roles /\ i[r] \in Seq(Roles)
  BY <1>4 DEF ToSet
<1>10. expanded' \in [left -> SUBSET Grants]
  BY <1>1, <1>7, <1>8
<1>11. changes' \in 0..MaxChanges
  BY <1>1, <1>2, RbacAssumption
<1>12. RbacTypeOK'
  BY <1>1, <1>3, <1>4, <1>5, <1>9, <1>10, <1>11 DEF RbacTypeOK
<1>13. \A r \in left : expanded'[r] = Entitled(d, i, r)
  BY <1>1, <1>7
<1>14. QED
  BY <1>1, <1>4, <1>5, <1>12, <1>13 DEF RbacInv

LEMMA RbacInvStep == RbacInv /\ [RbacNext]_rbacVars => RbacInv'
<1> SUFFICES ASSUME RbacInv, [RbacNext]_rbacVars PROVE RbacInv'
  OBVIOUS
<1>1. CASE UNCHANGED rbacVars
  BY <1>1 DEF rbacVars, RbacInv, RbacTypeOK, Defined
<1>2. ASSUME NEW r \in Roles, NEW g \in SUBSET Grants,
             NEW parents \in BoundedSeq(Roles, MaxParents), AddRole(r, g, parents)
      PROVE  RbacInv'
  <2>1. parents \in Seq(Roles)
    BY <1>2, RbacAssumption DEF BoundedSeq, SeqOf
  <2>2. QED
    BY <1>2, <2>1, AddRoleKeeps
<1>3. QED
  BY <1>1, <1>2, RemoveRoleKeeps DEF RbacNext

\* A user is granted exactly what the hierarchy of the moment entitles the roles
\* to, through every order of definitions and removals (RBACEngine._expand(),
\* add_role(), remove_role(), has_permission()), but for the heirs of a role that
\* was defined after them.
THEOREM RolesGrantedExactly == RbacSpec => []GrantedIffEntitled
<1>1. ASSUME RbacInv PROVE GrantedIffEntitled
  <2> SUFFICES ASSUME NEW roles \in SUBSET (Roles \ outdated)
               PROVE  LET held == UNION {Entitled(direct, inherits, r) :
                                             r \in roles \intersect Defined}
                          entitled == {p \in Permissions :
                                          {p, Superuser, <<p[1], "*">>}
                                              \intersect held # {}} IN
                      \A ps \in SUBSET Permissions :
                          /\ HasAnyPermission(roles, ps) <=>
                                 ps \intersect entitled # {}
                          /\ HasAllPermissions(roles, ps) <=> ps \subseteq entitled
    BY DEF GrantedIffEntitled
  <2> DEFINE held == UNION {Entitled(direct, inherits, r) :
                                r \in roles \intersect Defined}
             entitled == {p \in Permissions :
                             {p, Superuser, <<p[1], "*">>} \intersect held # {}}
  <2>1. \A r \in roles \intersect Defined :
            expanded[r] = Entitled(direct, inherits, r)
    BY <1>1 DEF RbacInv
  <2>2. ASSUME NEW p \in Permissions
        PROVE  HasPermission(roles, p) <=> p \in entitled
    <3>1. HasPermission(roles, p) <=>
              \E r \in roles \intersect Defined :
                  {p, Superuser, <<p[1], "*">>}
                      \intersect Entitled(direct, inherits, r) # {}
      BY <2>1 DEF HasPermission, Match
    <3>2. QED
      BY <3>1
  <2> HIDE DEF entitled
  <2>3. QED
    BY <2>2 DEF HasAnyPermission, HasAllPermissions, entitled
<1>2. QED
  BY <1>1, RbacInvInit, RbacInvStep, PTL DEF RbacSpec

-----------------------------------------------------------------------------
(* The limits of a query *)

\* A step from function to function in which each value depends on those before.
AgreeBelow(f, g, n) == \A m \in 0 .. n - 1 : f[m] = g[m]

Progresses(step, N, V) ==
    /\ step \in [[0 .. N -> V] -> [0 .. N -> V]]
    /\ \A f, g \in [0 .. N -> V] : \A n \in 0 .. N :
           AgreeBelow(f, g, n) => step[f][n] = step[g][n]

HasFixedPoint(step, N, V) == \E f \in [0 .. N -> V] : step[f] = f

\* Such a step has a fixed point: the function that recursion defines exists.
LEMMA CourseOfValues ==
    ASSUME NEW N \in Nat, NEW V, V # {}, NEW step, Progresses(step, N, V)
    PROVE  HasFixedPoint(step, N, V)
<1> DEFINE Fixed(f, k) == \A n \in 0 .. k - 1 : step[f][n] = f[n]
           Good(k) == \E f \in [0 .. N -> V] : Fixed(f, k)
           Bad == {k \in 0 .. N + 1 : ~Good(k)}
<1>1. /\ step \in [[0 .. N -> V] -> [0 .. N -> V]]
      /\ \A f, g \in [0 .. N -> V] : \A n \in 0 .. N :
             AgreeBelow(f, g, n) => step[f][n] = step[g][n]
  BY DEF Progresses
<1>2. Good(0)
  <2> PICK v \in V : TRUE
    OBVIOUS
  <2> DEFINE c == [n \in 0 .. N |-> v]
  <2>1. c \in [0 .. N -> V]
    OBVIOUS
  <2>2. 0 .. 0 - 1 = {}
    OBVIOUS
  <2> HIDE DEF c
  <2>3. Fixed(c, 0)
    BY <2>2
  <2>4. QED
    BY <2>1, <2>3
<1>3. ASSUME NEW k \in 0 .. N, Good(k) PROVE Good(k + 1)
  <2>1. PICK f \in [0 .. N -> V] : Fixed(f, k)
    BY <1>3
  <2> DEFINE g == [f EXCEPT ![k] = step[f][k]]
  <2>2. step[f] \in [0 .. N -> V]
    BY <1>1
  <2>3. g \in [0 .. N -> V]
    BY <2>2
  <2>4. \A n \in 0 .. N : n # k => g[n] = f[n]
    OBVIOUS
  <2>5. g[k] = step[f][k]
    OBVIOUS
  <2> HIDE DEF g
  <2>6. ASSUME NEW n \in 0 .. k PROVE step[g][n] = g[n]
    <3>1. n \in 0 .. N /\ AgreeBelow(g, f, n)
      BY <2>4 DEF AgreeBelow
    <3>2. step[g][n] = step[f][n]
      BY <1>1, <2>3, <3>1
    <3>3. CASE n = k
      BY <2>5, <3>2, <3>3
    <3>4. CASE n # k
      BY <2>1, <2>4, <3>2, <3>4
    <3>5. QED
      BY <3>3, <3>4
  <2>7. Fixed(g, k + 1)
    BY <2>6
  <2>8. QED
    BY <2>3, <2>7
<1> HIDE DEF Good
<1>4. Bad = {}
  <2> SUFFICES ASSUME Bad # {} PROVE FALSE
    OBVIOUS
  <2>1. PICK least \in Bad : \A n \in Bad : least <= n
    <3>1. Bad \in SUBSET Nat
      OBVIOUS
    <3>2. QED
      BY <3>1, LeastNumber
  <2>2. least # 0
    BY <1>2
  <2>3. Good(least - 1) /\ least - 1 \in 0 .. N
    BY <2>1, <2>2
  <2>4. Good((least - 1) + 1)
    BY <1>3, <2>3
  <2>5. (least - 1) + 1 = least
    OBVIOUS
  <2>6. QED
    BY <2>4, <2>5
<1>5. Good(N + 1)
  BY <1>4
<1>6. PICK f \in [0 .. N -> V] : Fixed(f, N + 1)
  BY <1>5 DEF Good
<1>7. step[f] = f
  <2>1. step[f] \in [0 .. N -> V]
    BY <1>1
  <2>2. \A n \in 0 .. N : step[f][n] = f[n]
    BY <1>6
  <2>3. QED
    BY <2>1, <2>2
<1>8. QED
  BY <1>7 DEF HasFixedPoint

\* What a total is made of.
LEMMA TotalOf ==
    ASSUME NEW L \in Nat, NEW values \in [1 .. L -> Nat]
    PROVE  \E sum \in [0 .. L -> Nat] :
               /\ sum[0] = 0 /\ sum[L] = Total(values)
               /\ \A k \in 1 .. L : sum[k] = sum[k - 1] + values[k]
<1> DEFINE Next(f) == [k \in 0 .. L |-> IF k = 0 THEN 0 ELSE f[k - 1] + values[k]]
           step == [f \in [0 .. L -> Nat] |-> Next(f)]
           Sums(f) == f = [k \in 0 .. L |-> IF k = 0 THEN 0 ELSE f[k - 1] + values[k]]
           total == CHOOSE f : Sums(f)
<1>1. Len(values) = L
  OBVIOUS
<1>2. ASSUME NEW f \in [0 .. L -> Nat] PROVE Next(f) \in [0 .. L -> Nat]
  <2>1. \A k \in 0 .. L : (IF k = 0 THEN 0 ELSE f[k - 1] + values[k]) \in Nat
    OBVIOUS
  <2>2. QED
    BY <2>1
<1>3. \A f, g \in [0 .. L -> Nat] : \A n \in 0 .. L :
          (\A m \in 0 .. n - 1 : f[m] = g[m]) => Next(f)[n] = Next(g)[n]
  OBVIOUS
<1>4. \E f : Sums(f)
  <2> HIDE DEF Next, Sums
  <2>1. step \in [[0 .. L -> Nat] -> [0 .. L -> Nat]]
    BY <1>2
  <2>2. \A f \in [0 .. L -> Nat] : step[f] = Next(f)
    OBVIOUS
  <2> HIDE DEF step
  <2>3. ASSUME NEW f \in [0 .. L -> Nat], NEW g \in [0 .. L -> Nat], NEW n \in 0 .. L,
               AgreeBelow(f, g, n)
        PROVE  step[f][n] = step[g][n]
    <3>1. step[f] = Next(f) /\ step[g] = Next(g)
      BY <2>2
    <3>2. Next(f)[n] = Next(g)[n]
      BY <1>3, <2>3 DEF AgreeBelow
    <3>3. QED
      BY <3>1, <3>2
  <2>4. Progresses(step, L, Nat)
    BY <2>1, <2>3 DEF Progresses
  <2>5. HasFixedPoint(step, L, Nat)
    BY <2>4, Nat # {}, CourseOfValues
  <2>6. QED
    BY <2>2, <2>5 DEF Next, Sums, HasFixedPoint
<1>5. Sums(total)
  BY <1>4
<1>6. Total(values) = total[L]
  BY <1>1 DEF Total
<1> HIDE DEF total
<1>7. total[0] = 0 /\ \A k \in 1 .. L : total[k] = total[k - 1] + values[k]
  BY <1>5
<1> HIDE DEF Sums
<1>8. \A k \in 0 .. L : total[k] \in Nat
  <2> DEFINE Bad == {k \in 0 .. L : total[k] \notin Nat}
  <2> SUFFICES ASSUME Bad # {} PROVE FALSE
    OBVIOUS
  <2>1. PICK least \in Bad : \A n \in Bad : least <= n
    <3>1. Bad \in SUBSET Nat
      OBVIOUS
    <3>2. QED
      BY <3>1, LeastNumber
  <2>2. least # 0
    BY <1>7
  <2>3. total[least - 1] \in Nat
    BY <2>1, <2>2
  <2>4. QED
    BY <1>7, <2>2, <2>3
<1>9. total = [k \in 0 .. L |-> total[k]]
  BY <1>5 DEF Sums
<1>10. total \in [0 .. L -> Nat]
  BY <1>8, <1>9
<1>11. QED
  BY <1>6, <1>7, <1>10

\* A total is a natural number and bounds each of its values.
LEMMA TotalBounds ==
    ASSUME NEW L \in Nat, NEW values \in [1 .. L -> Nat]
    PROVE  /\ Total(values) \in Nat
           /\ \A k \in 1 .. L : values[k] <= Total(values)
<1>1. PICK sum \in [0 .. L -> Nat] :
          /\ sum[0] = 0 /\ sum[L] = Total(values)
          /\ \A k \in 1 .. L : sum[k] = sum[k - 1] + values[k]
  BY TotalOf
<1>2. Total(values) \in Nat
  BY <1>1
<1>3. ASSUME NEW k \in 1 .. L PROVE values[k] <= Total(values)
  <2> DEFINE Bad == {d \in 0 .. L - k : ~(sum[k] <= sum[k + d])}
  <2>1. Bad = {}
    <3> SUFFICES ASSUME Bad # {} PROVE FALSE
      OBVIOUS
    <3>1. PICK least \in Bad : \A n \in Bad : least <= n
      <4>1. Bad \in SUBSET Nat
        OBVIOUS
      <4>2. QED
        BY <4>1, LeastNumber
    <3>2. least # 0
      OBVIOUS
    <3>3. least - 1 \in 0 .. L - k /\ sum[k] <= sum[k + (least - 1)]
      <4>1. least - 1 \in 0 .. L - k /\ ~(least <= least - 1)
        BY <3>2
      <4>2. least - 1 \notin Bad
        BY <3>1, <4>1
      <4>3. QED
        BY <4>1, <4>2
    <3>4. k + least \in 1 .. L /\ (k + least) - 1 = k + (least - 1)
      BY <3>2
    <3>5. sum[k + least] = sum[k + (least - 1)] + values[k + least]
      BY <1>1, <3>4
    <3>6. sum[k + (least - 1)] \in Nat /\ values[k + least] \in Nat
      <4>1. k + (least - 1) \in 0 .. L
        BY <3>3
      <4>2. QED
        BY <3>4, <4>1
    <3>7. QED
      BY <3>3, <3>5, <3>6
  <2>2. L - k \in 0 .. L - k /\ k + (L - k) = L
    OBVIOUS
  <2>3. sum[k] <= sum[L]
    BY <2>1, <2>2
  <2>4. sum[k] = sum[k - 1] + values[k] /\ sum[k - 1] \in Nat /\ values[k] \in Nat
        /\ sum[k] \in Nat /\ sum[L] \in Nat
    BY <1>1
  <2>5. QED
    BY <1>1, <2>3, <2>4
<1>4. QED
  BY <1>2, <1>3

\* The greatest number of a bounded set.
LEMMA Greatest ==
    ASSUME NEW S \in SUBSET Nat, S # {}, NEW bound \in Nat, \A x \in S : x <= bound
    PROVE  Max(S) \in S /\ \A x \in S : x <= Max(S)
<1> DEFINE Gaps == {bound - x : x \in S}
<1>1. Gaps \in SUBSET Nat /\ Gaps # {}
  OBVIOUS
<1> HIDE DEF Gaps
<1>2. PICK least \in Gaps : \A n \in Gaps : least <= n
  BY <1>1, LeastNumber
<1> USE DEF Gaps
<1>3. PICK top \in S : least = bound - top
  OBVIOUS
<1>4. \A x \in S : top >= x
  <2> TAKE x \in S
  <2>1. bound - x \in Gaps
    OBVIOUS
  <2>2. bound - top <= bound - x
    BY <1>2, <1>3, <2>1
  <2>3. x \in Nat /\ top \in Nat
    OBVIOUS
  <2>4. QED
    BY ONLY <2>2, <2>3, bound \in Nat
<1>5. \E x \in S : \A y \in S : x >= y
  BY <1>4
<1>6. QED
  BY <1>5 DEF Max

\* The greatest value of a finite sequence of numbers.
LEMMA GreatestValue ==
    ASSUME NEW L \in Nat \ {0}, NEW values \in [1 .. L -> Nat]
    PROVE  LET top == Max({values[i] : i \in 1 .. L}) IN
           top \in Nat /\ \A i \in 1 .. L : values[i] <= top
<1> DEFINE S == {values[i] : i \in 1 .. L}
<1>1. S \in SUBSET Nat /\ S # {}
  <2>1. values[1] \in S
    OBVIOUS
  <2>2. QED
    BY <2>1
<1>2. Total(values) \in Nat /\ \A x \in S : x <= Total(values)
  BY TotalBounds
<1> HIDE DEF S
<1>3. Max(S) \in S /\ \A x \in S : x <= Max(S)
  BY <1>1, <1>2, Greatest
<1>4. QED
  BY <1>1, <1>3 DEF S

\* Every document has its selection sets in order.
LEMMA Shape ==
    ASSUME NEW doc, IsDocument(doc)
    PROVE  /\ Len(doc.sets) \in Nat /\ DOMAIN doc.sets = 1 .. Len(doc.sets)
           /\ \A n \in 1 .. Len(doc.sets) :
                  /\ Len(doc.sets[n]) \in Nat \ {0}
                  /\ DOMAIN doc.sets[n] = 1 .. Len(doc.sets[n])
                  /\ \A i \in 1 .. Len(doc.sets[n]) : doc.sets[n][i] \in Selection
<1>1. doc.sets \in Seq(Seq(Selection) \ {<<>>})
  BY DEF IsDocument
<1> DEFINE sets == doc.sets
<1> HIDE DEF sets
<1>2. sets \in Seq(Seq(Selection) \ {<<>>})
  BY <1>1 DEF sets
<1>3. Len(sets) \in Nat /\ DOMAIN sets = 1 .. Len(sets)
  BY <1>2
<1>4. ASSUME NEW n \in 1 .. Len(sets)
      PROVE  /\ Len(sets[n]) \in Nat \ {0} /\ DOMAIN sets[n] = 1 .. Len(sets[n])
             /\ \A i \in 1 .. Len(sets[n]) : sets[n][i] \in Selection
  <2>1. sets[n] \in Seq(Selection) /\ sets[n] # <<>>
    BY <1>2, <1>3
  <2>2. QED
    BY <2>1
<1>5. QED
  BY <1>3, <1>4 DEF sets

\* The greatest of the known fragments is one of them.
LEMMA LastKnown ==
    ASSUME NEW doc, IsDocument(doc), NEW S \in SUBSET Fragments(doc), S # {}
    PROVE  Max(S) \in S
<1> DEFINE L == Len(doc.definitions)
<1>1. L \in Nat /\ DOMAIN doc.definitions = 1 .. L
  BY DEF IsDocument
<1>2. S \in SUBSET (1 .. L)
  BY <1>1 DEF Fragments, OfKind
<1> HIDE DEF L
<1>3. S \in SUBSET Nat /\ \A x \in S : x <= L
  BY <1>1, <1>2
<1>4. QED
  BY <1>1, <1>3, Greatest

\* A selection leads to a lower set, whichever fragments are known.
LEMMA BelowLower ==
    ASSUME NEW doc, IsDocument(doc), NEW known \in SUBSET Fragments(doc),
           NEW n \in 1 .. Len(doc.sets), NEW i \in DOMAIN doc.sets[n]
    PROVE  Below(doc, known, doc.sets[n][i]) \in 0 .. n - 1
<1> DEFINE s == doc.sets[n][i]
           named == {f \in known : doc.definitions[f].name = s.name}
<1>1. Targets(doc, s) \subseteq 0 .. n - 1
  BY Shape DEF IsDocument
<1>2. CASE s.kind = "spread" /\ named # {}
  <2>1. named \in SUBSET Fragments(doc)
    OBVIOUS
  <2>2. Max(named) \in named
    BY <1>2, <2>1, LastKnown
  <2>3. doc.definitions[Max(named)].set \in Targets(doc, s)
    BY <1>2, <2>2 DEF Targets
  <2> HIDE DEF s
  <2>4. Below(doc, known, s) = doc.definitions[Max(named)].set
    BY <1>2 DEF Below, Body
  <2>5. QED
    BY <1>1, <2>3, <2>4 DEF s
<1>3. CASE s.kind = "spread" /\ named = {}
  <2>1. 0 \in Targets(doc, s)
    BY <1>3 DEF Targets
  <2>2. Below(doc, known, s) = 0
    BY <1>3 DEF Below, Body
  <2>3. QED
    BY <1>1, <2>1, <2>2
<1>4. CASE s.kind # "spread"
  <2>1. s.set \in Targets(doc, s)
    BY <1>4 DEF Targets
  <2>2. QED
    BY <1>1, <1>4, <2>1 DEF Below
<1>5. QED
  BY <1>2, <1>3, <1>4

\* _calc_depth() is deeper by one than below each selection.
LEMMA DepthDescends ==
    ASSUME NEW doc, IsDocument(doc)
    PROVE  /\ \A n \in 0 .. Len(doc.sets) : Depth(doc, n) \in Nat
           /\ \A n \in 1 .. Len(doc.sets) : \A i \in DOMAIN doc.sets[n] :
                  Depth(doc, Below(doc, Fragments(doc), doc.sets[n][i])) < Depth(doc, n)
<1> DEFINE N == Len(doc.sets)
           B(n, i) == Below(doc, Fragments(doc), doc.sets[n][i])
           E(f, n) == IF n = 0 THEN 0
                      ELSE 1 + Max({f[B(n, i)] : i \in DOMAIN doc.sets[n]})
           Next(f) == [n \in 0 .. N |-> E(f, n)]
           step == [f \in [0 .. N -> Nat] |-> Next(f)]
           Is(f) == f = [n \in 0 .. N |-> E(f, n)]
           measure == CHOOSE f : Is(f)
<1>1. /\ N \in Nat /\ DOMAIN doc.sets = 1 .. N
      /\ \A n \in 1 .. N : /\ Len(doc.sets[n]) \in Nat \ {0}
                           /\ DOMAIN doc.sets[n] = 1 .. Len(doc.sets[n])
  BY Shape
<1>2. \A n \in 1 .. N : \A i \in DOMAIN doc.sets[n] : B(n, i) \in 0 .. n - 1
  BY <1>1, BelowLower
<1> HIDE DEF B
<1>3. ASSUME NEW f, NEW n \in 0 .. N, \A m \in 0 .. n - 1 : f[m] \in Nat
      PROVE  /\ E(f, n) \in Nat
             /\ n # 0 => \A i \in DOMAIN doc.sets[n] : f[B(n, i)] < E(f, n)
  <2>1. CASE n # 0
    <3> DEFINE L == Len(doc.sets[n])
               values == [i \in 1 .. L |-> f[B(n, i)]]
               top == Max({values[i] : i \in 1 .. L})
    <3>1. n \in 1 .. N /\ L \in Nat \ {0} /\ DOMAIN doc.sets[n] = 1 .. L
      BY <1>1, <2>1
    <3> HIDE DEF L
    <3>2. \A i \in 1 .. L : f[B(n, i)] \in Nat
      BY <1>2, <1>3, <3>1
    <3>3. values \in [1 .. L -> Nat]
      BY <3>2
    <3>4. \A i \in 1 .. L : values[i] = f[B(n, i)]
      OBVIOUS
    <3> HIDE DEF values
    <3>5. top \in Nat /\ \A i \in 1 .. L : values[i] <= top
      BY <3>1, <3>3, GreatestValue
    <3>6. {values[i] : i \in 1 .. L} = {f[B(n, i)] : i \in 1 .. L}
      BY <3>4
    <3>7. E(f, n) = 1 + top
      BY <2>1, <3>1, <3>6
    <3> HIDE DEF top, E
    <3>8. \A i \in 1 .. L : values[i] \in Nat
      BY <3>3
    <3>9. QED
      BY <3>1, <3>4, <3>5, <3>7, <3>8
  <2>2. QED
    BY <2>1
<1>4. ASSUME NEW f, NEW g, NEW n \in 0 .. N, AgreeBelow(f, g, n)
      PROVE  E(f, n) = E(g, n)
  <2>1. CASE n # 0
    <3>1. \A i \in DOMAIN doc.sets[n] : f[B(n, i)] = g[B(n, i)]
      BY <1>1, <1>2, <1>4, <2>1 DEF AgreeBelow
    <3>2. {f[B(n, i)] : i \in DOMAIN doc.sets[n]} =
              {g[B(n, i)] : i \in DOMAIN doc.sets[n]}
      BY <3>1
    <3>3. QED
      BY <3>2
  <2>2. QED
    BY <2>1
<1>5. ASSUME NEW n PROVE Depth(doc, n) = measure[n]
  BY DEF Depth, B
<1> HIDE DEF E
<1>6. Is(measure)
  <2>1. step \in [[0 .. N -> Nat] -> [0 .. N -> Nat]]
    <3>1. ASSUME NEW f \in [0 .. N -> Nat] PROVE Next(f) \in [0 .. N -> Nat]
      <4>1. ASSUME NEW n \in 0 .. N PROVE E(f, n) \in Nat
        <5>1. \A m \in 0 .. n - 1 : f[m] \in Nat
          BY <1>1
        <5>2. QED
          BY <1>3, <5>1
      <4>2. QED
        BY <4>1
    <3> HIDE DEF Next
    <3>2. QED
      BY <3>1
  <2>2. \A f \in [0 .. N -> Nat] : \A n \in 0 .. N : step[f][n] = E(f, n)
    OBVIOUS
  <2>3. \A f \in [0 .. N -> Nat] : step[f] = Next(f)
    OBVIOUS
  <2> HIDE DEF step
  <2>4. Progresses(step, N, Nat)
    <3>1. ASSUME NEW f \in [0 .. N -> Nat], NEW g \in [0 .. N -> Nat], NEW n \in 0 .. N,
                 AgreeBelow(f, g, n)
          PROVE  step[f][n] = step[g][n]
      <4>1. step[f][n] = E(f, n) /\ step[g][n] = E(g, n)
        BY <2>2
      <4>2. QED
        BY <1>4, <3>1, <4>1
    <3>2. QED
      BY <2>1, <3>1 DEF Progresses
  <2>5. HasFixedPoint(step, N, Nat)
    BY <1>1, <2>4, Nat # {}, CourseOfValues
  <2>6. \E f : Is(f)
    BY <2>3, <2>5 DEF HasFixedPoint
  <2> HIDE DEF Is
  <2>7. QED
    BY <2>6
<1> HIDE DEF measure
<1>7. \A n \in 0 .. N : measure[n] = E(measure, n)
  BY <1>6
<1>8. \A n \in 0 .. N : measure[n] \in Nat
  <2> DEFINE Bad == {n \in 0 .. N : measure[n] \notin Nat}
  <2> SUFFICES ASSUME Bad # {} PROVE FALSE
    OBVIOUS
  <2>1. PICK least \in Bad : \A n \in Bad : least <= n
    <3>1. Bad \in SUBSET Nat
      BY <1>1
    <3>2. QED
      BY <3>1, LeastNumber
  <2>2. \A m \in 0 .. least - 1 : measure[m] \in Nat
    <3> TAKE m \in 0 .. least - 1
    <3>1. m \in 0 .. N /\ ~(least <= m)
      BY <1>1
    <3>2. QED
      BY <2>1, <3>1
  <2>3. least \in 0 .. N /\ measure[least] \notin Nat
    OBVIOUS
  <2> HIDE DEF Bad
  <2>4. measure[least] \in Nat
    BY <1>3, <1>7, <2>2, <2>3
  <2>5. QED
    BY <2>3, <2>4
<1>9. \A n \in 1 .. N : \A i \in DOMAIN doc.sets[n] : measure[B(n, i)] < measure[n]
  <2> TAKE n \in 1 .. N
  <2>1. n \in 0 .. N /\ n # 0 /\ \A m \in 0 .. n - 1 : measure[m] \in Nat
    BY <1>1, <1>8
  <2>2. QED
    BY <1>3, <1>7, <2>1
<1>10. QED
  BY <1>5, <1>8, <1>9 DEF B

\* _calc_breadth() counts the selections of a set and of those below it.
LEMMA BreadthBounds ==
    ASSUME NEW doc, IsDocument(doc)
    PROVE  /\ \A n \in 0 .. Len(doc.sets) : Breadth(doc, n) \in Nat
           /\ \A n \in 1 .. Len(doc.sets) :
                  /\ Len(doc.sets[n]) <= Breadth(doc, n)
                  /\ \A i \in DOMAIN doc.sets[n] :
                         Breadth(doc, Below(doc, Fragments(doc), doc.sets[n][i]))
                             <= Breadth(doc, n)
<1> DEFINE N == Len(doc.sets)
           B(n, i) == Below(doc, Fragments(doc), doc.sets[n][i])
           E(f, n) == IF n = 0 THEN 0
                      ELSE Max({Len(doc.sets[n])} \cup
                               {f[B(n, i)] : i \in DOMAIN doc.sets[n]})
           Next(f) == [n \in 0 .. N |-> E(f, n)]
           step == [f \in [0 .. N -> Nat] |-> Next(f)]
           Is(f) == f = [n \in 0 .. N |-> E(f, n)]
           measure == CHOOSE f : Is(f)
<1>1. /\ N \in Nat /\ DOMAIN doc.sets = 1 .. N
      /\ \A n \in 1 .. N : /\ Len(doc.sets[n]) \in Nat \ {0}
                           /\ DOMAIN doc.sets[n] = 1 .. Len(doc.sets[n])
  BY Shape
<1>2. \A n \in 1 .. N : \A i \in DOMAIN doc.sets[n] : B(n, i) \in 0 .. n - 1
  BY <1>1, BelowLower
<1> HIDE DEF B
<1>3. ASSUME NEW f, NEW n \in 0 .. N, \A m \in 0 .. n - 1 : f[m] \in Nat
      PROVE  /\ E(f, n) \in Nat
             /\ n # 0 => /\ Len(doc.sets[n]) <= E(f, n)
                        /\ \A i \in DOMAIN doc.sets[n] : f[B(n, i)] <= E(f, n)
  <2>1. CASE n # 0
    <3> DEFINE L == Len(doc.sets[n])
               values == [i \in 1 .. L + 1 |-> IF i = L + 1 THEN L ELSE f[B(n, i)]]
               top == Max({values[i] : i \in 1 .. L + 1})
    <3>1. n \in 1 .. N /\ L \in Nat \ {0} /\ DOMAIN doc.sets[n] = 1 .. L
      BY <1>1, <2>1
    <3>2. E(f, n) = Max({L} \cup {f[B(n, i)] : i \in 1 .. L})
      BY <2>1, <3>1
    <3> HIDE DEF L, E
    <3>3. \A i \in 1 .. L : f[B(n, i)] \in Nat
      BY <1>2, <1>3, <3>1
    <3>4. values \in [1 .. L + 1 -> Nat]
      <4>1. \A i \in 1 .. L + 1 : (IF i = L + 1 THEN L ELSE f[B(n, i)]) \in Nat
        BY <3>1, <3>3
      <4>2. QED
        BY <4>1
    <3>5. \A i \in 1 .. L : i \in 1 .. L + 1 /\ i # L + 1 /\ values[i] = f[B(n, i)]
      BY <3>1
    <3>6. L + 1 \in 1 .. L + 1 /\ values[L + 1] = L /\ L + 1 \in Nat \ {0}
          /\ \A i \in 1 .. L + 1 : i = L + 1 \/ i \in 1 .. L
      BY <3>1
    <3> HIDE DEF values
    <3>7. top \in Nat /\ \A i \in 1 .. L + 1 : values[i] <= top
      BY <3>4, <3>6, GreatestValue
    <3>8. {values[i] : i \in 1 .. L + 1} = {L} \cup {f[B(n, i)] : i \in 1 .. L}
      BY <3>5, <3>6
    <3>9. E(f, n) = top
      BY <3>2, <3>8
    <3> HIDE DEF top
    <3>10. \A i \in 1 .. L : f[B(n, i)] <= top
      BY <3>5, <3>7
    <3>11. L <= top
      BY <3>6, <3>7
    <3>12. QED
      BY <3>1, <3>7, <3>9, <3>10, <3>11 DEF L
  <2>2. QED
    BY <2>1
<1>4. ASSUME NEW f, NEW g, NEW n \in 0 .. N, AgreeBelow(f, g, n)
      PROVE  E(f, n) = E(g, n)
  <2>1. CASE n # 0
    <3>1. \A i \in DOMAIN doc.sets[n] : f[B(n, i)] = g[B(n, i)]
      BY <1>1, <1>2, <1>4, <2>1 DEF AgreeBelow
    <3>2. {f[B(n, i)] : i \in DOMAIN doc.sets[n]} =
              {g[B(n, i)] : i \in DOMAIN doc.sets[n]}
      BY <3>1
    <3>3. QED
      BY <3>2
  <2>2. QED
    BY <2>1
<1>5. ASSUME NEW n PROVE Breadth(doc, n) = measure[n]
  BY DEF Breadth, B
<1> HIDE DEF E
<1>6. Is(measure)
  <2>1. step \in [[0 .. N -> Nat] -> [0 .. N -> Nat]]
    <3>1. ASSUME NEW f \in [0 .. N -> Nat] PROVE Next(f) \in [0 .. N -> Nat]
      <4>1. ASSUME NEW n \in 0 .. N PROVE E(f, n) \in Nat
        <5>1. \A m \in 0 .. n - 1 : f[m] \in Nat
          BY <1>1
        <5>2. QED
          BY <1>3, <5>1
      <4>2. QED
        BY <4>1
    <3> HIDE DEF Next
    <3>2. QED
      BY <3>1
  <2>2. \A f \in [0 .. N -> Nat] : \A n \in 0 .. N : step[f][n] = E(f, n)
    OBVIOUS
  <2>3. \A f \in [0 .. N -> Nat] : step[f] = Next(f)
    OBVIOUS
  <2> HIDE DEF step
  <2>4. Progresses(step, N, Nat)
    <3>1. ASSUME NEW f \in [0 .. N -> Nat], NEW g \in [0 .. N -> Nat], NEW n \in 0 .. N,
                 AgreeBelow(f, g, n)
          PROVE  step[f][n] = step[g][n]
      <4>1. step[f][n] = E(f, n) /\ step[g][n] = E(g, n)
        BY <2>2
      <4>2. QED
        BY <1>4, <3>1, <4>1
    <3>2. QED
      BY <2>1, <3>1 DEF Progresses
  <2>5. HasFixedPoint(step, N, Nat)
    BY <1>1, <2>4, Nat # {}, CourseOfValues
  <2>6. \E f : Is(f)
    BY <2>3, <2>5 DEF HasFixedPoint
  <2> HIDE DEF Is
  <2>7. QED
    BY <2>6
<1> HIDE DEF measure
<1>7. \A n \in 0 .. N : measure[n] = E(measure, n)
  BY <1>6
<1>8. \A n \in 0 .. N : measure[n] \in Nat
  <2> DEFINE Bad == {n \in 0 .. N : measure[n] \notin Nat}
  <2> SUFFICES ASSUME Bad # {} PROVE FALSE
    OBVIOUS
  <2>1. PICK least \in Bad : \A n \in Bad : least <= n
    <3>1. Bad \in SUBSET Nat
      BY <1>1
    <3>2. QED
      BY <3>1, LeastNumber
  <2>2. \A m \in 0 .. least - 1 : measure[m] \in Nat
    <3> TAKE m \in 0 .. least - 1
    <3>1. m \in 0 .. N /\ ~(least <= m)
      BY <1>1
    <3>2. QED
      BY <2>1, <3>1
  <2>3. least \in 0 .. N /\ measure[least] \notin Nat
    OBVIOUS
  <2> HIDE DEF Bad
  <2>4. measure[least] \in Nat
    BY <1>3, <1>7, <2>2, <2>3
  <2>5. QED
    BY <2>3, <2>4
<1>9. ASSUME NEW n \in 1 .. N
      PROVE  /\ Len(doc.sets[n]) <= measure[n]
             /\ \A i \in DOMAIN doc.sets[n] : measure[B(n, i)] <= measure[n]
  <2>1. n \in 0 .. N /\ n # 0 /\ \A m \in 0 .. n - 1 : measure[m] \in Nat
    BY <1>1, <1>8
  <2>2. QED
    BY <1>3, <1>7, <2>1
<1>10. QED
  BY <1>5, <1>8, <1>9 DEF B

LEMMA OwnCostTyped ==
    ASSUME NEW doc, IsDocument(doc),
           NEW n \in 1 .. Len(doc.sets), NEW i \in 1 .. Len(doc.sets[n])
    PROVE  OwnCost(doc.sets[n][i]) \in Nat
<1>1. doc.sets[n][i].arguments \in Nat
  BY Shape DEF Selection
<1>2. QED
  BY <1>1 DEF OwnCost, FieldCost

\* _cost_for_selection_set() adds up what the selections and those below cost.
LEMMA CostAddsUp ==
    ASSUME NEW doc, IsDocument(doc), NEW known \in SUBSET Fragments(doc)
    PROVE  /\ \A n \in 0 .. Len(doc.sets) : SelectionCost(doc, known, n) \in Nat
           /\ SelectionCost(doc, known, 0) = 0
           /\ \A n \in 1 .. Len(doc.sets) :
                  SelectionCost(doc, known, n) =
                      Total([i \in DOMAIN doc.sets[n] |->
                                 OwnCost(doc.sets[n][i]) +
                                 SelectionCost(doc, known,
                                               Below(doc, known, doc.sets[n][i]))])
<1> DEFINE N == Len(doc.sets)
           B(n, i) == Below(doc, known, doc.sets[n][i])
           E(f, n) == IF n = 0 THEN 0
                      ELSE Total([i \in DOMAIN doc.sets[n] |->
                                      OwnCost(doc.sets[n][i]) + f[B(n, i)]])
           Next(f) == [n \in 0 .. N |-> E(f, n)]
           step == [f \in [0 .. N -> Nat] |-> Next(f)]
           Is(f) == f = [n \in 0 .. N |-> E(f, n)]
           measure == CHOOSE f : Is(f)
<1>1. /\ N \in Nat /\ DOMAIN doc.sets = 1 .. N
      /\ \A n \in 1 .. N : /\ Len(doc.sets[n]) \in Nat \ {0}
                           /\ DOMAIN doc.sets[n] = 1 .. Len(doc.sets[n])
  BY Shape
<1>2. \A n \in 1 .. N : \A i \in DOMAIN doc.sets[n] : B(n, i) \in 0 .. n - 1
  BY <1>1, BelowLower
<1> HIDE DEF B
<1>3. ASSUME NEW f, NEW n \in 0 .. N, \A m \in 0 .. n - 1 : f[m] \in Nat
      PROVE  E(f, n) \in Nat
  <2>1. CASE n # 0
    <3> DEFINE L == Len(doc.sets[n])
               values == [i \in 1 .. L |-> OwnCost(doc.sets[n][i]) + f[B(n, i)]]
    <3>1. n \in 1 .. N /\ L \in Nat \ {0} /\ DOMAIN doc.sets[n] = 1 .. L
      BY <1>1, <2>1
    <3>2. E(f, n) = Total(values)
      BY <2>1, <3>1
    <3> HIDE DEF L, E
    <3>3. \A i \in 1 .. L : f[B(n, i)] \in Nat
      BY <1>2, <1>3, <3>1
    <3>4. \A i \in 1 .. L : OwnCost(doc.sets[n][i]) \in Nat
      BY <3>1, OwnCostTyped DEF L
    <3>5. values \in [1 .. L -> Nat]
      BY <3>3, <3>4
    <3> HIDE DEF values
    <3>6. QED
      BY <3>1, <3>2, <3>5, TotalBounds
  <2>2. QED
    BY <2>1
<1>4. ASSUME NEW f, NEW g, NEW n \in 0 .. N, AgreeBelow(f, g, n)
      PROVE  E(f, n) = E(g, n)
  <2>1. CASE n # 0
    <3>1. \A i \in DOMAIN doc.sets[n] : f[B(n, i)] = g[B(n, i)]
      BY <1>1, <1>2, <1>4, <2>1 DEF AgreeBelow
    <3> DEFINE F(i) == OwnCost(doc.sets[n][i]) + f[B(n, i)]
               G(i) == OwnCost(doc.sets[n][i]) + g[B(n, i)]
    <3>2. \A i \in DOMAIN doc.sets[n] : F(i) = G(i)
      BY <3>1
    <3>3. E(f, n) = Total([i \in DOMAIN doc.sets[n] |-> F(i)])
          /\ E(g, n) = Total([i \in DOMAIN doc.sets[n] |-> G(i)])
      BY <2>1
    <3> HIDE DEF F, G, E
    <3>4. [i \in DOMAIN doc.sets[n] |-> F(i)] = [i \in DOMAIN doc.sets[n] |-> G(i)]
      BY <3>2
    <3>5. QED
      BY <3>3, <3>4
  <2>2. QED
    BY <2>1
<1>5. ASSUME NEW n PROVE SelectionCost(doc, known, n) = measure[n]
  BY DEF SelectionCost, B
<1>6. \A f : E(f, 0) = 0
  OBVIOUS
<1>7. \A f : \A n \in 1 .. N :
          E(f, n) = Total([i \in DOMAIN doc.sets[n] |->
                               OwnCost(doc.sets[n][i]) + f[B(n, i)]])
  OBVIOUS
<1> HIDE DEF E
<1>8. Is(measure)
  <2>1. step \in [[0 .. N -> Nat] -> [0 .. N -> Nat]]
    <3>1. ASSUME NEW f \in [0 .. N -> Nat] PROVE Next(f) \in [0 .. N -> Nat]
      <4>1. ASSUME NEW n \in 0 .. N PROVE E(f, n) \in Nat
        <5>1. \A m \in 0 .. n - 1 : f[m] \in Nat
          BY <1>1
        <5>2. QED
          BY <1>3, <5>1
      <4>2. QED
        BY <4>1
    <3> HIDE DEF Next
    <3>2. QED
      BY <3>1
  <2>2. \A f \in [0 .. N -> Nat] : \A n \in 0 .. N : step[f][n] = E(f, n)
    OBVIOUS
  <2>3. \A f \in [0 .. N -> Nat] : step[f] = Next(f)
    OBVIOUS
  <2> HIDE DEF step
  <2>4. Progresses(step, N, Nat)
    <3>1. ASSUME NEW f \in [0 .. N -> Nat], NEW g \in [0 .. N -> Nat], NEW n \in 0 .. N,
                 AgreeBelow(f, g, n)
          PROVE  step[f][n] = step[g][n]
      <4>1. step[f][n] = E(f, n) /\ step[g][n] = E(g, n)
        BY <2>2
      <4>2. QED
        BY <1>4, <3>1, <4>1
    <3>2. QED
      BY <2>1, <3>1 DEF Progresses
  <2>5. HasFixedPoint(step, N, Nat)
    BY <1>1, <2>4, Nat # {}, CourseOfValues
  <2>6. \E f : Is(f)
    BY <2>3, <2>5 DEF HasFixedPoint
  <2> HIDE DEF Is
  <2>7. QED
    BY <2>6
<1> HIDE DEF measure
<1>9. \A n \in 0 .. N : measure[n] = E(measure, n)
  BY <1>8
<1>10. \A n \in 0 .. N : measure[n] \in Nat
  <2> DEFINE Bad == {n \in 0 .. N : measure[n] \notin Nat}
  <2> SUFFICES ASSUME Bad # {} PROVE FALSE
    OBVIOUS
  <2>1. PICK least \in Bad : \A n \in Bad : least <= n
    <3>1. Bad \in SUBSET Nat
      BY <1>1
    <3>2. QED
      BY <3>1, LeastNumber
  <2>2. \A m \in 0 .. least - 1 : measure[m] \in Nat
    <3> TAKE m \in 0 .. least - 1
    <3>1. m \in 0 .. N /\ ~(least <= m)
      BY <1>1
    <3>2. QED
      BY <2>1, <3>1
  <2>3. least \in 0 .. N /\ measure[least] \notin Nat
    OBVIOUS
  <2> HIDE DEF Bad
  <2>4. measure[least] \in Nat
    BY <1>3, <1>9, <2>2, <2>3
  <2>5. QED
    BY <2>3, <2>4
<1>11. measure[0] = 0
  BY <1>1, <1>9, <1>6
<1>12. \A n \in 1 .. N :
          measure[n] = Total([i \in DOMAIN doc.sets[n] |->
                                OwnCost(doc.sets[n][i]) + measure[B(n, i)]])
  <2> TAKE n \in 1 .. N
  <2>1. n \in 0 .. N
    BY <1>1
  <2>2. QED
    BY <1>9, <1>7, <2>1
<1>13. \A n \in 1 .. N : \A i \in DOMAIN doc.sets[n] :
          measure[B(n, i)] = SelectionCost(doc, known, B(n, i))
  BY <1>5
<1>14. QED
  BY <1>5, <1>10, <1>11, <1>12 DEF B

\* _iter_fields() yields the fields of a set and, but for spreads, below it.
LEMMA FieldNamesFound ==
    ASSUME NEW doc, IsDocument(doc), NEW n \in 1 .. Len(doc.sets),
           NEW i \in DOMAIN doc.sets[n]
    PROVE  LET s == doc.sets[n][i] IN
           /\ FieldNames(doc, s.set) \subseteq FieldNames(doc, n)
           /\ s.kind = "field" => s.name \in FieldNames(doc, n)
<1> DEFINE N == Len(doc.sets)
           Own(s) == IF s.kind = "field" THEN {s.name} ELSE {}
           E(f, m) == IF m = 0 THEN {}
                      ELSE UNION {f[s.set] \cup Own(s) : s \in ToSet(doc.sets[m])}
           Next(f) == [m \in 0 .. N |-> E(f, m)]
           step == [f \in [0 .. N -> SUBSET STRING] |-> Next(f)]
           Is(f) == f = [m \in 0 .. N |-> E(f, m)]
           measure == CHOOSE f : Is(f)
<1>1. N \in Nat
  BY Shape
<1>2. \A m \in 1 .. N : \A s \in ToSet(doc.sets[m]) :
          s.set \in 0 .. m - 1 /\ s.name \in STRING
  <2> TAKE m \in 1 .. N
  <2> TAKE s \in ToSet(doc.sets[m])
  <2>1. PICK j \in 1 .. Len(doc.sets[m]) : s = doc.sets[m][j]
    BY Shape DEF ToSet
  <2>2. s \in Selection /\ (s.kind = "spread" => s.set = 0)
        /\ Targets(doc, s) \subseteq 0 .. m - 1
    BY <2>1, Shape DEF IsDocument
  <2>3. s.name \in STRING
    BY <2>2 DEF Selection
  <2>4. s.kind # "spread" => s.set \in Targets(doc, s)
    BY DEF Targets
  <2>5. QED
    BY <1>1, <2>2, <2>3, <2>4
<1>3. ASSUME NEW f \in [0 .. N -> SUBSET STRING], NEW m \in 0 .. N
      PROVE  E(f, m) \in SUBSET STRING
  <2>1. CASE m # 0
    <3>1. ASSUME NEW s \in ToSet(doc.sets[m])
          PROVE  f[s.set] \in SUBSET STRING /\ Own(s) \in SUBSET STRING
      BY <1>1, <1>2, <2>1
    <3>2. QED
      BY <3>1
  <2>2. QED
    BY <2>1
<1>4. ASSUME NEW f, NEW g, NEW m \in 0 .. N, AgreeBelow(f, g, m)
      PROVE  E(f, m) = E(g, m)
  <2>1. CASE m # 0
    <3>1. \A s \in ToSet(doc.sets[m]) : f[s.set] = g[s.set]
      BY <1>1, <1>2, <1>4, <2>1 DEF AgreeBelow
    <3> HIDE DEF Own
    <3>2. {f[s.set] \cup Own(s) : s \in ToSet(doc.sets[m])} =
              {g[s.set] \cup Own(s) : s \in ToSet(doc.sets[m])}
      BY <3>1
    <3>3. QED
      BY <3>2
  <2>2. QED
    BY <2>1
<1>5. ASSUME NEW m PROVE FieldNames(doc, m) = measure[m]
  BY DEF FieldNames
<1>6. \A f : \A s \in ToSet(doc.sets[n]) : f[s.set] \cup Own(s) \subseteq E(f, n)
  <2>1. n # 0
    BY <1>1
  <2>2. QED
    BY <2>1
<1> HIDE DEF E
<1>7. Is(measure)
  <2>1. step \in [[0 .. N -> (SUBSET STRING)] -> [0 .. N -> (SUBSET STRING)]]
    <3>1. ASSUME NEW f \in [0 .. N -> (SUBSET STRING)]
          PROVE  Next(f) \in [0 .. N -> (SUBSET STRING)]
      <4>1. ASSUME NEW k \in 0 .. N PROVE E(f, k) \in SUBSET STRING
        <5>1. \A m \in 0 .. k - 1 : f[m] \in (SUBSET STRING)
          BY <1>1
        <5>2. QED
          BY <1>3, <5>1
      <4>2. QED
        BY <4>1
    <3> HIDE DEF Next
    <3>2. QED
      BY <3>1
  <2>2. \A f \in [0 .. N -> (SUBSET STRING)] : \A k \in 0 .. N : step[f][k] = E(f, k)
    OBVIOUS
  <2>3. \A f \in [0 .. N -> (SUBSET STRING)] : step[f] = Next(f)
    OBVIOUS
  <2> HIDE DEF step
  <2>4. Progresses(step, N, (SUBSET STRING))
    <3>1. ASSUME NEW f \in [0 .. N -> (SUBSET STRING)],
                 NEW g \in [0 .. N -> (SUBSET STRING)], NEW k \in 0 .. N,
                 AgreeBelow(f, g, k)
          PROVE  step[f][k] = step[g][k]
      <4>1. step[f][k] = E(f, k) /\ step[g][k] = E(g, k)
        BY <2>2
      <4>2. QED
        BY <1>4, <3>1, <4>1
    <3>2. QED
      BY <2>1, <3>1 DEF Progresses
  <2>5. HasFixedPoint(step, N, (SUBSET STRING))
    BY <1>1, <2>4, (SUBSET STRING) # {}, CourseOfValues
  <2>6. \E f : Is(f)
    BY <2>3, <2>5 DEF HasFixedPoint
  <2> HIDE DEF Is
  <2>7. QED
    BY <2>6
<1> HIDE DEF measure
<1>8. measure[n] = E(measure, n)
  BY <1>1, <1>7
<1> DEFINE s == doc.sets[n][i]
<1>9. s \in ToSet(doc.sets[n])
  BY DEF ToSet
<1> HIDE DEF s
<1>10. measure[s.set] \cup Own(s) \subseteq measure[n]
  BY <1>6, <1>8, <1>9
<1>11. FieldNames(doc, s.set) = measure[s.set] /\ FieldNames(doc, n) = measure[n]
  BY <1>5
<1>12. s.kind = "field" => s.name \in Own(s)
  OBVIOUS
<1> HIDE DEF Own
<1>13. /\ FieldNames(doc, s.set) \subseteq FieldNames(doc, n)
       /\ s.kind = "field" => s.name \in FieldNames(doc, n)
  BY <1>10, <1>11, <1>12
<1>14. QED
  BY <1>13 DEF s

\* The way w goes down from set n.
Route(doc, n, w) ==
    /\ w \in Seq(Places(doc)) /\ w # <<>> /\ w[1][1] = n
    /\ \A j \in 2 .. Len(w) :
           w[j][1] = Below(doc, Fragments(doc), Selected(doc, w[j - 1]))

\* A way goes down: it is no longer than the number of its set, nor than the
\* depth, and takes no position beyond the breadth.
LEMMA RouteBounds ==
    ASSUME NEW doc, IsDocument(doc), NEW n \in 1 .. Len(doc.sets), NEW w,
           Route(doc, n, w)
    PROVE  /\ Len(w) <= n /\ Len(w) <= Depth(doc, n)
           /\ \A j \in 1 .. Len(w) : w[j][2] <= Breadth(doc, n)
<1> DEFINE N == Len(doc.sets)
           D(j) == Below(doc, Fragments(doc), Selected(doc, w[j]))
           Good(j) == /\ w[j][1] + j <= n + 1
                      /\ Depth(doc, w[j][1]) + j <= Depth(doc, n) + 1
                      /\ Breadth(doc, w[j][1]) <= Breadth(doc, n)
           Bad == {j \in 1 .. Len(w) : ~Good(j)}
<1>1. /\ N \in Nat /\ Len(w) \in Nat \ {0}
      /\ \A j \in 1 .. Len(w) :
             /\ w[j][1] \in 1 .. N /\ w[j][2] \in DOMAIN doc.sets[w[j][1]]
             /\ Selected(doc, w[j]) = doc.sets[w[j][1]][w[j][2]]
  <2>1. N \in Nat /\ Len(w) \in Nat \ {0} /\ DOMAIN doc.sets = 1 .. N
    BY Shape DEF Route
  <2>2. ASSUME NEW j \in 1 .. Len(w) PROVE w[j] \in Places(doc)
    BY DEF Route
  <2>3. QED
    BY <2>1, <2>2 DEF Places, Selected
<1>2. \A j \in 1 .. Len(w) :
          /\ w[j][1] \in 0 .. N
          /\ Depth(doc, w[j][1]) \in Nat /\ Breadth(doc, w[j][1]) \in Nat
          /\ D(j) \in 0 .. w[j][1] - 1
          /\ Depth(doc, D(j)) \in Nat /\ Breadth(doc, D(j)) \in Nat
          /\ Depth(doc, D(j)) < Depth(doc, w[j][1])
          /\ Breadth(doc, D(j)) <= Breadth(doc, w[j][1])
          /\ w[j][2] \in Nat /\ w[j][2] <= Breadth(doc, w[j][1])
  <2> TAKE j \in 1 .. Len(w)
  <2> DEFINE m == w[j][1]
             i == w[j][2]
  <2>1. m \in 1 .. N /\ i \in DOMAIN doc.sets[m]
        /\ D(j) = Below(doc, Fragments(doc), doc.sets[m][i])
    BY <1>1
  <2> HIDE DEF m, i, D
  <2>2. D(j) \in 0 .. m - 1
    BY <2>1, BelowLower
  <2>3. m \in 0 .. N /\ D(j) \in 0 .. N
    BY <1>1, <2>1, <2>2
  <2>4. Depth(doc, m) \in Nat /\ Depth(doc, D(j)) \in Nat
        /\ Depth(doc, D(j)) < Depth(doc, m)
    BY <2>1, <2>3, DepthDescends
  <2>5. Breadth(doc, m) \in Nat /\ Breadth(doc, D(j)) \in Nat
        /\ Breadth(doc, D(j)) <= Breadth(doc, m) /\ Len(doc.sets[m]) <= Breadth(doc, m)
    BY <2>1, <2>3, BreadthBounds
  <2>6. i \in 1 .. Len(doc.sets[m]) /\ Len(doc.sets[m]) \in Nat
    BY <2>1, Shape
  <2>7. i \in Nat /\ i <= Breadth(doc, m)
    BY <2>5, <2>6
  <2>8. QED
    BY <2>2, <2>3, <2>4, <2>5, <2>7 DEF m, i
<1>3. /\ w[1][1] = n
      /\ \A j \in 1 .. Len(w) : j # 1 => j - 1 \in 1 .. Len(w) /\ w[j][1] = D(j - 1)
  BY <1>1 DEF Route
<1>4. Depth(doc, n) \in Nat /\ Breadth(doc, n) \in Nat /\ n \in 0 .. N
  BY <1>1, <1>2, <1>3
<1> HIDE DEF D
<1>5. Bad = {}
  <2> SUFFICES ASSUME Bad # {} PROVE FALSE
    OBVIOUS
  <2>1. PICK least \in Bad : \A j \in Bad : least <= j
    <3>1. Bad \in SUBSET Nat
      BY <1>1
    <3>2. QED
      BY <3>1, LeastNumber
  <2>2. least # 1
    BY <1>3, <1>4
  <2>3. least - 1 \in 1 .. Len(w) /\ w[least][1] = D(least - 1)
    BY <1>3, <2>2
  <2>4. Good(least - 1)
    <3>1. ~(least <= least - 1)
      BY <1>1
    <3>2. QED
      BY <2>1, <2>3, <3>1
  <2>5. Good(least)
    <3> DEFINE a == w[least - 1][1]
               b == w[least][1]
               k == least - 1
    <3>1. k \in 1 .. Len(w) /\ k \in Nat /\ least = k + 1
          /\ b = D(k) /\ a = w[k][1]
      BY <1>1, <2>3
    <3>2. /\ a \in 0 .. N /\ b \in 0 .. a - 1
          /\ Depth(doc, a) \in Nat /\ Breadth(doc, a) \in Nat
          /\ Depth(doc, b) \in Nat /\ Breadth(doc, b) \in Nat
          /\ Depth(doc, b) < Depth(doc, a) /\ Breadth(doc, b) <= Breadth(doc, a)
      <4> HIDE DEF a, b, k
      <4>1. QED
        BY <1>2, <3>1
    <3>3. /\ a + k <= n + 1 /\ Depth(doc, a) + k <= Depth(doc, n) + 1
          /\ Breadth(doc, a) <= Breadth(doc, n)
      BY <2>4
    <3> HIDE DEF a, b, k, N
    <3>4. N \in Nat
      BY <1>1
    <3>5. n \in Nat /\ a \in Nat /\ b \in Nat /\ b <= a - 1
      BY <1>4, <3>2, <3>4
    <3>6. b + least <= n + 1
      BY <3>1, <3>3, <3>5
    <3>7. Depth(doc, b) + least <= Depth(doc, n) + 1
      BY <1>4, <3>1, <3>2, <3>3
    <3>8. Breadth(doc, b) <= Breadth(doc, n)
      BY <1>4, <3>2, <3>3
    <3>9. QED
      BY <3>6, <3>7, <3>8 DEF b
  <2>6. QED
    BY <2>5
<1>6. ASSUME NEW j \in 1 .. Len(w) PROVE Good(j)
  BY <1>5
<1> HIDE DEF Good
<1>7. Len(w) \in 1 .. Len(w)
  BY <1>1
<1>8. /\ w[Len(w)][1] + Len(w) <= n + 1
      /\ Depth(doc, w[Len(w)][1]) + Len(w) <= Depth(doc, n) + 1
  BY <1>6, <1>7 DEF Good
<1>9. w[Len(w)][1] \in Nat \ {0} /\ Depth(doc, w[Len(w)][1]) \in Nat \ {0}
  <2>1. /\ w[Len(w)][1] \in 1 .. N
        /\ Depth(doc, w[Len(w)][1]) \in Nat /\ Depth(doc, D(Len(w))) \in Nat
        /\ Depth(doc, D(Len(w))) < Depth(doc, w[Len(w)][1])
    BY <1>1, <1>2, <1>7
  <2>2. QED
    BY <2>1
<1>10. Len(w) <= n /\ Len(w) <= Depth(doc, n)
  BY <1>1, <1>4, <1>8, <1>9
<1>11. \A j \in 1 .. Len(w) : w[j][2] <= Breadth(doc, n)
  <2> TAKE j \in 1 .. Len(w)
  <2>1. Breadth(doc, w[j][1]) <= Breadth(doc, n)
    BY <1>6 DEF Good
  <2>2. w[j][2] \in Nat /\ w[j][2] <= Breadth(doc, w[j][1])
        /\ Breadth(doc, w[j][1]) \in Nat
    BY <1>2
  <2>3. QED
    BY <1>4, <2>1, <2>2
<1>12. QED
  BY <1>10, <1>11

\* The ways that are enumerated are all there are.
LEMMA WaysAreRoutes ==
    ASSUME NEW doc, IsDocument(doc), NEW n \in 1 .. Len(doc.sets)
    PROVE  \A w : w \in Ways(doc, n) <=> Route(doc, n, w)
<1> TAKE w
<1>1. n \in Nat
  BY Shape
<1>2. ASSUME w \in Ways(doc, n) PROVE Route(doc, n, w)
  <2>1. w \in Seq(Places(doc))
    BY <1>1, <1>2 DEF Ways, BoundedSeq, SeqOf
  <2>2. QED
    BY <1>2, <2>1 DEF Ways, Route
<1>3. ASSUME Route(doc, n, w) PROVE w \in Ways(doc, n)
  <2>1. Len(w) <= n
    BY <1>3, RouteBounds
  <2>2. w \in Seq(Places(doc)) /\ Len(w) \in 0 .. n
    BY <1>1, <1>3, <2>1 DEF Route
  <2>3. w \in [1 .. Len(w) -> Places(doc)]
    BY <2>2
  <2>4. w \in BoundedSeq(Places(doc), n)
    BY <2>2, <2>3 DEF BoundedSeq, SeqOf
  <2>5. QED
    BY <1>3, <2>4 DEF Ways, Route
<1>4. QED
  BY <1>2, <1>3

\* What a way meets is searched: in its own definition or in that of a fragment.
LEMMA RouteNames ==
    ASSUME NEW doc, IsDocument(doc), NEW d \in DOMAIN doc.definitions, NEW w,
           Route(doc, doc.definitions[d].set, w), Selected(doc, Last(w)).kind = "field"
    PROVE  \E i \in DOMAIN doc.definitions :
               Selected(doc, Last(w)).name \in FieldNames(doc, doc.definitions[i].set)
<1> DEFINE N == Len(doc.sets)
           Names(i) == FieldNames(doc, doc.definitions[i].set)
           Good(j) == \E i \in DOMAIN doc.definitions :
                          FieldNames(doc, w[j][1]) \subseteq Names(i)
           Bad == {j \in 1 .. Len(w) : ~Good(j)}
<1>1. /\ N \in Nat /\ Len(w) \in Nat \ {0}
      /\ \A j \in 1 .. Len(w) :
             /\ w[j][1] \in 1 .. N /\ w[j][2] \in DOMAIN doc.sets[w[j][1]]
             /\ Selected(doc, w[j]) = doc.sets[w[j][1]][w[j][2]]
  <2>1. N \in Nat /\ Len(w) \in Nat \ {0} /\ DOMAIN doc.sets = 1 .. N
    BY Shape DEF Route
  <2>2. ASSUME NEW j \in 1 .. Len(w) PROVE w[j] \in Places(doc)
    BY DEF Route
  <2>3. QED
    BY <2>1, <2>2 DEF Places, Selected
<1>2. \A j \in 1 .. Len(w) :
          LET s == Selected(doc, w[j]) IN
          /\ FieldNames(doc, s.set) \subseteq FieldNames(doc, w[j][1])
          /\ s.kind = "field" => s.name \in FieldNames(doc, w[j][1])
  BY <1>1, FieldNamesFound
<1>3. ASSUME NEW j \in 1 .. Len(w), j # 1, Good(j - 1) PROVE Good(j)
  <2> DEFINE s == Selected(doc, w[j - 1])
             named == {f \in Fragments(doc) : doc.definitions[f].name = s.name}
  <2>1. j - 1 \in 1 .. Len(w) /\ w[j][1] = Below(doc, Fragments(doc), s)
    BY <1>1, <1>3 DEF Route
  <2>2. w[j][1] # 0
    BY <1>1
  <2>3. FieldNames(doc, s.set) \subseteq FieldNames(doc, w[j - 1][1])
    BY <1>2, <2>1
  <2> HIDE DEF s
  <2>4. CASE s.kind = "spread"
    <3>1. w[j][1] = Body(doc, Fragments(doc), s.name)
      BY <2>1, <2>4 DEF Below
    <3>2. named # {} /\ w[j][1] = doc.definitions[Max(named)].set
      BY <2>2, <3>1 DEF Body
    <3>3. Max(named) \in named
      <4>1. named \in SUBSET Fragments(doc)
        OBVIOUS
      <4> HIDE DEF named
      <4>2. QED
        BY <3>2, <4>1, LastKnown
    <3>4. Max(named) \in DOMAIN doc.definitions
      BY <3>3 DEF Fragments, OfKind
    <3>5. QED
      BY <3>2, <3>4
  <2>5. CASE s.kind # "spread"
    <3>1. w[j][1] = s.set
      BY <2>1, <2>5 DEF Below
    <3>2. QED
      BY <1>3, <2>3, <3>1
  <2>6. QED
    BY <2>4, <2>5
<1>4. 1 \in 1 .. Len(w) => Good(1)
  BY DEF Route
<1> HIDE DEF Good
<1>5. Bad = {}
  <2> SUFFICES ASSUME Bad # {} PROVE FALSE
    OBVIOUS
  <2>1. PICK least \in Bad : \A j \in Bad : least <= j
    <3>1. Bad \in SUBSET Nat
      BY <1>1
    <3>2. QED
      BY <3>1, LeastNumber
  <2>2. least # 1
    BY <1>4
  <2>3. least - 1 \in 1 .. Len(w) /\ ~(least <= least - 1)
    BY <1>1, <2>2
  <2>4. Good(least - 1)
    BY <2>1, <2>3
  <2>5. QED
    BY <1>3, <2>2, <2>4
<1>6. Len(w) \in 1 .. Len(w)
  BY <1>1
<1>7. PICK i \in DOMAIN doc.definitions :
          FieldNames(doc, w[Len(w)][1]) \subseteq Names(i)
  BY <1>5, <1>6 DEF Good
<1>8. Selected(doc, w[Len(w)]).name \in FieldNames(doc, w[Len(w)][1])
  BY <1>2, <1>6 DEF Last
<1>9. QED
  BY <1>7, <1>8 DEF Last

\* A one-to-one image of a finite set has as many elements.
LEMMA SameCardinality ==
    ASSUME NEW S, IsFiniteSet(S), NEW T, NEW F \in [S -> T],
           \A a, b \in S : F[a] = F[b] => a = b, \A t \in T : \E a \in S : F[a] = t
    PROVE  IsFiniteSet(T) /\ Cardinality(T) = Cardinality(S)
<1>1. F \in Injection(S, T)
  BY DEF Injection, IsInjective
<1>2. F \in Surjection(S, T)
  BY DEF Surjection
<1>3. ExistsBijection(S, T)
  BY <1>1, <1>2 DEF ExistsBijection, Bijection
<1>4. QED
  BY <1>3, FS_Bijection

Joined(share, L) == UNION {share[i] : i \in 1 .. L}
Apart(share, L) == \A i, j \in 1 .. L : i # j => share[i] \intersect share[j] = {}
Counted(share, size, L) ==
    \A i \in 1 .. L : IsFiniteSet(share[i]) /\ Cardinality(share[i]) = size[i]

\* The elements of finite sets that are apart from each other add up.
LEMMA ApartAddUp ==
    ASSUME NEW L \in Nat, NEW share, NEW size \in [1 .. L -> Nat],
           Counted(share, size, L), Apart(share, L)
    PROVE  IsFiniteSet(Joined(share, L)) /\ Cardinality(Joined(share, L)) = Total(size)
<1> DEFINE U(k) == UNION {share[i] : i \in 1 .. k}
<1>1. PICK sum \in [0 .. L -> Nat] :
          /\ sum[0] = 0 /\ sum[L] = Total(size)
          /\ \A k \in 1 .. L : sum[k] = sum[k - 1] + size[k]
  BY TotalOf
<1> DEFINE Good(k) == IsFiniteSet(U(k)) /\ Cardinality(U(k)) = sum[k]
           Bad == {k \in 0 .. L : ~Good(k)}
<1>2. Good(0)
  <2>1. U(0) = {}
    OBVIOUS
  <2>2. QED
    BY <1>1, <2>1, FS_EmptySet
<1>3. ASSUME NEW k \in 1 .. L, Good(k - 1) PROVE Good(k)
  <2>1. U(k) = U(k - 1) \cup share[k]
    <3>1. 1 .. k = (1 .. k - 1) \cup {k}
      OBVIOUS
    <3>2. QED
      BY <3>1
  <2>2. U(k - 1) \intersect share[k] = {}
    <3>1. \A i \in 1 .. k - 1 : i \in 1 .. L /\ i # k
      OBVIOUS
    <3>2. \A i \in 1 .. k - 1 : share[i] \intersect share[k] = {}
      BY <3>1 DEF Apart
    <3>3. QED
      BY <3>2
  <2> DEFINE V == U(k - 1)
             P == share[k]
  <2>3. IsFiniteSet(V) /\ IsFiniteSet(P) /\ V \intersect P = {}
        /\ Cardinality(V) = sum[k - 1] /\ Cardinality(P) = size[k]
    BY <1>3, <2>2 DEF Counted
  <2>4. sum[k - 1] \in Nat /\ size[k] \in Nat /\ sum[k] = sum[k - 1] + size[k]
    BY <1>1
  <2> HIDE DEF V, P
  <2>5. /\ IsFiniteSet(V \cup P)
        /\ Cardinality(V \cup P) =
               Cardinality(V) + Cardinality(P) - Cardinality(V \intersect P)
    BY <2>3, FS_Union
  <2>6. Cardinality(V \intersect P) = 0
    BY <2>3, FS_EmptySet
  <2>7. Cardinality(V \cup P) = sum[k]
    BY ONLY <2>3, <2>4, <2>5, <2>6
  <2>8. QED
    BY <2>1, <2>5, <2>7 DEF V, P
<1> HIDE DEF Good
<1>4. Bad = {}
  <2> SUFFICES ASSUME Bad # {} PROVE FALSE
    OBVIOUS
  <2>1. PICK least \in Bad : \A k \in Bad : least <= k
    <3>1. Bad \in SUBSET Nat
      OBVIOUS
    <3>2. QED
      BY <3>1, LeastNumber
  <2>2. least # 0
    BY <1>2
  <2>3. least \in 1 .. L /\ least - 1 \in 0 .. L /\ ~(least <= least - 1)
    BY <2>2
  <2>4. Good(least - 1)
    BY <2>1, <2>3
  <2>5. QED
    BY <1>3, <2>3, <2>4
<1>5. Good(L)
  BY <1>4
<1>6. QED
  BY <1>1, <1>5 DEF Good, Joined

\* The charges of the ways that begin with the selection i of set n.
Begun(doc, n, i) == {c \in Charges(doc, n) : c[1][1] = <<n, i>>}

\* A field is charged once for each way to it: what calculate_cost() adds up.
LEMMA ChargesAre ==
    ASSUME NEW doc, IsDocument(doc), NEW n \in 1 .. Len(doc.sets)
    PROVE  \A c : c \in Charges(doc, n) <=>
                      \E w, k : /\ c = <<w, k>> /\ Route(doc, n, w)
                                /\ Selected(doc, Last(w)).kind = "field"
                                /\ k \in 1 .. FieldCost(Selected(doc, Last(w)))
BY WaysAreRoutes DEF Charges, FieldWays

Repeated(w, size) == {w} \X (1 .. size)
Prefixed(p, C) == {<< <<p>> \o c[1], c[2]>> : c \in C}

\* What begins with a selection: its own charges and those of the ways below it.
LEMMA BegunIs ==
    ASSUME NEW doc, IsDocument(doc), NEW n \in 1 .. Len(doc.sets),
           NEW i \in 1 .. Len(doc.sets[n]),
           NEW m, m = Below(doc, Fragments(doc), doc.sets[n][i])
    PROVE  /\ m = 0 => Begun(doc, n, i) =
                           Repeated(<< <<n, i>> >>, OwnCost(doc.sets[n][i]))
           /\ m # 0 => Begun(doc, n, i) =
                           Repeated(<< <<n, i>> >>, OwnCost(doc.sets[n][i]))
                               \cup Prefixed(<<n, i>>, Charges(doc, m))
<1> DEFINE p == <<n, i>>
           s == doc.sets[n][i]
           Own == Repeated(<<p>>, OwnCost(s))
           Deep == Prefixed(p, Charges(doc, m))
<1>1. /\ p \in Places(doc) /\ p[1] = n /\ Selected(doc, p) = s
      /\ m \in 0 .. n - 1 /\ n \in Nat
  <2>1. n \in DOMAIN doc.sets /\ i \in DOMAIN doc.sets[n] /\ n \in Nat
    BY Shape
  <2>2. p \in {n} \X DOMAIN doc.sets[n] /\ p[1] = n /\ p[2] = i
    BY <2>1
  <2>3. m \in 0 .. n - 1
    BY <2>1, BelowLower
  <2> HIDE DEF p
  <2>4. QED
    BY <2>1, <2>2, <2>3 DEF Places, Selected
<1>2. m # 0 => m \in 1 .. Len(doc.sets)
  BY <1>1, Shape
<1>3. OwnCost(s) \in Nat
  BY OwnCostTyped
<1> HIDE DEF s, p
<1>4. Own \subseteq Begun(doc, n, i)
  <2> SUFFICES ASSUME NEW k \in 1 .. OwnCost(s)
               PROVE  << <<p>>, k>> \in Begun(doc, n, i)
    BY DEF Repeated
  <2>1. s.kind = "field" /\ k \in 1 .. FieldCost(s)
    BY DEF OwnCost
  <2>2. Route(doc, n, <<p>>) /\ Last(<<p>>) = p
    BY <1>1 DEF Route, Last
  <2>3. << <<p>>, k>> \in Charges(doc, n)
    BY <1>1, <2>1, <2>2, ChargesAre
  <2>4. QED
    BY <2>3 DEF Begun, p
<1>5. ASSUME m # 0 PROVE Deep \subseteq Begun(doc, n, i)
  <2> SUFFICES ASSUME NEW c \in Charges(doc, m)
               PROVE  << <<p>> \o c[1], c[2]>> \in Begun(doc, n, i)
    BY DEF Prefixed
  <2>1. PICK w, k : /\ c = <<w, k>> /\ Route(doc, m, w)
                    /\ Selected(doc, Last(w)).kind = "field"
                    /\ k \in 1 .. FieldCost(Selected(doc, Last(w)))
    BY <1>2, <1>5, ChargesAre
  <2> DEFINE v == <<p>> \o w
  <2>2. /\ w \in Seq(Places(doc)) /\ Len(w) \in Nat \ {0} /\ w[1][1] = m
        /\ \A j \in 2 .. Len(w) :
               w[j][1] = Below(doc, Fragments(doc), Selected(doc, w[j - 1]))
    BY <2>1 DEF Route
  <2>3. /\ v \in Seq(Places(doc)) /\ Len(v) = Len(w) + 1 /\ v[1] = p
        /\ \A j \in 2 .. Len(w) + 1 : v[j] = w[j - 1]
    BY <1>1, <2>2
  <2> HIDE DEF v
  <2>4. ASSUME NEW j \in 2 .. Len(v)
        PROVE  v[j][1] = Below(doc, Fragments(doc), Selected(doc, v[j - 1]))
    <3>1. CASE j = 2
      <4>1. v[2] = w[1] /\ v[2 - 1] = p
        BY <2>2, <2>3
      <4>2. QED
        BY <1>1, <2>2, <3>1, <4>1 DEF s
    <3>2. CASE j # 2
      <4>1. j - 1 \in 2 .. Len(w) /\ j \in 2 .. Len(w) + 1 /\ j - 1 \in 2 .. Len(w) + 1
        BY <2>2, <2>3, <3>2
      <4>2. v[j] = w[j - 1] /\ v[j - 1] = w[(j - 1) - 1]
        BY <2>3, <4>1
      <4>3. QED
        BY <2>2, <4>1, <4>2
    <3>3. QED
      BY <3>1, <3>2
  <2>5. Route(doc, n, v)
    <3>1. v # <<>>
      BY <2>2, <2>3
    <3>2. QED
      BY <1>1, <2>3, <2>4, <3>1 DEF Route
  <2>6. Last(v) = Last(w)
    <3>1. Len(w) + 1 \in 2 .. Len(w) + 1 /\ (Len(w) + 1) - 1 = Len(w)
      BY <2>2
    <3>2. QED
      BY <2>3, <3>1 DEF Last
  <2>7. <<v, k>> \in Charges(doc, n)
    BY <2>1, <2>5, <2>6, ChargesAre
  <2>8. <<v, k>> \in Begun(doc, n, i)
    BY <2>3, <2>7 DEF Begun, p
  <2>9. QED
    BY <2>1, <2>8 DEF v
<1>6. ASSUME NEW c \in Begun(doc, n, i), c \notin Own
      PROVE  m # 0 /\ c \in Deep
  <2>1. PICK w, k : /\ c = <<w, k>> /\ Route(doc, n, w)
                    /\ Selected(doc, Last(w)).kind = "field"
                    /\ k \in 1 .. FieldCost(Selected(doc, Last(w)))
    BY ChargesAre DEF Begun
  <2>2. w[1] = p
    BY <2>1 DEF Begun, p
  <2>3. w \in Seq(Places(doc)) /\ Len(w) \in Nat \ {0}
        /\ \A j \in 2 .. Len(w) :
               w[j][1] = Below(doc, Fragments(doc), Selected(doc, w[j - 1]))
    BY <2>1 DEF Route
  <2>4. Len(w) # 1
    <3> SUFFICES ASSUME Len(w) = 1 PROVE FALSE
      OBVIOUS
    <3>1. w = <<p>> /\ Last(w) = p
      BY <2>2, <2>3 DEF Last
    <3>2. k \in 1 .. OwnCost(s)
      BY <1>1, <2>1, <3>1 DEF OwnCost
    <3>3. QED
      BY <1>6, <2>1, <3>1, <3>2 DEF Repeated
  <2> DEFINE v == Tail(w)
  <2>5. /\ v \in Seq(Places(doc)) /\ Len(v) = Len(w) - 1 /\ w = <<p>> \o v
        /\ \A j \in 1 .. Len(w) - 1 : v[j] = w[j + 1]
    <3>1. w \in Seq(Places(doc)) /\ Len(w) \in Nat \ {0}
      BY <2>3
    <3>2. /\ v \in Seq(Places(doc)) /\ Len(v) = Len(w) - 1
          /\ \A j \in 1 .. Len(w) - 1 : v[j] = w[j + 1]
      BY <3>1
    <3> DEFINE q == <<p>> \o v
    <3> HIDE DEF v
    <3>3. q \in Seq(Places(doc)) /\ Len(q) = Len(w)
      BY <1>1, <3>1, <3>2
    <3>4. ASSUME NEW j \in 1 .. Len(w) PROVE q[j] = w[j]
      <4>1. CASE j = 1
        BY <2>2, <3>2, <4>1
      <4>2. CASE j # 1
        <5>1. j - 1 \in 1 .. Len(w) - 1 /\ (j - 1) + 1 = j
          BY <3>1, <4>2
        <5>2. q[j] = v[j - 1]
          BY <3>2, <5>1
        <5>3. QED
          BY <3>2, <5>1, <5>2
      <4>3. QED
        BY <4>1, <4>2
    <3> HIDE DEF q
    <3>5. q = w
      BY <3>1, <3>3, <3>4
    <3>6. QED
      BY <3>2, <3>5 DEF q
  <2>6. 2 \in 2 .. Len(w) /\ 2 - 1 = 1
    <3>1. Len(w) \in Nat \ {0}
      BY <2>3
    <3>2. ASSUME NEW L \in Nat \ {0}, L # 1 PROVE 2 \in 2 .. L /\ 2 - 1 = 1
      BY ONLY <3>2
    <3>3. QED
      BY <2>4, <3>1, <3>2
  <2>7. w[2][1] = m
    BY <1>1, <2>2, <2>3, <2>6 DEF s
  <2>8. w[2] \in Places(doc) /\ w[2][1] # 0
    <3>1. w[2] \in Places(doc)
      BY <2>3, <2>6
    <3>2. QED
      BY <3>1, Shape DEF Places
  <2> HIDE DEF v
  <2>9. Route(doc, m, v)
    <3>1. v # <<>> /\ v[1][1] = m
      <4>1. Len(v) # 0 /\ 1 \in 1 .. Len(w) - 1 /\ 1 + 1 = 2
        BY <2>3, <2>4, <2>5
      <4>2. QED
        BY <2>5, <2>7, <4>1
    <3>2. ASSUME NEW j \in 2 .. Len(v)
          PROVE  v[j][1] = Below(doc, Fragments(doc), Selected(doc, v[j - 1]))
      <4>1. /\ j + 1 \in 2 .. Len(w) /\ (j + 1) - 1 = j /\ j \in 1 .. Len(w) - 1
            /\ j - 1 \in 1 .. Len(w) - 1 /\ (j - 1) + 1 = j
        BY <2>3, <2>5
      <4>2. v[j] = w[j + 1] /\ v[j - 1] = w[j]
        BY <2>5, <4>1
      <4>3. w[j + 1][1] = Below(doc, Fragments(doc), Selected(doc, w[(j + 1) - 1]))
        BY <2>3, <4>1
      <4>4. QED
        BY <4>1, <4>2, <4>3
    <3>3. QED
      BY <2>5, <3>1, <3>2 DEF Route
  <2>10. Last(v) = Last(w)
    <3>1. Len(v) \in 1 .. Len(w) - 1 /\ Len(v) + 1 = Len(w)
      BY <2>3, <2>4, <2>5
    <3>2. QED
      BY <2>5, <3>1 DEF Last
  <2>11. m # 0
    BY <2>7, <2>8
  <2>12. <<v, k>> \in Charges(doc, m)
    BY <1>2, <2>1, <2>9, <2>10, <2>11, ChargesAre
  <2>13. c = << <<p>> \o <<v, k>>[1], <<v, k>>[2]>>
    BY <2>1, <2>5
  <2>14. QED
    BY <2>11, <2>12, <2>13 DEF Prefixed
<1>7. m = 0 => Begun(doc, n, i) = Own
  BY <1>4, <1>6
<1>8. m # 0 => Begun(doc, n, i) = Own \cup Deep
  <2> HIDE DEF Own, Deep
  <2>1. QED
    BY <1>4, <1>5, <1>6
<1>9. QED
  BY <1>7, <1>8 DEF p, s

\* A field is charged its cost for each way to it.
LEMMA OwnCharges ==
    ASSUME NEW w, NEW size \in Nat
    PROVE  IsFiniteSet(Repeated(w, size)) /\ Cardinality(Repeated(w, size)) = size
<1>1. IsFiniteSet(1 .. size) /\ Cardinality(1 .. size) = size
  BY FS_Interval
<1>2. IsFiniteSet({w}) /\ Cardinality({w}) = 1
  BY FS_Singleton
<1>3. /\ IsFiniteSet({w} \X (1 .. size))
      /\ Cardinality({w} \X (1 .. size)) = Cardinality({w}) * Cardinality(1 .. size)
  BY <1>1, <1>2, FS_Product
<1>4. Cardinality({w}) * Cardinality(1 .. size) = size
  BY <1>1, <1>2
<1>5. QED
  BY <1>3, <1>4 DEF Repeated

\* A way that begins one place earlier is charged as often.
LEMMA DeepCharges ==
    ASSUME NEW C, IsFiniteSet(C), NEW P, NEW p \in P, \A c \in C : c = <<c[1], c[2]>>,
           \A c \in C : c[1] \in Seq(P)
    PROVE  IsFiniteSet(Prefixed(p, C)) /\ Cardinality(Prefixed(p, C)) = Cardinality(C)
<1> DEFINE T == {<< <<p>> \o c[1], c[2]>> : c \in C}
           F == [c \in C |-> << <<p>> \o c[1], c[2]>>]
<1>1. ASSUME NEW a \in C, NEW b \in C, F[a] = F[b] PROVE a = b
  <2>1. <<p>> \o a[1] = <<p>> \o b[1] /\ a[2] = b[2]
    BY <1>1
  <2>2. a[1] \in Seq(P) /\ b[1] \in Seq(P)
    OBVIOUS
  <2>3. \A v \in Seq(P) : Tail(<<p>> \o v) = v
    OBVIOUS
  <2>4. a[1] = b[1]
    <3>1. Tail(<<p>> \o a[1]) = a[1] /\ Tail(<<p>> \o b[1]) = b[1]
      BY <2>2, <2>3
    <3>2. QED
      BY <2>1, <3>1
  <2>5. QED
    BY <2>1, <2>4
<1>2. F \in [C -> T] /\ \A t \in T : \E a \in C : F[a] = t
  OBVIOUS
<1> HIDE DEF F, T
<1>3. IsFiniteSet(T) /\ Cardinality(T) = Cardinality(C)
  BY <1>1, <1>2, SameCardinality
<1>4. QED
  BY <1>3 DEF T, Prefixed

\* The cost that is computed with every fragment known is what the fields on all
\* ways are charged.
LEMMA CostIsCharged ==
    ASSUME NEW doc, IsDocument(doc)
    PROVE  \A n \in 1 .. Len(doc.sets) :
               /\ IsFiniteSet(Charges(doc, n))
               /\ Cardinality(Charges(doc, n)) = SelectionCost(doc, Fragments(doc), n)
<1> DEFINE N == Len(doc.sets)
           C(n) == SelectionCost(doc, Fragments(doc), n)
           Good(n) ==
               IsFiniteSet(Charges(doc, n)) /\ Cardinality(Charges(doc, n)) = C(n)
           Bad == {n \in 1 .. N : ~Good(n)}
<1>1. N \in Nat
  BY Shape
<1>2. ASSUME NEW n \in 1 .. N, \A m \in 1 .. n - 1 : Good(m)
      PROVE  Good(n)
  <2> DEFINE L == Len(doc.sets[n])
             B(i) == Below(doc, Fragments(doc), doc.sets[n][i])
             size == [i \in 1 .. L |-> OwnCost(doc.sets[n][i]) + C(B(i))]
             share == [i \in 1 .. L |-> Begun(doc, n, i)]
  <2>1. L \in Nat \ {0} /\ DOMAIN doc.sets[n] = 1 .. L /\ n \in Nat
    BY Shape
  <2>2. C(0) = 0 /\ C(n) = Total(size)
    <3>1. C(0) = 0
      BY CostAddsUp
    <3>2. C(n) = Total([i \in DOMAIN doc.sets[n] |-> OwnCost(doc.sets[n][i]) + C(B(i))])
      BY CostAddsUp
    <3>3. QED
      BY <2>1, <3>1, <3>2
  <2>3. ASSUME NEW i \in 1 .. L
        PROVE  /\ size[i] \in Nat /\ IsFiniteSet(share[i])
               /\ Cardinality(share[i]) = size[i]
    <3> DEFINE p == <<n, i>>
               m == B(i)
               own == OwnCost(doc.sets[n][i])
               Own == Repeated(<<p>>, own)
               Deep == Prefixed(p, Charges(doc, m))
    <3>1. m \in 0 .. n - 1
      BY <2>1, BelowLower
    <3>2. own \in Nat
      BY OwnCostTyped
    <3>3. size[i] = own + C(m) /\ share[i] = Begun(doc, n, i)
      OBVIOUS
    <3>4. m \in 0 .. n - 1 /\ own \in Nat /\ size[i] = own + C(m)
          /\ share[i] = Begun(doc, n, i)
      BY <3>1, <3>2, <3>3
    <3>5. /\ m = 0 => Begun(doc, n, i) = Own
          /\ m # 0 => Begun(doc, n, i) = Own \cup Deep
      BY BegunIs
    <3>6. IsFiniteSet(Own) /\ Cardinality(Own) = own
      BY <3>4, OwnCharges
    <3>7. CASE m = 0
      BY <2>2, <3>4, <3>5, <3>6, <3>7
    <3>8. CASE m # 0
      <4>1. m \in 1 .. n - 1 /\ m \in 1 .. N /\ Good(m)
        BY <1>1, <1>2, <2>1, <3>4, <3>8
      <4>2. \A c \in Charges(doc, m) :
                /\ c = <<c[1], c[2]>> /\ c[1] \in Seq(Places(doc)) /\ c[1] # <<>>
        BY <4>1, ChargesAre DEF Route
      <4>3. <<n, i>> \in Places(doc)
        <5>1. n \in DOMAIN doc.sets
          BY Shape
        <5>2. <<n, i>> \in {n} \X DOMAIN doc.sets[n]
          BY <2>1
        <5>3. QED
          BY <5>1, <5>2 DEF Places
      <4>4. IsFiniteSet(Deep) /\ Cardinality(Deep) = C(m)
        <5> DEFINE D == Charges(doc, m)
        <5>1. IsFiniteSet(D) /\ Cardinality(D) = C(m) /\ p \in Places(doc)
              /\ (\A c \in D : c = <<c[1], c[2]>>)
              /\ \A c \in D : c[1] \in Seq(Places(doc))
          BY <4>1, <4>2, <4>3
        <5> HIDE DEF D, p
        <5>2. IsFiniteSet(Prefixed(p, D))
              /\ Cardinality(Prefixed(p, D)) = Cardinality(D)
          BY <5>1, DeepCharges
        <5>3. QED
          BY <5>1, <5>2 DEF D
      <4>5. Own \intersect Deep = {}
        <5> SUFFICES ASSUME NEW k, NEW c \in Charges(doc, m),
                            << <<p>>, k>> = << <<p>> \o c[1], c[2]>>
                     PROVE  FALSE
          BY DEF Repeated, Prefixed
        <5> DEFINE v == c[1]
        <5>1. v \in Seq(Places(doc)) /\ v # <<>> /\ <<p>> = <<p>> \o v
          BY <4>2
        <5>2. p \in Places(doc)
          BY <4>3
        <5> HIDE DEF p, v
        <5>3. Len(<<p>>) = 1 /\ Len(<<p>> \o v) = 1 + Len(v) /\ Len(v) \in Nat \ {0}
          BY <5>1, <5>2
        <5>4. QED
          BY <5>1, <5>3
      <4>6. C(m) \in Nat
        <5>1. m \in 0 .. N
          BY <1>1, <4>1
        <5>2. QED
          BY <5>1, CostAddsUp
      <4> HIDE DEF Own, Deep, m, own
      <4>7. IsFiniteSet(Own \cup Deep) /\ Cardinality(Own \cup Deep) = own + C(m)
        <5>1. /\ IsFiniteSet(Own \cup Deep)
              /\ Cardinality(Own \cup Deep) =
                     Cardinality(Own) + Cardinality(Deep)
                         - Cardinality(Own \intersect Deep)
          BY <3>6, <4>4, FS_Union
        <5>2. Cardinality(Own \intersect Deep) = 0
          BY <4>5, FS_EmptySet
        <5>3. Cardinality(Own) \in Nat /\ Cardinality(Deep) \in Nat
          BY <3>4, <3>6, <4>4, <4>6
        <5>4. Cardinality(Own \cup Deep) = own + C(m)
          BY <3>6, <4>4, <5>1, <5>2, <5>3
        <5>5. QED
          BY <5>1, <5>4
      <4>8. QED
        <5> HIDE DEF share, size, C, Good
        <5>1. share[i] = Own \cup Deep
          BY <3>4, <3>5, <3>8
        <5>2. size[i] = own + C(m) /\ size[i] \in Nat
          BY <3>4, <4>6
        <5>3. QED
          BY <4>7, <5>1, <5>2
    <3>9. QED
      BY <3>7, <3>8
  <2>4. size \in [1 .. L -> Nat]
    BY <2>3
  <2>5. ASSUME NEW i \in 1 .. L, NEW j \in 1 .. L, i # j
        PROVE  share[i] \intersect share[j] = {}
    BY <2>5 DEF Begun
  <2>6. Counted(share, size, L) /\ Apart(share, L)
    BY <2>3, <2>5 DEF Counted, Apart
  <2>7. Joined(share, L) = Charges(doc, n)
    <3>1. \A i \in 1 .. L : share[i] = Begun(doc, n, i)
      OBVIOUS
    <3>2. ASSUME NEW c \in Charges(doc, n)
          PROVE  \E i \in 1 .. L : c \in Begun(doc, n, i)
      <4>1. PICK w, k : c = <<w, k>> /\ Route(doc, n, w)
        BY <3>2, ChargesAre
      <4>2. w \in Seq(Places(doc)) /\ w # <<>> /\ w[1][1] = n
        BY <4>1 DEF Route
      <4>3. w[1] \in Places(doc)
        BY <4>2
      <4>4. PICK i \in DOMAIN doc.sets[n] : w[1] = <<n, i>>
        BY <4>2, <4>3 DEF Places
      <4>5. QED
        BY <2>1, <4>1, <4>4 DEF Begun
    <3> HIDE DEF share
    <3>3. QED
      BY <3>1, <3>2 DEF Begun, Joined
  <2> HIDE DEF share, size
  <2>8. IsFiniteSet(Joined(share, L)) /\ Cardinality(Joined(share, L)) = Total(size)
    BY <2>1, <2>4, <2>6, ApartAddUp
  <2>9. QED
    BY <2>2, <2>7, <2>8
<1> HIDE DEF Good
<1>3. Bad = {}
  <2> SUFFICES ASSUME Bad # {} PROVE FALSE
    OBVIOUS
  <2>1. PICK least \in Bad : \A n \in Bad : least <= n
    <3>1. Bad \in SUBSET Nat
      BY <1>1
    <3>2. QED
      BY <3>1, LeastNumber
  <2>2. \A m \in 1 .. least - 1 : Good(m)
    <3> TAKE m \in 1 .. least - 1
    <3>1. m \in 1 .. N /\ ~(least <= m)
      BY <1>1
    <3>2. QED
      BY <2>1, <3>1
  <2>3. QED
    BY <1>2, <2>2
<1>4. QED
  BY <1>3 DEF Good

\* The measures of a query bound those of its operations.
LEMMA QueryMeasures ==
    ASSUME NEW doc, IsDocument(doc)
    PROVE  /\ {QueryDepth(doc), QueryBreadth(doc), Cost(doc)} \subseteq Nat
           /\ \A i \in Operations(doc) :
                  /\ Depth(doc, doc.definitions[i].set) <= QueryDepth(doc)
                  /\ Breadth(doc, doc.definitions[i].set) <= QueryBreadth(doc)
                  /\ SelectionCost(doc, Fragments(doc) \intersect 1 .. i,
                                   doc.definitions[i].set) <= Cost(doc)
<1> DEFINE L == Len(doc.definitions)
           set(i) == doc.definitions[i].set
           deep == [i \in 1 .. L |-> IF i \in Operations(doc)
                                     THEN Depth(doc, set(i)) ELSE 0]
           broad == [i \in 1 .. L |-> IF i \in Operations(doc)
                                      THEN Breadth(doc, set(i)) ELSE 0]
           costs == [i \in 1 .. L |->
                         IF i \in Operations(doc)
                         THEN SelectionCost(doc, Fragments(doc) \intersect 1 .. i,
                                            set(i))
                         ELSE 0]
           Deep == {0} \cup {Depth(doc, set(i)) : i \in Operations(doc)}
           Broad == {0} \cup {Breadth(doc, set(i)) : i \in Operations(doc)}
<1>1. /\ L \in Nat /\ DOMAIN doc.definitions = 1 .. L
      /\ \A i \in 1 .. L :
             set(i) \in 1 .. Len(doc.sets) /\ set(i) \in 0 .. Len(doc.sets)
  <2>1. L \in Nat /\ DOMAIN doc.definitions = 1 .. L
    BY DEF IsDocument
  <2>2. \A i \in 1 .. L : set(i) \in DOMAIN doc.sets
    BY <2>1 DEF IsDocument
  <2> HIDE DEF set, L
  <2>3. \A i \in 1 .. L : set(i) \in 1 .. Len(doc.sets) /\ set(i) \in 0 .. Len(doc.sets)
    BY <2>2, Shape
  <2>4. QED
    BY <2>1, <2>3
<1>2. Operations(doc) \subseteq 1 .. L
  BY <1>1 DEF Operations, OfKind
<1> HIDE DEF L, set
<1>3. /\ deep \in [1 .. L -> Nat]
      /\ \A i \in Operations(doc) : deep[i] = Depth(doc, set(i))
  BY <1>1, <1>2, DepthDescends
<1>4. /\ broad \in [1 .. L -> Nat]
      /\ \A i \in Operations(doc) : broad[i] = Breadth(doc, set(i))
  BY <1>1, <1>2, BreadthBounds
<1>5. /\ costs \in [1 .. L -> Nat]
      /\ \A i \in Operations(doc) :
             costs[i] = SelectionCost(doc, Fragments(doc) \intersect 1 .. i, set(i))
  <2>1. ASSUME NEW i \in 1 .. L
        PROVE  SelectionCost(doc, Fragments(doc) \intersect 1 .. i, set(i)) \in Nat
    <3>1. Fragments(doc) \intersect 1 .. i \in SUBSET Fragments(doc)
      OBVIOUS
    <3>2. QED
      BY <1>1, <3>1, CostAddsUp
  <2>2. QED
    BY <1>2, <2>1
<1>6. Cost(doc) = Total(costs)
  BY <1>1 DEF Cost, set
<1> HIDE DEF deep, broad, costs
<1>7. Cost(doc) \in Nat /\ \A i \in Operations(doc) : costs[i] <= Cost(doc)
  BY <1>1, <1>2, <1>5, <1>6, TotalBounds
<1>8. Max(Deep) \in Nat /\ \A x \in Deep : x <= Max(Deep)
  <2>1. Total(deep) \in Nat /\ \A i \in 1 .. L : deep[i] <= Total(deep)
    BY <1>1, <1>3, TotalBounds
  <2>2. Deep \in SUBSET Nat /\ Deep # {} /\ \A x \in Deep : x <= Total(deep)
    BY <1>2, <1>3, <2>1
  <2> HIDE DEF Deep
  <2>3. Max(Deep) \in Deep /\ \A x \in Deep : x <= Max(Deep)
    BY <2>1, <2>2, Greatest
  <2>4. QED
    BY <2>2, <2>3
<1>9. Max(Broad) \in Nat /\ \A x \in Broad : x <= Max(Broad)
  <2>1. Total(broad) \in Nat /\ \A i \in 1 .. L : broad[i] <= Total(broad)
    BY <1>1, <1>4, TotalBounds
  <2>2. Broad \in SUBSET Nat /\ Broad # {} /\ \A x \in Broad : x <= Total(broad)
    BY <1>2, <1>4, <2>1
  <2> HIDE DEF Broad
  <2>3. Max(Broad) \in Broad /\ \A x \in Broad : x <= Max(Broad)
    BY <2>1, <2>2, Greatest
  <2>4. QED
    BY <2>2, <2>3
<1>10. QueryDepth(doc) = Max(Deep) /\ QueryBreadth(doc) = Max(Broad)
  BY DEF QueryDepth, QueryBreadth, set
<1>11. \A i \in Operations(doc) :
           Depth(doc, set(i)) \in Deep /\ Breadth(doc, set(i)) \in Broad
  OBVIOUS
<1> HIDE DEF Deep, Broad
<1>12. QED
  BY <1>5, <1>7, <1>8, <1>9, <1>10, <1>11 DEF set

\* The inductive invariant: what passed was measured to be within every limit.
GraphQLInv ==
    /\ GraphQLTypeOK
    /\ verdict = "passed" =>
           /\ QueryDepth(document) <= DepthLimit
           /\ QueryBreadth(document) <= BreadthLimit
           /\ Cost(document) <= CostLimit
           /\ ~Introspection => ~IsIntrospection(document)

LEMMA GraphQLInvInit == GraphQLInit => GraphQLInv
BY GraphQLAssumption DEF GraphQLInit, GraphQLInv, GraphQLTypeOK

LEMMA GraphQLInvStep == GraphQLInv /\ [GraphQLNext]_graphQLVars => GraphQLInv'
<1> SUFFICES ASSUME GraphQLInv, [GraphQLNext]_graphQLVars PROVE GraphQLInv'
  OBVIOUS
<1>1. CASE UNCHANGED graphQLVars
  BY <1>1 DEF graphQLVars, GraphQLInv, GraphQLTypeOK
<1>2. CASE Validate
  <2> DEFINE deep == QueryDepth(document)
             broad == QueryBreadth(document)
             cost == Cost(document)
             asks == IsIntrospection(document)
  <2>1. /\ document' = document /\ IsDocument(document)
        /\ deep \in Nat /\ broad \in Nat /\ cost \in Nat
        /\ DepthLimit \in Nat /\ BreadthLimit \in Nat /\ CostLimit \in Nat
    BY <1>2, QueryMeasures, GraphQLAssumption DEF Validate, GraphQLInv, GraphQLTypeOK
  <2>2. verdict' = IF deep > DepthLimit THEN "depth"
                   ELSE IF broad > BreadthLimit THEN "breadth"
                   ELSE IF cost > CostLimit THEN "cost"
                   ELSE IF ~Introspection /\ asks THEN "introspection" ELSE "passed"
    BY <1>2 DEF Validate
  <2>3. /\ QueryDepth(document') = deep /\ QueryBreadth(document') = broad
        /\ Cost(document') = cost /\ IsIntrospection(document') = asks
    BY <2>1
  <2> HIDE DEF deep, broad, cost, asks
  <2>4. GraphQLTypeOK'
    BY <2>1, <2>2 DEF GraphQLTypeOK
  <2>5. verdict' = "passed" =>
            /\ deep <= DepthLimit /\ broad <= BreadthLimit /\ cost <= CostLimit
            /\ ~Introspection => ~asks
    BY <2>1, <2>2
  <2>6. QED
    BY <2>3, <2>4, <2>5 DEF GraphQLInv
<1>3. QED
  BY <1>1, <1>2 DEF GraphQLNext

\* An operation that passes is within the limits on every way down.
LEMMA InvIsWithinLimits == GraphQLInv => PassedWithinLimits
<1> SUFFICES ASSUME GraphQLInv, verdict = "passed", NEW i \in Operations(document)
             PROVE  LET set == document.definitions[i].set IN
                    /\ \A w \in FieldWays(document, set) :
                           /\ Level(document, w) <= DepthLimit
                           /\ \A j \in DOMAIN w : w[j][2] <= BreadthLimit
                           /\ ~Introspection =>
                                  Selected(document, Last(w)).name \notin MetaFields
                    /\ (\A f \in Fragments(document) : f < i) =>
                           Cardinality(Charges(document, set)) <= CostLimit
  BY DEF PassedWithinLimits
<1> DEFINE doc == document
           n == document.definitions[i].set
<1>1. /\ IsDocument(doc) /\ n \in 1 .. Len(doc.sets) /\ i \in DOMAIN doc.definitions
      /\ n \in 0 .. Len(doc.sets)
  <2>1. IsDocument(doc) /\ i \in DOMAIN doc.definitions
    BY DEF GraphQLInv, GraphQLTypeOK, Operations, OfKind
  <2>2. n \in DOMAIN doc.sets
    BY <2>1 DEF IsDocument
  <2>3. QED
    BY <2>1, <2>2, Shape
<1>2. /\ Depth(doc, n) \in Nat /\ Depth(doc, n) <= DepthLimit
      /\ Breadth(doc, n) \in Nat /\ Breadth(doc, n) <= BreadthLimit
      /\ {DepthLimit, BreadthLimit, CostLimit} \subseteq Nat
  <2>1. /\ Depth(doc, n) \in Nat /\ Breadth(doc, n) \in Nat
    BY <1>1, DepthDescends, BreadthBounds
  <2>2. /\ Depth(doc, n) <= QueryDepth(doc) /\ QueryDepth(doc) <= DepthLimit
        /\ Breadth(doc, n) <= QueryBreadth(doc) /\ QueryBreadth(doc) <= BreadthLimit
        /\ QueryDepth(doc) \in Nat /\ QueryBreadth(doc) \in Nat
    BY <1>1, QueryMeasures DEF GraphQLInv
  <2>3. {DepthLimit, BreadthLimit, CostLimit} \subseteq Nat
    BY GraphQLAssumption
  <2> HIDE DEF doc, n
  <2>4. QED
    BY <2>1, <2>2, <2>3
<1>3. ASSUME NEW w \in FieldWays(doc, n)
      PROVE  /\ Level(doc, w) <= DepthLimit
             /\ \A j \in DOMAIN w : w[j][2] <= BreadthLimit
             /\ ~Introspection => Selected(doc, Last(w)).name \notin MetaFields
  <2>1. Route(doc, n, w) /\ Selected(doc, Last(w)).kind = "field"
    BY <1>1, <1>3, WaysAreRoutes DEF FieldWays
  <2>2. /\ Len(w) \in Nat /\ DOMAIN w = 1 .. Len(w)
        /\ \A j \in 1 .. Len(w) : w[j][2] \in Nat
    <3>1. w \in Seq(Places(doc))
      BY <2>1 DEF Route
    <3>2. ASSUME NEW j \in 1 .. Len(w) PROVE w[j][2] \in Nat
      <4>1. w[j] \in Places(doc)
        BY <3>1
      <4>2. PICK m \in DOMAIN doc.sets : w[j][2] \in DOMAIN doc.sets[m]
        BY <4>1 DEF Places
      <4>3. m \in 1 .. Len(doc.sets)
        BY <1>1, Shape
      <4> HIDE DEF doc, n
      <4>4. DOMAIN doc.sets[m] = 1 .. Len(doc.sets[m]) /\ Len(doc.sets[m]) \in Nat
        BY <1>1, <4>3, Shape
      <4>5. QED
        BY <4>2, <4>4
    <3>3. QED
      BY <3>1, <3>2
  <2>3. Len(w) <= Depth(doc, n) /\ \A j \in 1 .. Len(w) : w[j][2] <= Breadth(doc, n)
    BY <1>1, <2>1, RouteBounds
  <2>4. Level(doc, w) \in Nat /\ Level(doc, w) <= Len(w)
    <3> DEFINE S == {j \in DOMAIN w : Selected(doc, w[j]).kind = "field"}
    <3>1. S \in SUBSET (1 .. Len(w)) /\ Level(doc, w) = Cardinality(S)
      BY <2>2 DEF Level
    <3> HIDE DEF S
    <3>2. IsFiniteSet(1 .. Len(w)) /\ Cardinality(1 .. Len(w)) = Len(w)
      <4> DEFINE l == Len(w)
      <4>1. l \in Int /\ l \in Nat /\ 1 \in Int
        BY <2>2
      <4> HIDE DEF l
      <4>2. IsFiniteSet(1 .. l)
            /\ Cardinality(1 .. l) = IF 1 > l THEN 0 ELSE l - 1 + 1
        BY <4>1, FS_Interval
      <4>3. (IF 1 > l THEN 0 ELSE l - 1 + 1) = l
        BY <4>1
      <4>4. QED
        BY <4>2, <4>3 DEF l
    <3>3. IsFiniteSet(S) /\ Cardinality(S) <= Cardinality(1 .. Len(w))
      BY <3>1, <3>2, FS_Subset
    <3>4. QED
      BY <3>1, <3>2, <3>3, FS_CardinalityType
  <2>5. ~Introspection => Selected(doc, Last(w)).name \notin MetaFields
    <3> SUFFICES ASSUME ~Introspection
                 PROVE  Selected(doc, Last(w)).name \notin MetaFields
      OBVIOUS
    <3>1. PICK d \in DOMAIN doc.definitions :
              Selected(doc, Last(w)).name \in FieldNames(doc, doc.definitions[d].set)
      BY <1>1, <2>1, RouteNames
    <3>2. FieldNames(doc, doc.definitions[d].set) \intersect MetaFields = {}
      BY DEF GraphQLInv, IsIntrospection, Searched
    <3>3. QED
      BY <3>1, <3>2
  <2> HIDE DEF doc, n
  <2>6. Level(doc, w) <= DepthLimit
    BY <1>2, <2>2, <2>3, <2>4
  <2>7. \A j \in DOMAIN w : w[j][2] <= BreadthLimit
    BY <1>2, <2>2, <2>3
  <2>8. QED
    BY <2>5, <2>6, <2>7
<1>4. ASSUME \A f \in Fragments(doc) : f < i
      PROVE  Cardinality(Charges(doc, n)) <= CostLimit
  <2>1. Fragments(doc) \intersect 1 .. i = Fragments(doc)
    <3>1. Fragments(doc) \subseteq Nat /\ i \in Nat
      <4>1. DOMAIN doc.definitions \subseteq Nat \ {0}
        BY <1>1 DEF IsDocument
      <4>2. QED
        BY <1>1, <4>1 DEF Fragments, OfKind
    <3>2. 0 \notin Fragments(doc)
      BY <1>1 DEF Fragments, OfKind, IsDocument
    <3> HIDE DEF doc
    <3>3. QED
      BY <1>4, <3>1, <3>2
  <2>2. /\ SelectionCost(doc, Fragments(doc), n) <= Cost(doc) /\ Cost(doc) <= CostLimit
        /\ Cost(doc) \in Nat
    BY <1>1, <2>1, QueryMeasures DEF GraphQLInv
  <2>3. SelectionCost(doc, Fragments(doc), n) \in Nat
    BY <1>1, CostAddsUp
  <2>4. Cardinality(Charges(doc, n)) = SelectionCost(doc, Fragments(doc), n)
    BY <1>1, CostIsCharged
  <2> HIDE DEF doc, n
  <2>5. QED
    BY <1>2, <2>2, <2>3, <2>4
<1>5. QED
  BY <1>3, <1>4

\* However fragments are nested, repeated and ordered, an operation that passes is
\* no deeper, no broader and no costlier than the limits and asks for no
\* introspection (GraphQLSecurityMiddleware, calculate_cost()).
THEOREM QueriesWithinLimits == GraphQLSpec => []PassedWithinLimits
BY GraphQLInvInit, GraphQLInvStep, InvIsWithinLimits, PTL DEF GraphQLSpec

-----------------------------------------------------------------------------
(* Both walks *)

\* The walks over a structure do what their definitions say: the expansion of
\* the roles, through all definitions and removals, and the descent into a query,
\* whatever its fragments (RBACEngine._expand(), GraphQLSecurityMiddleware).
THEOREM WalksAlwaysExact == RbacSpec /\ GraphQLSpec => []WalksExact
BY RolesGrantedExactly, QueriesWithinLimits, PTL DEF WalksExact

-----------------------------------------------------------------------------
(* Types *)

\* Only a layer of the chain, the handler or the server answers, and then the
\* response is on its way.
PipelineTyping == PipelineInv /\ PipelineTypeOK

LEMMA PipelineTypingInit == PipelineInit => PipelineTyping
<1> SUFFICES ASSUME PipelineInit PROVE PipelineTyping
  OBVIOUS
<1>1. PipelineInv
  BY PipelineInvInit
<1>2. place \in Chain
  BY <1>1 DEF PipelineInv, ChainInv
<1>3. PipelineTypeOK
  BY <1>2 DEF PipelineInit, PipelineTypeOK
<1>4. QED
  BY <1>1, <1>3 DEF PipelineTyping

\* What a step may do to the answer of the request.
Answering ==
    \/ way' = way /\ answered' = answered
    \/ /\ way = "in" /\ way' = "out"
       /\ answered' \in (LayerNames \cup {"handler"}) \ {"nobody"}
    \/ way = "out" /\ way' = "done" /\ answered' = answered
    \/ way' = "out" /\ answered' = "server"

Beside == enabled' = enabled /\ exempt' \subseteq exempt \cup Excluding

LEMMA ScansTyped ==
    ASSUME NEW l \in {"malware", "graphql", "prompt_injection", "xxe", "sanitize"},
           NEW threats, NEW next, Scans(l, threats, next)
    PROVE  Answering /\ Beside /\ secured' = secured
<1>1. way = "in" /\ l \in LayerNames
  BY DEF Scans, Turn, LayerNames
<1>2. Answers(l) \/ Forwards(next)
  BY DEF Scans
<1>3. QED
  BY <1>1, <1>2 DEF Answers, Forwards, Answering, Beside

LEMMA PipelineTypingStep ==
    PipelineTyping /\ [PipelineNext]_pipelineVars => PipelineTyping'
<1> SUFFICES ASSUME PipelineTyping, [PipelineNext]_pipelineVars PROVE PipelineTyping'
  OBVIOUS
<1>1. PipelineInv' /\ PipelineTypeOK
  BY PipelineInvStep DEF PipelineTyping
<1>2. /\ place' \in Chain' /\ way' \in {"in", "out", "done"}
      /\ body' \in {"sent", "sanitized", "empty"}
  BY <1>1 DEF PipelineInv, ChainInv
<1>3. Answering /\ Beside /\ secured' \in BOOLEAN
  <2> USE DEF Answering, Beside
  <2>1. CASE UNCHANGED pipelineVars
    BY <1>1, <2>1 DEF pipelineVars, PipelineTypeOK
  <2>2. ASSUME NEW l \in Excluding, Excludes(l)
        PROVE  Answering /\ Beside /\ secured' \in BOOLEAN
    BY <1>1, <2>2 DEF Excludes, PipelineTypeOK
  <2>3. CASE CORS
    BY <1>1, <2>3 DEF CORS, Turn, Answers, Forwards, PipelineTypeOK, LayerNames
  <2>4. CASE Observe
    BY <1>1, <2>4 DEF Observe, Forwards, PipelineTypeOK
  <2>5. CASE CSRF
    BY <1>1, <2>5 DEF CSRF, Turn, Answers, Forwards, PipelineTypeOK, LayerNames
  <2>6. CASE Gate
    BY <1>1, <2>6 DEF Gate, Turn, Answers, Forwards, PipelineTypeOK, LayerNames
  <2>7. CASE Malware \/ PromptInjection \/ XXE
    BY <1>1, <2>7, ScansTyped DEF Malware, PromptInjection, XXE, PipelineTypeOK
  <2>8. CASE GraphQLSecurity
    <3>1. CASE Answers("graphql")
      BY <1>1, <2>8, <3>1 DEF GraphQLSecurity, Turn, Answers, PipelineTypeOK,
                              LayerNames
    <3>2. CASE Scans("graphql", {"costly"}, body)
      BY <1>1, <3>2, ScansTyped DEF PipelineTypeOK
    <3>3. QED
      BY <2>8, <3>1, <3>2 DEF GraphQLSecurity
  <2>9. CASE Sanitize
    <3>1. CASE Answers("sanitize")
      BY <1>1, <2>9, <3>1 DEF Sanitize, Turn, Answers, PipelineTypeOK, LayerNames
    <3>2. CASE Scans("sanitize", {"query", "sqli"}, SanitizedBody)
      BY <1>1, <3>2, ScansTyped DEF PipelineTypeOK
    <3>3. QED
      BY <2>9, <3>1, <3>2 DEF Sanitize
  <2>10. CASE Handler
    BY <1>1, <2>10 DEF Handler, AtHandler, Answers, PipelineTypeOK
  <2>11. CASE SendResponse
    BY <1>1, <2>11 DEF SendResponse, PipelineTypeOK
  <2>12. CASE Raises
    BY <2>12 DEF Raises
  <2>13. QED
    BY <2>1, <2>2, <2>3, <2>4, <2>5, <2>6, <2>7, <2>8, <2>9, <2>10, <2>11, <2>12
    DEF PipelineNext
<1>4. PipelineTypeOK'
  BY <1>1, <1>2, <1>3 DEF PipelineTypeOK, Answering, Beside
<1>5. QED
  BY <1>1, <1>4 DEF PipelineTyping

\* What is kept for a time is kept no longer than the settings say.
RateTyping == LimitsInv /\ RateTypeOK

LEMMA RateTypingInit == RateInit => RateTyping
<1> SUFFICES ASSUME RateInit PROVE RateTyping
  OBVIOUS
<1>1. LimitsInv
  BY LimitsInvInit
<1>2. RateTypeOK
  BY RateConstants, RateAssumption
  DEF RateInit, RateTypeOK, CleanupTtl, LongestBan
<1>3. QED
  BY <1>1, <1>2 DEF RateTyping

\* An escalated ban stays under the cap.
LEMMA EscalatedCapped ==
    ASSUME NEW n \in 1..MaxViolations PROVE Escalated(n) \in 0..MaxBan
<1>1. Multiplier ^ (n - 1) \in Nat \ {0}
  BY PowersArePositive, RateConstants
<1>2. \A a, b \in Nat \ {0} : a * b \in Nat \ {0}
  OBVIOUS
<1>3. BanDuration * Multiplier ^ (n - 1) \in Nat \ {0}
  BY <1>1, <1>2, RateConstants
<1>4. QED
  BY <1>3, RateConstants DEF Escalated, Least

\* The types of the counters, of the violations and bans, and of the requests.
CountersOK ==
    /\ count \in [Counters -> 0..MaxRequests + Cardinality(Requests)]
    /\ countTtl \in [Counters -> 0..CountWindow]
    /\ \A c \in Counters : countTtl[c] = 0 => count[c] = 0
BansOK ==
    /\ violTtl \in 0..(IF backend = "memory" THEN CleanupTtl ELSE ViolationTtl)
    /\ backend \in {"redis", "memory"} /\ ban \in 0..LongestBan
RequestsOK ==
    /\ counters \in [Requests -> SUBSET Counters]
    /\ \A r \in Requests : pending[r] \subseteq counters[r]
    /\ banFor \in [Requests -> 0..MaxBan]

LEMMA RateTypeParts ==
    LimitsInv /\ RateTypeOK => RatesTyped /\ CountersOK /\ BansOK /\ RequestsOK
BY DEF LimitsInv, RateTypeOK, CountersOK, BansOK, RequestsOK

LEMMA RateDurations ==
    /\ CleanupTtl \in Nat /\ ViolationTtl \in Nat /\ LongestBan \in Nat
    /\ CountWindow \in Nat \ {0} /\ MaxRequests \in Nat
    /\ MaxBan \in Nat /\ TrapBan \in Nat
    /\ MaxBan <= LongestBan /\ TrapBan <= LongestBan
BY RateAssumption DEF CleanupTtl, LongestBan

\* A request that ends leaves nothing behind.
LEMMA FinishedOK ==
    ASSUME RatesTyped, RequestsOK, NEW r \in Requests, Finishes(r)
    PROVE  RequestsOK'
<1>1. /\ counters' = [counters EXCEPT ![r] = {}]
      /\ pending' = [pending EXCEPT ![r] = {}]
      /\ banFor' = [banFor EXCEPT ![r] = 0]
  BY DEF Finishes
<1>2. banFor' \in [Requests -> 0..MaxBan] /\ counters' \in [Requests -> SUBSET Counters]
  BY <1>1, RateDurations DEF RequestsOK
<1>3. \A q \in Requests : pending'[q] \subseteq counters'[q]
  BY <1>1 DEF RatesTyped, RequestsOK
<1>4. QED
  BY <1>2, <1>3 DEF RequestsOK

LEMMA TickOK ==
    ASSUME RatesTyped, CountersOK, BansOK, RequestsOK, RateTick
    PROVE  CountersOK' /\ BansOK' /\ RequestsOK'
<1> USE RateDurations, RateConstants
<1>1. \A c \in Counters :
          /\ countTtl'[c] = IF countTtl[c] = 0 THEN 0 ELSE countTtl[c] - 1
          /\ count'[c] = IF countTtl[c] <= 1 THEN 0 ELSE count[c]
          /\ countTtl[c] \in 0..CountWindow
          /\ count[c] \in 0..MaxRequests + Cardinality(Requests)
  BY DEF RateTick, CountersOK
<1>2. /\ countTtl' = [c \in Counters |-> countTtl'[c]]
      /\ count' = [c \in Counters |-> count'[c]]
  BY DEF RateTick
<1>3. \A c \in Counters :
          /\ countTtl'[c] \in 0..CountWindow
          /\ count'[c] \in 0..MaxRequests + Cardinality(Requests)
          /\ countTtl'[c] = 0 => count'[c] = 0
  BY <1>1
<1>4. CountersOK'
  <2>1. /\ countTtl' \in [Counters -> 0..CountWindow]
        /\ count' \in [Counters -> 0..MaxRequests + Cardinality(Requests)]
    BY <1>2, <1>3
  <2>2. QED
    BY <1>3, <2>1 DEF CountersOK
<1>5. BansOK'
  BY DEF RateTick, BansOK, CleanupTtl, LongestBan
<1>6. RequestsOK'
  BY DEF RateTick, requests, RequestsOK
<1>7. QED
  BY <1>4, <1>5, <1>6

LEMMA CountOneOK ==
    ASSUME RatesTyped, CountersOK, BansOK, RequestsOK,
           NEW r \in Requests, NEW c \in Counters, CountOne(r, c)
    PROVE  CountersOK' /\ BansOK' /\ RequestsOK'
<1> USE RateDurations, RateConstants
<1>1. /\ count[c] < MaxRequests + Cardinality(Requests)
      /\ count' = [count EXCEPT ![c] = count[c] + 1]
      /\ countTtl' = [countTtl EXCEPT ![c] = IF countTtl[c] = 0 THEN CountWindow
                                             ELSE countTtl[c]]
      /\ pending' = [pending EXCEPT ![r] = pending[r] \ {c}]
      /\ UNCHANGED <<backend, violTtl, ban, counters, banFor>>
  BY DEF CountOne, Tally
<1>2. CountersOK'
  <2>1. count[c] + 1 \in 0..MaxRequests + Cardinality(Requests)
    BY <1>1 DEF CountersOK
  <2>2. (IF countTtl[c] = 0 THEN CountWindow ELSE countTtl[c]) \in 1..CountWindow
    BY DEF CountersOK
  <2>3. /\ count' \in [Counters -> 0..MaxRequests + Cardinality(Requests)]
        /\ countTtl' \in [Counters -> 0..CountWindow]
    BY <1>1, <2>1, <2>2 DEF CountersOK
  <2>4. ASSUME NEW k \in Counters PROVE countTtl'[k] = 0 => count'[k] = 0
    <3>1. CASE k = c
      BY <1>1, <2>2, <3>1 DEF CountersOK
    <3>2. CASE k # c
      BY <1>1, <3>2 DEF CountersOK
    <3>3. QED
      BY <3>1, <3>2
  <2>5. QED
    BY <2>3, <2>4 DEF CountersOK
<1>3. RequestsOK'
  BY <1>1 DEF RatesTyped, RequestsOK
<1>4. BansOK'
  BY <1>1 DEF BansOK
<1>5. QED
  BY <1>2, <1>3, <1>4

\* The other steps of a request count nothing.
LEMMA OtherStepsOK ==
    ASSUME RatesTyped, CountersOK, BansOK, RequestsOK, NEW r \in Requests,
           \/ Arrive(r) \/ CheckBan(r) \/ Violate(r) \/ BanIp(r) \/ CheckTrapBan(r)
           \/ HandleTrap(r) \/ Respond(r) \/ Abandon(r)
    PROVE  CountersOK' /\ BansOK' /\ RequestsOK'
<1> USE RateDurations, RateConstants
<1>1. CountersOK'
  <2>1. UNCHANGED <<count, countTtl>>
    BY DEF Arrive, CheckBan, Violate, BanIp, CheckTrapBan, HandleTrap, Respond, Abandon,
           limits
  <2>2. QED
    BY <2>1 DEF CountersOK
<1>2. BansOK'
  <2>1. CASE Violate(r)
    <3>1. /\ violTtl' \in {CleanupTtl, ViolationTtl, violTtl}
          /\ backend = "memory" => violTtl' = CleanupTtl
          /\ backend = "redis" => violTtl' \in {ViolationTtl, violTtl}
          /\ UNCHANGED <<backend, ban>>
      BY <2>1 DEF Violate, BansOK
    <3>2. QED
      BY <3>1 DEF BansOK
  <2>2. CASE BanIp(r) \/ HandleTrap(r)
    <3>1. UNCHANGED <<backend, violTtl>> /\ ban' \in {TrapBan, banFor[r]}
      BY <2>2 DEF BanIp, HandleTrap, Bans
    <3>2. ban' \in 0..LongestBan
      BY <3>1 DEF RequestsOK
    <3>3. QED
      BY <3>1, <3>2 DEF BansOK
  <2>3. CASE Arrive(r) \/ CheckBan(r) \/ CheckTrapBan(r) \/ Respond(r) \/ Abandon(r)
    <3>1. UNCHANGED <<backend, violTtl, ban>>
      BY <2>3 DEF Arrive, CheckBan, CheckTrapBan, Respond, Abandon, limits
    <3>2. QED
      BY <3>1 DEF BansOK
  <2>4. QED
    BY <2>1, <2>2, <2>3
<1>3. RequestsOK'
  <2>1. CASE Finishes(r)
    BY <2>1, FinishedOK
  <2>2. CASE UNCHANGED <<counters, pending, banFor>>
    BY <2>2 DEF RequestsOK
  <2>3. CASE Arrive(r)
    <3>1. PICK ks \in SUBSET Counters : /\ counters' = [counters EXCEPT ![r] = ks]
                                        /\ pending' = [pending EXCEPT ![r] = ks]
      BY <2>3 DEF Arrive
    <3>2. banFor' = banFor
      BY <2>3 DEF Arrive
    <3>3. QED
      BY <3>1, <3>2 DEF RatesTyped, RequestsOK
  <2>4. CASE Violate(r) /\ ~Finishes(r)
    <3>1. /\ violations < MaxViolations /\ violations' = violations + 1
          /\ banFor' = [banFor EXCEPT ![r] = Escalated(violations')]
          /\ UNCHANGED <<counters, pending>>
      BY <2>4 DEF Violate
    <3>2. violations' \in 1..MaxViolations
      BY <3>1 DEF RatesTyped
    <3>3. Escalated(violations') \in 0..MaxBan
      BY <3>2, EscalatedCapped
    <3>4. QED
      BY <3>1, <3>3 DEF RequestsOK
  <2>5. QED
    BY <2>1, <2>2, <2>3, <2>4
    DEF CheckBan, BanIp, CheckTrapBan, HandleTrap, Respond, Abandon
<1>4. QED
  BY <1>1, <1>2, <1>3

LEMMA RateTypingStep == RateTyping /\ [RateNext]_rateVars => RateTyping'
<1> SUFFICES ASSUME RateTyping, [RateNext]_rateVars PROVE RateTyping'
  OBVIOUS
<1>1. LimitsInv' /\ RatesTyped /\ CountersOK /\ BansOK /\ RequestsOK
  BY LimitsInvStep, RateTypeParts DEF RateTyping
<1>2. CountersOK' /\ BansOK' /\ RequestsOK'
  <2>1. CASE RateTick
    BY <1>1, <2>1, TickOK
  <2>2. CASE CleanUp \/ UnbanIp \/ UNCHANGED rateVars
    <3>1. /\ UNCHANGED <<backend, count, countTtl, violTtl, counters, pending, banFor>>
          /\ ban' \in {0, ban}
      BY <2>2 DEF CleanUp, UnbanIp, rateVars, limits, requests
    <3>2. QED
      BY <1>1, <3>1, RateDurations DEF CountersOK, BansOK, RequestsOK
  <2>3. ASSUME NEW r \in Requests, RequestStep(r)
        PROVE  CountersOK' /\ BansOK' /\ RequestsOK'
    BY <1>1, <2>3, CountOneOK, OtherStepsOK DEF RequestStep
  <2>4. QED
    BY <2>1, <2>2, <2>3 DEF RateNext
<1>3. RateTypeOK'
  BY <1>1, <1>2 DEF LimitsInv, RatesTyped, CountersOK, BansOK, RequestsOK, RateTypeOK
<1>4. QED
  BY <1>1, <1>3 DEF RateTyping

\* The failures of an address are kept by their places.
EnumerationTyping == DetectionInv /\ EnumerationTypeOK

LEMMA EnumerationTypingInit == EnumerationInit => EnumerationTyping
<1> SUFFICES ASSUME EnumerationInit PROVE EnumerationTyping
  OBVIOUS
<1>1. DetectionInv
  BY DetectionInvInit
<1>2. EnumerationTypeOK
  BY EnumerationAssumption DEF EnumerationInit, EnumerationTypeOK, Times
<1>3. QED
  BY <1>1, <1>2 DEF EnumerationTyping

\* The detector's part of the types and that of the requests.
DetectorOK ==
    /\ audited \in BOOLEAN /\ failTime \in Times
    /\ failures \in [Callers -> SUBSET (1..MaxTracked)]
    /\ failed \in [Callers -> Seq(Times)]
AuthCallsOK ==
    /\ authStep \in [AuthCalls -> {"idle", "handler", "track", "report", "pad",
                                   "answered"}]
    /\ caller \in [AuthCalls -> Callers \cup {NoCaller}]
    /\ answer \in [AuthCalls -> {"none", "success", "as given", "masked", "empty",
                                 "error"}]
    /\ nth \in [AuthCalls -> 0..MaxTracked]
    /\ detected \subseteq AuthCalls /\ reported \subseteq AuthCalls

LEMMA EnumerationTypeParts == EnumerationTypeOK <=> DetectorOK /\ AuthCallsOK
<1>1. UNION {detected, reported} \subseteq AuthCalls <=>
          detected \subseteq AuthCalls /\ reported \subseteq AuthCalls
  OBVIOUS
<1>2. QED
  BY <1>1, Zenon DEF EnumerationTypeOK, DetectorOK, AuthCallsOK

LEMMA EnumerationTypePartsNext == DetectorOK' /\ AuthCallsOK' => EnumerationTypeOK'
BY EnumerationTypeParts, PTL

LEMMA DetectorKept ==
    DetectorOK /\ UNCHANGED <<audited, failTime, failures, failed>> => DetectorOK'
BY Zenon DEF DetectorOK

\* A request that is tracked.
LEMMA TrackOK ==
    ASSUME DetectionInv, DetectorOK, AuthCallsOK, NEW q \in AuthCalls, Track(q)
    PROVE  DetectorOK' /\ AuthCallsOK'
<1> DEFINE c == caller[q]
           latest == Len(failed[c]) + 1
           recent == {i \in failures[c] : InWindow(failed[c][i])} \cup {latest}
<1>1. /\ authStep[q] = "track" /\ Len(failed[c]) < MaxTracked
      /\ failures' = [failures EXCEPT ![c] = recent]
      /\ failed' = [failed EXCEPT ![c] = Append(failed[c], failTime)]
      /\ nth' = [nth EXCEPT ![q] = latest]
      /\ \/ /\ authStep' = [authStep EXCEPT ![q] = "report"]
            /\ detected' = detected \cup {q}
         \/ authStep' = [authStep EXCEPT ![q] = "pad"] /\ detected' = detected
      /\ UNCHANGED <<audited, failTime, caller, answer, reported>>
  BY DEF Track, AuthGoesTo
<1>2. c \in Callers
  BY <1>1 DEF DetectionInv, JudgedFor
<1> HIDE DEF c
<1>3. /\ failed[c] \in Seq(Times) /\ failures[c] \subseteq 1..MaxTracked
      /\ failTime \in Times /\ MaxTracked \in Nat
  BY <1>2, EnumerationAssumption DEF DetectorOK
<1>4. latest \in 1..MaxTracked
  BY <1>1, <1>3
<1>5. recent \subseteq 1..MaxTracked
  <2> HIDE DEF latest
  <2> QED
    BY <1>3, <1>4
<1>6. Append(failed[c], failTime) \in Seq(Times)
  BY <1>3
<1> HIDE DEF latest, recent
<1>7. failures' \in [Callers -> SUBSET (1..MaxTracked)]
  BY <1>1, <1>2, <1>5 DEF DetectorOK
<1>8. failed' \in [Callers -> Seq(Times)]
  BY <1>1, <1>2, <1>6 DEF DetectorOK
<1>9. DetectorOK'
  BY <1>1, <1>7, <1>8 DEF DetectorOK
<1>10. nth' \in [AuthCalls -> 0..MaxTracked]
  <2>1. latest \in 0..MaxTracked
    BY <1>3, <1>4
  <2>2. nth \in [AuthCalls -> 0..MaxTracked] /\ nth' = [nth EXCEPT ![q] = latest]
    BY <1>1 DEF AuthCallsOK
  <2>3. QED
    BY <2>1, <2>2
<1>11. AuthCallsOK'
  BY <1>1, <1>10 DEF AuthCallsOK
<1>12. QED
  BY <1>9, <1>11

LEMMA EnumerationTypingStep ==
    EnumerationTyping /\ [EnumerationNext]_enumerationVars => EnumerationTyping'
<1> SUFFICES ASSUME EnumerationTyping, [EnumerationNext]_enumerationVars
             PROVE  EnumerationTyping'
  OBVIOUS
<1>1. DetectionInv /\ DetectionInv' /\ DetectorOK /\ AuthCallsOK
  BY DetectionInvStep, EnumerationTypeParts DEF EnumerationTyping
<1>2. DetectorOK' /\ AuthCallsOK'
  <2>1. CASE UNCHANGED enumerationVars
    BY <1>1, <2>1, DetectorKept DEF enumerationVars, AuthCallsOK
  <2>2. CASE FailTick
    <3>1. /\ failTime < MaxFailTime /\ failTime' = failTime + 1
          /\ UNCHANGED <<audited, failures, authStep, caller, answer, failed, nth,
                         detected, reported>>
      BY <2>2 DEF FailTick
    <3>2. failTime' \in Times
      BY <1>1, <3>1, EnumerationAssumption DEF DetectorOK, Times
    <3>3. DetectorOK'
      BY <1>1, <3>1, <3>2 DEF DetectorOK
    <3>4. AuthCallsOK'
      BY <1>1, <3>1 DEF AuthCallsOK
    <3>5. QED
      BY <3>3, <3>4
  <2>3. ASSUME NEW q \in AuthCalls, NEW c \in Callers, CallNext(q, c)
        PROVE  DetectorOK' /\ AuthCallsOK'
    BY <1>1, <2>3, DetectorKept DEF CallNext, AuthGoesTo, AuthCallsOK
  <2>4. ASSUME NEW q \in AuthCalls, HandlerSucceeds(q) \/ Pad(q) \/ Report(q)
        PROVE  DetectorOK' /\ AuthCallsOK'
    BY <1>1, <2>4, DetectorKept
    DEF HandlerSucceeds, Pad, Report, AuthGoesTo, AuthAnswers, AuthCallsOK
  <2>5. ASSUME NEW q \in AuthCalls, HandlerRefuses(q)
        PROVE  DetectorOK' /\ AuthCallsOK'
    <3>1. \E what \in {"masked", "empty", "error"},
             next \in {"answered", "track", "pad"} :
              AuthAnswers(q, what) /\ AuthGoesTo(q, next)
      BY <2>5 DEF HandlerRefuses, Normalized
    <3>2. UNCHANGED <<audited, failTime, failures, caller, failed, nth, detected,
                      reported>>
      BY <2>5 DEF HandlerRefuses
    <3>3. QED
      BY <1>1, <3>1, <3>2, DetectorKept DEF AuthGoesTo, AuthAnswers, AuthCallsOK
  <2>6. ASSUME NEW q \in AuthCalls, AuthDone(q)
        PROVE  DetectorOK' /\ AuthCallsOK'
    <3>1. /\ UNCHANGED <<audited, failTime, failures, failed>>
          /\ caller' = [caller EXCEPT ![q] = NoCaller]
          /\ answer' = [answer EXCEPT ![q] = "none"]
          /\ authStep' = [authStep EXCEPT ![q] = "idle"]
          /\ nth' = [nth EXCEPT ![q] = 0]
          /\ detected' = detected \ {q} /\ reported' = reported \ {q}
      BY <2>6 DEF AuthDone, AuthGoesTo, AuthAnswers
    <3>2. 0 \in 0..MaxTracked
      BY EnumerationAssumption
    <3>3. QED
      BY <1>1, <3>1, <3>2, DetectorKept DEF AuthCallsOK
  <2>7. QED
    BY <1>1, <2>1, <2>2, <2>3, <2>4, <2>5, <2>6, TrackOK DEF EnumerationNext
<1>3. QED
  BY <1>1, <1>2, EnumerationTypePartsNext DEF EnumerationTyping

\* A callback that asks for the user has had its code accepted; codes and the
\* times of the logins are those so far.
CodesOut ==
    \A c \in Callbacks : callback[c].step = "userinfo" => callback[c].code \in codes

OAuthTyping == OAuthInv /\ OAuthTypeOK /\ CodesOut

LEMMA OAuthTypingInit == OAuthInit => OAuthTyping
<1> SUFFICES ASSUME OAuthInit PROVE OAuthTyping
  OBVIOUS
<1>1. OAuthInv
  BY OAuthInvInit
<1>2. OAuthTypeOK /\ CodesOut
  BY OAuthAssumption DEF OAuthInit, OAuthTypeOK, CodesOut, IdleCallback
<1>3. QED
  BY <1>1, <1>2 DEF OAuthTyping

LEMMA OAuthTypingStep == OAuthTyping /\ [OAuthNext]_oauthVars => OAuthTyping'
<1> SUFFICES ASSUME OAuthTyping, [OAuthNext]_oauthVars PROVE OAuthTyping'
  OBVIOUS
<1>1. /\ OAuthTypeOK /\ CodesOut /\ LoginsInv /\ StatesInv /\ CallbacksInv
      /\ CompletedInv
  BY DEF OAuthTyping, OAuthInv
<1>2. OAuthInv'
  BY OAuthInvKeeps DEF OAuthTyping
<1>3. /\ redeemed' \in [LoginIds -> Nat] /\ codes' \subseteq DOMAIN begun'
      /\ callback' \in [Callbacks -> {IdleCallback} \cup Carried]
      /\ DOMAIN begun' \subseteq LoginIds
  BY <1>2 DEF OAuthInv, LoginsInv, StatesInv, CallbacksInv
<1>4. \A c \in Callbacks : callback'[c].step \in {"idle", "exchange", "userinfo"}
  BY <1>3 DEF IdleCallback, Carried
\* The clock and the logins.
<1>5. /\ wall' \in 0..MaxLoginTime
      /\ \A n \in DOMAIN begun' : begun'[n] \in [provider : Providers, at : 0..wall']
  <2>1. CASE UNCHANGED <<wall, begun>>
    BY <1>1, <2>1 DEF OAuthTypeOK
  <2>2. CASE SecondPasses
    <3>1. wall' = wall + 1 /\ wall < MaxLoginTime /\ begun' = begun /\ wall \in Nat
          /\ MaxLoginTime \in Nat
      BY <1>1, <2>2, OAuthAssumption DEF SecondPasses, OAuthTypeOK
    <3>2. 0..wall \subseteq 0..wall'
      BY <3>1
    <3>3. QED
      BY <1>1, <3>1, <3>2 DEF OAuthTypeOK
  <2>3. ASSUME NEW w \in ServerProcesses, NEW p \in Providers, BeginLogin(w, p)
        PROVE  \A n \in DOMAIN begun' :
                   begun'[n] \in [provider : Providers, at : 0..wall']
    <3>1. PICK k \in Nat : DOMAIN begun = 1..k
      BY <1>1 DEF LoginsInv
    <3>2. LoginNumber = k
      BY <3>1, FS_Interval DEF LoginNumber
    <3>3. /\ begun' = [i \in 1..k + 1 |->
                          IF i = k + 1 THEN [provider |-> p, at |-> wall]
                          ELSE begun[i]]
          /\ wall' = wall /\ wall \in Nat
      BY <1>1, <2>3, <3>2 DEF BeginLogin, OAuthTypeOK
    <3>4. ASSUME NEW n \in 1..k + 1
          PROVE  begun'[n] \in [provider : Providers, at : 0..wall']
      <4>1. CASE n = k + 1
        <5>1. begun'[n] = [provider |-> p, at |-> wall] /\ wall \in 0..wall'
          BY <3>3, <4>1
        <5>2. QED
          BY <5>1
      <4>2. CASE n # k + 1
        <5>1. begun'[n] = begun[n] /\ n \in DOMAIN begun /\ wall' = wall
          BY <3>1, <3>3, <4>2
        <5>2. begun[n] \in [provider : Providers, at : 0..wall]
          BY <1>1, <5>1 DEF OAuthTypeOK
        <5>3. QED
          BY <5>1, <5>2
      <4>3. QED
        BY <4>1, <4>2
    <3>5. QED
      BY <3>3, <3>4
  <2>4. (\E w \in ServerProcesses, p \in Providers : BeginLogin(w, p)) => wall' = wall
    BY DEF BeginLogin
  <2>5. wall \in 0..MaxLoginTime
    BY <1>1 DEF OAuthTypeOK
  <2>6. \/ UNCHANGED <<wall, begun>> \/ SecondPasses
        \/ \E w \in ServerProcesses, p \in Providers : BeginLogin(w, p)
    BY DEF OAuthNext, WorkerRestarts, Consent, Callback, ExchangeCode, UserInfo,
           oauthVars
  <2>7. QED
    BY <2>1, <2>2, <2>3, <2>4, <2>5, <2>6
<1>6. ASSUME NEW w \in ServerProcesses, NEW e \in states'[w]
      PROVE  e.state \in DOMAIN begun' /\ e.expires \in 0..wall' + StateTtl
  <2>1. /\ e.state \in DOMAIN begun'
        /\ e.expires = begun'[e.state].at + StateTtl
    BY <1>2 DEF OAuthInv, StatesInv
  <2>2. begun'[e.state].at \in 0..wall' /\ wall' \in Nat /\ StateTtl \in Nat
    BY <1>5, <2>1, OAuthAssumption
  <2>3. QED
    BY <2>1, <2>2
\* The codes, and what the callbacks have of them.
<1>7. /\ codes \subseteq codes'
      /\ \A c \in Callbacks :
             callback'[c].step = "userinfo" =>
                 /\ callback[c].step \in {"exchange", "userinfo"}
                 /\ callback'[c].code = callback[c].code
  <2> SUFFICES ASSUME NEW c \in Callbacks
               PROVE  /\ codes \subseteq codes'
                      /\ callback'[c].step = "userinfo" =>
                             /\ callback[c].step \in {"exchange", "userinfo"}
                             /\ callback'[c].code = callback[c].code
    BY DEF OAuthNext, SecondPasses, WorkerRestarts, BeginLogin, Consent, Callback,
           ExchangeCode, UserInfo, oauthVars
  <2>1. callback \in [Callbacks -> {IdleCallback} \cup Carried]
    BY <1>1 DEF CallbacksInv
  <2>2. CASE UNCHANGED callback
    <3>1. codes \subseteq codes'
      BY DEF OAuthNext, SecondPasses, WorkerRestarts, BeginLogin, Consent, Callback,
             ExchangeCode, UserInfo, oauthVars
    <3>2. QED
      BY <2>2, <3>1
  <2>3. ASSUME NEW w \in ServerProcesses, WorkerRestarts(w)
        PROVE  /\ codes \subseteq codes'
               /\ callback'[c] \in {IdleCallback, callback[c]}
    BY <2>3 DEF WorkerRestarts
  <2>4. ASSUME NEW d \in Callbacks, NEW w \in ServerProcesses, NEW p \in Providers,
               NEW k \in codes, NEW s \in DOMAIN begun, Callback(d, w, p, k, s)
        PROVE  /\ codes \subseteq codes'
               /\ callback'[c] = callback[c] \/ callback'[c].step = "exchange"
    BY <2>1, <2>4 DEF Callback
  <2>5. ASSUME NEW d \in Callbacks, ExchangeCode(d)
        PROVE  /\ codes \subseteq codes'
               /\ \/ callback'[c] \in {IdleCallback, callback[c]}
                  \/ /\ callback[c].step = "exchange"
                     /\ callback'[c] = [callback[c] EXCEPT !.step = "userinfo"]
    BY <2>1, <2>5 DEF ExchangeCode
  <2>6. ASSUME NEW d \in Callbacks, UserInfo(d)
        PROVE  /\ codes \subseteq codes'
               /\ callback'[c] \in {IdleCallback, callback[c]}
    BY <2>1, <2>6 DEF UserInfo
  <2>7. /\ codes \subseteq codes'
        /\ \/ callback'[c] \in {IdleCallback, callback[c]}
           \/ callback'[c].step = "exchange"
           \/ /\ callback[c].step = "exchange"
              /\ callback'[c] = [callback[c] EXCEPT !.step = "userinfo"]
    <3>1. \/ UNCHANGED <<callback, codes>>
          \/ UNCHANGED callback /\ codes \subseteq codes'
          \/ \E w \in ServerProcesses : WorkerRestarts(w)
          \/ \E d \in Callbacks :
                 \/ \E w \in ServerProcesses, p \in Providers :
                        \E k \in codes, s \in DOMAIN begun : Callback(d, w, p, k, s)
                 \/ ExchangeCode(d) \/ UserInfo(d)
      BY DEF OAuthNext, SecondPasses, BeginLogin, Consent, oauthVars
    <3>2. QED
      BY <2>3, <2>4, <2>5, <2>6, <3>1
  <2>8. IdleCallback.step = "idle"
    BY DEF IdleCallback
  <2>9. callback[c].step = "exchange" => callback[c] \in Carried
    BY <2>1, <2>8
  <2>10. QED
    BY <2>7, <2>8, <2>9 DEF Carried
<1>8. \A c \in Callbacks :
          callback[c].step \in {"exchange", "userinfo"} => callback[c].code \in codes
  BY <1>1 DEF CodesOut, CallbacksInv
<1>9. CodesOut'
  BY <1>7, <1>8 DEF CodesOut
<1>10. codesSpent' \subseteq codes'
  <2>1. \/ codesSpent' = codesSpent
        \/ \E c \in Callbacks : /\ callback[c].step = "exchange"
                                /\ codesSpent' = codesSpent \cup {callback[c].code}
    BY DEF OAuthNext, SecondPasses, WorkerRestarts, BeginLogin, Consent, Callback,
           ExchangeCode, UserInfo, oauthVars
  <2>2. QED
    BY <1>1, <1>7, <1>8, <2>1 DEF OAuthTypeOK
<1>11. completed' \subseteq [state : LoginIds, code : codes', provider : Providers]
  <2>1. completed \subseteq [state : LoginIds, code : codes', provider : Providers]
    BY <1>1, <1>7 DEF OAuthTypeOK
  <2>2. \/ completed' = completed
        \/ \E c \in Callbacks :
               /\ callback[c].step = "userinfo"
               /\ completed' = completed \cup {[state |-> callback[c].state,
                                                code |-> callback[c].code,
                                                provider |-> callback[c].provider]}
    BY DEF OAuthNext, SecondPasses, WorkerRestarts, BeginLogin, Consent, Callback,
           ExchangeCode, UserInfo, oauthVars
  <2>3. ASSUME NEW c \in Callbacks, callback[c].step = "userinfo"
        PROVE  callback[c].state \in LoginIds /\ callback[c].provider \in Providers
    <3>1. callback[c] \in {IdleCallback} \cup Carried
      BY <1>1 DEF CallbacksInv
    <3>2. QED
      BY <2>3, <3>1 DEF IdleCallback, Carried
  <2>4. QED
    BY <1>7, <1>8, <2>1, <2>2, <2>3
<1>12. OAuthTypeOK'
  BY <1>3, <1>4, <1>5, <1>6, <1>10, <1>11 DEF OAuthTypeOK
<1>13. QED
  BY <1>2, <1>9, <1>12 DEF OAuthTyping

\* No list of recovery codes is longer than the one that was handed out.
ShortLists ==
    /\ Len(recovery) <= CodeCount
    /\ \A r \in Recoveries : Len(redemption[r].list) <= CodeCount

FactorTyping == RecoveryInv /\ FactorTypeOK /\ ShortLists

LEMMA FactorTypingInit == FactorInit => FactorTyping
<1> SUFFICES ASSUME FactorInit PROVE FactorTyping
  OBVIOUS
<1> USE DEF FactorInit
<1>1. RecoveryInv
  BY RecoveryInvInit
<1>2. CodeCount \in Nat /\ MaxEpoch \in Nat /\ MaxSetups \in Nat /\ Len(<<>>) = 0
  BY MultiFactorAssumption
<1>3. ShortLists
  BY <1>2 DEF ShortLists, NoRequest
<1>4. ToSet(recovery) \subseteq AllCodes
  BY DEF ToSet
<1>5. used \in [AllCodes -> 0..2]
  <2>1. used = [c \in AllCodes |-> 0]
    BY Zenon
  <2>2. QED
    BY ONLY <2>1
<1>6. \A r \in Recoveries : redemption[r].at = "idle"
  BY DEF NoRequest
<1>7. FactorTypeOK
  <2>1. overwritten \in BOOLEAN
    BY Zenon
  <2>2. epoch \in 0..MaxEpoch /\ setups \in 0..MaxSetups
    BY <1>2
  <2>3. QED
    BY <1>3, <1>4, <1>5, <1>6, <2>1, <2>2 DEF FactorTypeOK, ShortLists
<1>8. QED
  BY <1>1, <1>3, <1>7 DEF FactorTyping

LEMMA FactorTypingStep == FactorTyping /\ [FactorNext]_factorVars => FactorTyping'
<1> SUFFICES ASSUME FactorTyping, [FactorNext]_factorVars PROVE FactorTyping'
  OBVIOUS
<1>1. /\ RecoveryInv /\ RecoveryInv' /\ FactorTypeOK /\ ShortLists
      /\ redemption \in [Recoveries -> Request]
  BY RecoveryInvStep DEF FactorTyping, RecoveryInv, RequestsHold
<1>2. CodeCount \in Nat /\ MaxEpoch \in Nat /\ MaxSetups \in Nat /\ Len(<<>>) = 0
  BY MultiFactorAssumption
\* Whatever the step, the stored codes are known, and the requests typed.
<1>3. /\ setups' \in 0..MaxSetups /\ ToSet(recovery') \subseteq AllCodes
      /\ \A r \in Recoveries : redemption'[r].at \in {"idle", "loaded", "verified"}
  <2>1. /\ setups' \in Nat /\ setups' <= MaxSetups /\ CodeList(recovery', setups')
        /\ redemption' \in [Recoveries -> Request]
    BY <1>1 DEF RecoveryInv, CountersTyped, StoredHolds, RequestsHold
  <2>2. HandedOut(setups') \subseteq AllCodes
    BY <2>1, HandedOutIsKnown
  <2>3. QED
    BY <1>2, <2>1, <2>2 DEF CodeList, Request
<1>4. ShortLists'
  <2>1. CASE UNCHANGED factorVars \/ EpochPasses
    BY <1>1, <2>1 DEF factorVars, EpochPasses, ShortLists
  <2>2. CASE Setup
    <3>1. recovery' = Codes(setups + 1) /\ redemption' = redemption
      BY <2>2 DEF Setup
    <3>2. Len(recovery') = CodeCount
      BY <1>2, <3>1 DEF Codes
    <3>3. QED
      BY <1>1, <1>2, <3>1, <3>2 DEF ShortLists
  <2>3. ASSUME NEW r \in Recoveries, NEW c \in 1..setups * CodeCount, LoadCodes(r, c)
        PROVE  ShortLists'
    <3>1. /\ redemption' = [redemption EXCEPT ![r] =
                 [at |-> "loaded", code |-> c, list |-> recovery, basis |-> recovery]]
          /\ recovery' = recovery
      BY <2>3 DEF LoadCodes
    <3>2. QED
      BY <1>1, <3>1 DEF ShortLists
  <2>4. ASSUME NEW r \in Recoveries, VerifyRecovery(r)
        PROVE  ShortLists'
    <3> DEFINE q == redemption[r]
               matches == {i \in DOMAIN q.list : q.list[i] = q.code}
               first == CHOOSE i \in matches : \A j \in matches : i <= j
    <3>1. /\ recovery' = recovery
          /\ redemption' = [redemption EXCEPT ![r] =
                 IF matches = {} THEN NoRequest
                 ELSE [q EXCEPT !.at = "verified",
                                !.list = CodesWithout(q.list, first)]]
      BY <2>4 DEF VerifyRecovery
    <3>2. q \in Request /\ q.list \in Seq(Nat)
      BY <1>1 DEF Request
    <3>3. ASSUME matches # {}
          PROVE  Len(CodesWithout(q.list, first)) <= CodeCount
      <4>1. matches \in SUBSET Nat /\ matches # {}
        BY <3>2, <3>3
      <4>2. \E i \in matches : \A j \in matches : i <= j
        BY <4>1, LeastNumber
      <4>3. first \in matches
        BY <4>2
      <4> HIDE DEF first
      <4>4. first \in 1..Len(q.list)
        BY <3>2, <4>3
      <4>5. CodesWithout(q.list, first) = WithoutAt(q.list, first)
        BY DEF CodesWithout, RemoveAt, WithoutAt
      <4>6. Len(CodesWithout(q.list, first)) = Len(q.list) - 1
        BY <3>2, <4>4, <4>5, RemovedOne
      <4>7. Len(q.list) <= CodeCount /\ Len(q.list) \in Nat
        BY <1>1, <3>2 DEF ShortLists
      <4>8. QED
        BY <1>2, <4>6, <4>7
    <3> HIDE DEF matches, first
    <3>4. CASE matches = {}
      BY <1>1, <1>2, <3>1, <3>4 DEF ShortLists, NoRequest
    <3>5. CASE matches # {}
      <4>1. redemption'[r].list = CodesWithout(q.list, first)
        BY <1>1, <3>1, <3>2, <3>5 DEF Request
      <4>2. QED
        BY <1>1, <3>1, <3>3, <3>5, <4>1 DEF ShortLists
    <3>6. QED
      BY <3>4, <3>5
  <2>5. ASSUME NEW r \in Recoveries, SaveCodes(r)
        PROVE  ShortLists'
    <3>1. /\ recovery' = redemption[r].list
          /\ redemption' = [redemption EXCEPT ![r] = NoRequest]
      BY <2>5 DEF SaveCodes
    <3>2. QED
      BY <1>1, <1>2, <3>1 DEF ShortLists, NoRequest
  <2>6. QED
    BY <2>1, <2>2, <2>3, <2>4, <2>5 DEF FactorNext
<1>5. /\ epoch' \in 0..MaxEpoch /\ used' \in [AllCodes -> 0..2]
      /\ overwritten' \in BOOLEAN
  <2>1. \/ UNCHANGED <<epoch, used, overwritten>>
        \/ epoch < MaxEpoch /\ epoch' = epoch + 1 /\ UNCHANGED <<used, overwritten>>
        \/ \E r \in Recoveries : SaveCodes(r)
    BY DEF FactorNext, EpochPasses, Setup, LoadCodes, VerifyRecovery, factorVars
  <2>2. CASE \E r \in Recoveries : SaveCodes(r)
    <3>1. epoch' = epoch /\ overwritten' \in BOOLEAN
      BY <2>2 DEF SaveCodes
    <3>2. PICK c : \E n \in {1, 2} : used' = [used EXCEPT ![c] = n]
      <4>1. PICK r \in Recoveries : SaveCodes(r)
        BY <2>2
      <4> DEFINE c == redemption[r].code
                 n == IF used[c] = 0 THEN 1 ELSE 2
      <4>2. used' = [used EXCEPT ![c] = n]
        BY <4>1 DEF SaveCodes
      <4>3. n \in {1, 2}
        OBVIOUS
      <4> HIDE DEF c, n
      <4>4. QED
        BY <4>2, <4>3
    <3>3. epoch \in 0..MaxEpoch /\ used \in [AllCodes -> 0..2]
      BY <1>1 DEF FactorTypeOK
    <3>4. used' \in [AllCodes -> 0..2]
      <4>1. PICK n \in {1, 2} : used' = [used EXCEPT ![c] = n]
        BY <3>2
      <4>2. n \in 0..2
        OBVIOUS
      <4>3. QED
        BY ONLY <3>3, <4>1, <4>2
    <3>5. QED
      BY <3>1, <3>3, <3>4
  <2>3. QED
    BY <1>1, <1>2, <2>1, <2>2 DEF FactorTypeOK
<1>6. FactorTypeOK'
  BY <1>3, <1>4, <1>5 DEF FactorTypeOK, ShortLists
<1>7. QED
  BY <1>1, <1>4, <1>6 DEF FactorTyping

\* A challenge is in the store as long as its time has not passed.
WebAuthnTyping == ResponseInv /\ WebAuthnTypeOK

LEMMA WebAuthnTypingInit == WebAuthnInit => WebAuthnTyping
<1> SUFFICES ASSUME WebAuthnInit PROVE WebAuthnTyping
  OBVIOUS
<1>1. ResponseInv
  BY ResponseInvInit
<1>2. WebAuthnTypeOK
  BY WebAuthnConstants DEF WebAuthnInit, WebAuthnTypeOK
<1>3. QED
  BY <1>1, <1>2 DEF WebAuthnTyping

LEMMA WebAuthnTypingStep ==
    WebAuthnTyping /\ [WebAuthnNext]_webAuthnVars => WebAuthnTyping'
<1> SUFFICES ASSUME WebAuthnTyping, [WebAuthnNext]_webAuthnVars PROVE WebAuthnTyping'
  OBVIOUS
<1>1. ResponseInv /\ ResponseInv' /\ WebAuthnTypeOK
  BY ResponseInvStep DEF WebAuthnTyping
<1>2. /\ StoresTyped' /\ CallsTyped' /\ IsFiniteSet(responses)
  BY <1>1 DEF ResponseInv, SignedOK
<1>3. responses' \subseteq Responses
  <2>1. CASE UNCHANGED responses
    BY <1>1, <2>1 DEF WebAuthnTypeOK
  <2>2. CASE Sign
    <3>1. PICK n \in 1..challenges, type \in {"create", "get"} :
              responses' = responses \cup
                  {[challenge |-> n, type |-> type,
                    count |-> IF setup.counts THEN Cardinality(responses) + 1 ELSE 0]}
      BY <2>2 DEF Sign
    <3>2. n \in 1..MaxChallenges
      BY <1>1, WebAuthnConstants DEF WebAuthnTypeOK
    <3>3. Cardinality(responses) \in Nat /\ Cardinality(responses) < MaxResponses
      BY <1>2, <2>2, FS_CardinalityType DEF Sign
    <3>4. (IF setup.counts THEN Cardinality(responses) + 1 ELSE 0) \in 0..MaxResponses
      BY <3>3, WebAuthnConstants
    <3>5. QED
      BY <1>1, <3>1, <3>2, <3>4 DEF WebAuthnTypeOK, Responses
  <2>3. UNCHANGED responses \/ Sign
    BY DEF WebAuthnNext, CreateChallenge, ChallengeAges, Verify, LoadCredential,
           GetChallenge, DeleteChallenge, Check, Store, AbandonCeremony, webAuthnVars
  <2>4. QED
    BY <2>1, <2>2, <2>3
<1>4. challengeTtl' \in 0..ChallengeTtl /\ (challenge' = 0 <=> challengeTtl' = 0)
  <2>1. CASE UNCHANGED <<challenge, challengeTtl>>
    BY <1>1, <2>1 DEF WebAuthnTypeOK
  <2>2. CASE CreateChallenge
    <3>1. \/ UNCHANGED <<challenge, challengeTtl>>
          \/ challenge' = challenges + 1 /\ challengeTtl' = ChallengeTtl
      BY <2>2 DEF CreateChallenge
    <3>2. challenges \in Nat
      BY <1>1, WebAuthnConstants DEF WebAuthnTypeOK
    <3>3. QED
      BY <2>1, <3>1, <3>2, WebAuthnConstants
  <2>3. CASE ChallengeAges
    <3>1. /\ challengeTtl > 0 /\ challengeTtl' = challengeTtl - 1
          /\ challenge' = IF challengeTtl = 1 THEN 0 ELSE challenge
      BY <2>3 DEF ChallengeAges
    <3>2. challengeTtl \in 0..ChallengeTtl /\ (challenge = 0 <=> challengeTtl = 0)
      BY <1>1 DEF WebAuthnTypeOK
    <3>3. QED
      BY <3>1, <3>2, WebAuthnConstants
  <2>4. ASSUME NEW c \in Ceremonies, DeleteChallenge(c)
        PROVE  challenge' = 0 /\ challengeTtl' = 0
    BY <2>4 DEF DeleteChallenge
  <2>5. \/ UNCHANGED <<challenge, challengeTtl>> \/ CreateChallenge \/ ChallengeAges
        \/ \E c \in Ceremonies : DeleteChallenge(c)
    BY DEF WebAuthnNext, Sign, Verify, LoadCredential, GetChallenge, Check, Store,
           AbandonCeremony, webAuthnVars, stores
  <2>6. QED
    BY <2>1, <2>2, <2>3, <2>4, <2>5, WebAuthnConstants
<1>5. WebAuthnTypeOK'
  <2>1. /\ challenges' \in 0..MaxChallenges /\ challenge' \in 0..challenges'
        /\ signCount' \in {NoCredential} \cup 0..MaxResponses
        /\ replayed' \subseteq accepted' /\ accepted' \subseteq responses'
    BY <1>2 DEF StoresTyped
  <2>2. /\ ceremony' \in [Ceremonies -> {"idle", "load", "challenge", "delete",
                                         "check", "save", "update"}]
        /\ \A c \in Ceremonies : response'[c] \in responses' \cup {NoResponse}
        /\ kept' \in [Ceremonies -> 0..challenges']
        /\ loaded' \in [Ceremonies -> {NoCredential} \cup 0..MaxResponses]
        /\ found' \in [Ceremonies -> 0..challenges']
    BY <1>2 DEF CallsTyped
  <2>3. QED
    BY <1>3, <1>4, <2>1, <2>2 DEF WebAuthnTypeOK
<1>6. QED
  BY <1>1, <1>5 DEF WebAuthnTyping

-----------------------------------------------------------------------------
(* All parts *)

\* Every variable of the part that is exercised keeps its type.
THEOREM RequestsTyped == MCSpec => []MCTypeOK
<1> DEFINE allVars == <<part, pipelineVars, rateVars, windowVars, bruteVars,
                        webAuthnVars, oauthVars, discoveryVars, factorVars,
                        rbacVars, graphQLVars, csrfVars, enumerationVars, ipVars>>
           Inv == /\ PipelineTyping /\ RateTyping /\ SlideInv /\ LockoutInv
                  /\ WebAuthnTyping /\ OAuthTyping /\ MetadataInv /\ FactorTyping
                  /\ RbacInv /\ GraphQLInv /\ CsrfInv /\ EnumerationTyping /\ IpInv
<1>1. MCInit => Inv
  BY PipelineTypingInit, RateTypingInit, SlideInvInit, LockoutInvInit,
     WebAuthnTypingInit, OAuthTypingInit, MetadataInvInit, FactorTypingInit,
     RbacInvInit, GraphQLInvInit, CsrfInvInit, EnumerationTypingInit, IpInvInit
  DEF MCInit
<1>2. ASSUME Inv, [MCNext]_allVars
      PROVE  Inv'
  <2>1. /\ [PipelineNext]_pipelineVars /\ [RateNext]_rateVars
        /\ [WindowNext]_windowVars /\ [BruteNext]_bruteVars
        /\ [WebAuthnNext]_webAuthnVars /\ [OAuthNext]_oauthVars
        /\ [DiscoveryNext]_discoveryVars
    BY <1>2 DEF MCNext
  <2>2. /\ [FactorNext]_factorVars /\ [RbacNext]_rbacVars
        /\ [GraphQLNext]_graphQLVars /\ [CsrfNext]_csrfVars
        /\ [EnumerationNext]_enumerationVars /\ [IpNext]_ipVars
    BY <1>2 DEF MCNext
  <2>3. PipelineTyping' /\ RateTyping' /\ SlideInv' /\ LockoutInv'
    BY <1>2, <2>1, PipelineTypingStep, RateTypingStep, SlideInvStep, LockoutInvStep
  <2>4. WebAuthnTyping' /\ OAuthTyping' /\ MetadataInv' /\ FactorTyping'
    BY <1>2, <2>1, <2>2, WebAuthnTypingStep, OAuthTypingStep, MetadataInvStep,
       FactorTypingStep
  <2>5. RbacInv' /\ GraphQLInv' /\ CsrfInv' /\ EnumerationTyping' /\ IpInv'
    BY <1>2, <2>2, RbacInvStep, GraphQLInvStep, CsrfInvStep, EnumerationTypingStep,
       IpInvStep
  <2>6. QED
    BY <2>3, <2>4, <2>5
<1>3. Inv => MCTypeOK
  BY DEF MCTypeOK, PipelineTyping, RateTyping, SlideInv, LockoutInv, WebAuthnTyping,
         OAuthTyping, MetadataInv, FactorTyping, RbacInv, GraphQLInv, CsrfInv,
         EnumerationTyping, IpInv
<1>4. QED
  BY <1>1, <1>2, <1>3, PTL DEF MCSpec

=============================================================================
