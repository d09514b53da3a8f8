---------------------------- MODULE RequestPipeline ----------------------------
(***************************************************************************)
(* One request on its way through the middlewares that AraxysShield        *)
(* registers (src/araxys/shield.py), and its response on the way back.     *)
(* What is modelled is how the layers compose: which is outside which, who *)
(* answers, what of the request body reaches the next layer, and which     *)
(* responses get the security headers.  A layer that decides on state of   *)
(* its own (bans, lockouts, tokens) may pass or refuse any request here.   *)
(***************************************************************************)
EXTENDS Integers, Sequences, FiniteSets, FiniteSetsExt

CONSTANT MaxAbsent   \* bound on the layers that a configuration leaves out or
                     \* that exclude the path

ASSUME PipelineAssumption == MaxAbsent \in Nat

VARIABLES
    enabled,   \* the registered layers
    request,   \* method, content type and what a scanner would find in it
    place,     \* where in Layers the layer is whose turn it is
    way,       \* "in" with the request, "out" with the response, "done"
    body,      \* the body that the layer at place receives
    exempt,    \* layers that exclude the path or its content type
    answered,  \* who made the response: a layer, the handler, or the server
               \* after an exception
    secured    \* the response has the security headers

pipelineVars == <<enabled, request, place, way, body, exempt, answered, secured>>

\* The outermost is the one registered last.  The mutant registers the CSRF
\* check after the security headers.
Layers_Swapped ==
    <<"cors", "headers_audit", "csrf", "secure_headers", "telemetry",
      "rate_limit", "brute_force", "ip_access", "account_protection",
      "honeypot", "malware", "graphql", "prompt_injection", "xxe", "sanitize">>
Layers ==
    <<"cors", "headers_audit", "secure_headers", "csrf", "telemetry",
      "rate_limit", "brute_force", "ip_access", "account_protection",
      "honeypot", "malware", "graphql", "prompt_injection", "xxe", "sanitize">>

LayerNames == {Layers[i] : i \in 1..Len(Layers)}
Excluding == {"csrf", "rate_limit", "account_protection", "malware", "graphql",
              "prompt_injection", "xxe", "sanitize"}

\* What the body of each content type, or the query, can hold: "xss" is the
\* markup that sanitizing strips.
Threats == [none      |-> {"query"},
            json      |-> {"query", "prompt", "sqli", "xss"},
            graphql   |-> {"query", "prompt", "sqli", "xss", "costly"},
            form      |-> {"query", "prompt", "sqli", "xss"},
            multipart |-> {"query", "prompt", "sqli", "xss", "file"},
            xml       |-> {"query", "entity"}]

\* A request that several scanners would reject ends at the first of them, so
\* one threat at a time is enough.  Text that no scanner rejects may become such
\* once the markup in it is gone.
Received ==
    {r \in [method : {"safe", "preflight", "unsafe"},
            origin : {"none", "allowed", "denied"},
            content : DOMAIN Threats,
            threats : {{}} \cup {{t} : t \in UNION {Threats[c] : c \in DOMAIN Threats}},
            beneath : {{}, {"prompt"}, {"sqli"}, {"costly"}},
            malformed : BOOLEAN] :
        /\ r.threats \cup r.beneath \subseteq Threats[r.content]
        /\ r.beneath # {} => r.threats = {"xss"}
        /\ r.method # "unsafe" => r.content = "none"
        /\ r.malformed => /\ r.content \in {"json", "graphql", "form"}
                          /\ r.threats \subseteq {"query"}}

\* The chain of the registered layers, from the place before them to the
\* handler.
Chain == {0, Len(Layers) + 1} \cup {i \in 1..Len(Layers) : Layers[i] \in enabled}
Inward == Min({i \in Chain : i > place})
Outward == Max({i \in Chain : i < place})
AtHandler == way = "in" /\ place = Len(Layers) + 1

PipelineTypeOK ==
    /\ enabled \subseteq LayerNames
    /\ place \in Chain
    /\ way \in {"in", "out", "done"}
    /\ body \in {"sent", "sanitized", "empty"}
    /\ exempt \subseteq Excluding
    /\ answered \in LayerNames \cup {"nobody", "handler", "server"}
    /\ answered = "nobody" <=> way = "in"
    /\ secured \in BOOLEAN

PipelineInit ==
    /\ enabled \in {e \in SUBSET LayerNames :
                       Cardinality(LayerNames \ e) <= MaxAbsent}
    /\ request \in Received
    /\ place = Min(Chain \ {0})
    /\ way = "in"
    /\ body = "sent"
    /\ exempt = {}
    /\ answered = "nobody"
    /\ secured = FALSE

-----------------------------------------------------------------------------
(* What every layer does *)

Turn(l) == way = "in" /\ place \in 1..Len(Layers) /\ Layers[place] = l

\* call_next(), with the body that the next layer will receive.
Forwards(next) ==
    /\ place' = Inward
    /\ body' = next
    /\ UNCHANGED <<enabled, request, way, exempt, answered, secured>>

Answers(l) ==
    /\ way' = "out"
    /\ answered' = l
    /\ place' = Outward
    /\ UNCHANGED <<enabled, request, body, exempt, secured>>

\* An excluded path, pattern or content type.
Excludes(l) ==
    /\ l \in Excluding
    /\ Turn(l)
    /\ Cardinality((LayerNames \ enabled) \cup exempt) < MaxAbsent
    /\ exempt' = exempt \cup {l}
    /\ place' = Inward
    /\ UNCHANGED <<enabled, request, way, body, answered, secured>>

\* What is left of what was sent, what stripping the markup has brought about,
\* and what a scanner would find of both in the request as it is handed on.
Kept ==
    CASE body = "sent" -> request.threats
      [] body = "sanitized" -> request.threats \ {"xss"}
      [] body = "empty" -> request.threats \cap {"query"}
Revealed == IF body = "sanitized" THEN request.beneath ELSE {}
Found == Kept \cup Revealed

Scans(l, threats, next) ==
    /\ Turn(l)
    /\ IF Found \cap threats # {} THEN Answers(l) ELSE Forwards(next)

-----------------------------------------------------------------------------
(* The layers *)

CORS ==
    /\ Turn("cors")
    /\ IF \/ request.origin = "denied"
          \/ request.origin = "allowed" /\ request.method = "preflight"
       THEN Answers("cors") ELSE Forwards(body)

\* These only look at the response, or at nothing that decides.
Observe == \E l \in {"headers_audit", "secure_headers", "telemetry",
                     "account_protection"} : Turn(l) /\ Forwards(body)

CSRF ==
    /\ Turn("csrf")
    /\ \/ Forwards(body)
       \/ request.method = "unsafe" /\ Answers("csrf")

\* Brute-force protection reads the body and puts it back.
Gate == \E l \in {"rate_limit", "brute_force", "ip_access", "honeypot"} :
            Turn(l) /\ (Forwards(body) \/ Answers(l))

\* form() reads the stream of the request: Starlette has nothing but an empty
\* body for the next layer.
Malware ==
    Scans("malware", {"file"},
          IF request.content = "multipart" THEN "empty" ELSE body)

GraphQLSecurity ==
    /\ Turn("graphql")
    /\ IF request.malformed /\ request.content = "graphql"
       THEN Answers("graphql")
       ELSE Scans("graphql", {"costly"}, body)

\* body() comes before form() here, and Starlette keeps a body that was read.
PromptInjection == Scans("prompt_injection", {"query", "prompt"}, body)

XXE == Scans("xxe", {"entity"}, body)

\* The mutant puts the clean form beside the body.
SanitizedBody_Aside ==
    IF request.content \in {"json", "graphql"} THEN "sanitized" ELSE body

\* The clean JSON or form replaces the body: each value is stripped after it was
\* searched for SQL, and not searched again.  The clean fields of a multipart
\* body are only put beside it, in request.state.
SanitizedBody ==
    IF request.content \in {"json", "graphql", "form"} THEN "sanitized" ELSE body

Sanitize ==
    /\ Turn("sanitize")
    /\ \/ /\ request.method = "unsafe"    \* too large
          /\ Answers("sanitize")
       \/ IF request.malformed
          THEN Answers("sanitize")
          ELSE Scans("sanitize", {"query", "sqli"}, SanitizedBody)

Handler ==
    /\ AtHandler
    /\ Answers("handler")

\* The response passes the layers in the opposite order.
SendResponse ==
    /\ way = "out"
    /\ secured' = (secured \/ (place > 0 /\ Layers[place] = "secure_headers"))
    /\ IF place = 0 THEN way' = "done" /\ UNCHANGED place
       ELSE place' = Outward /\ UNCHANGED way
    /\ UNCHANGED <<enabled, request, body, exempt, answered>>

\* A layer or the handler raises: no layer outside catches it, and the server's
\* own ServerErrorMiddleware, outside of them all, makes the response.
Raises ==
    /\ way \in {"in", "out"} /\ place # 0
    /\ way' = "out"
    /\ place' = 0
    /\ answered' = "server"
    /\ secured' = FALSE
    /\ UNCHANGED <<enabled, request, body, exempt>>

PipelineNext ==
    \/ \E l \in Excluding : Excludes(l)
    \/ CORS \/ Observe \/ CSRF \/ Gate
    \/ Malware \/ GraphQLSecurity \/ PromptInjection \/ XXE \/ Sanitize
    \/ Handler \/ SendResponse \/ Raises

PipelineSpec == PipelineInit /\ [][PipelineNext]_pipelineVars

-----------------------------------------------------------------------------
(* Properties *)

Installed(l) == l \in enabled \ exempt

Covers == [malware |-> {"file"}, graphql |-> {"costly"}, xxe |-> {"entity"},
           prompt_injection |-> {"query", "prompt"}, sanitize |-> {"query", "sqli"}]

\* However the layers are combined, none of them hides from another what the
\* handler then receives: content that an active scanner rejects is not in
\* the request that reaches the handler, unless stripping markup has brought it
\* about, and nor is markup that sanitizing strips, but in a multipart body.
\* Only a scan for malware empties a body.
ScannedBeforeHandler ==
    AtHandler =>
        /\ \A l \in DOMAIN Covers :
               Installed(l) => Covers[l] \cap Found \subseteq Revealed
        /\ Installed("sanitize") /\ "xss" \in Found => request.content = "multipart"
        /\ body = "empty" => Installed("malware") /\ request.content = "multipart"

\* Every response that a layer or the handler makes has the security headers,
\* rejections included, but those that the CORS layer makes outside of them.
\* The server's own response to an exception has none.
ResponsesSecured ==
    way = "done" /\ "secure_headers" \in enabled =>
        secured \/ answered \in {"cors", "server"}

\* What the order in which the shield installs its layers is for.
LayersCompose == ScannedBeforeHandler /\ ResponsesSecured

=============================================================================
