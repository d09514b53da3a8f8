---------------------------- MODULE EnumerationWatch ----------------------------
(***************************************************************************)
(* Account protection: AccountProtectionMiddleware                         *)
(* (src/araxys/account_protection/middleware.py) masks what a failed login *)
(* says, counts the failures of an address in a sliding window             *)
(* (EnumerationDetector, detection.py) and reports an address that reaches *)
(* the threshold, first to the audit log and then to the event bus.        *)
(*                                                                         *)
(* Requests run concurrently; a step ends where dispatch() awaits.         *)
(***************************************************************************)
EXTENDS Integers, Sequences, FiniteSets

CONSTANTS
    AuthCalls,      \* concurrent requests for a protected path
    Callers,        \* client addresses
    NoCaller,       \* a request that is not under way
    FailThreshold,  \* enumeration_threshold
    FailWindow,     \* enumeration_window_seconds
    MaxTracked,     \* bound on the failures of an address
    MaxFailTime     \* bound on the clock

ASSUME EnumerationAssumption ==
    /\ {FailThreshold, FailWindow} \subseteq Nat \ {0}
    /\ {MaxTracked, MaxFailTime} \subseteq Nat
    /\ NoCaller \notin Callers

VARIABLES
    audited,    \* AraxysShield has an audit logger, as it has by default
    failTime,   \* the clock
    failed,     \* the times at which an address has failed
    failures,   \* those that EnumerationDetector keeps, by their place in failed
    authStep,   \* where a request stands
    caller,     \* its address
    answer,     \* what it answers, or will answer
    \* history
    nth,        \* the place of a request's failure among them, 0 without one
    detected,   \* the requests whose failure reached the threshold
    reported    \* those whose event went to the bus

enumerationVars ==
    <<audited, failTime, failures, authStep, caller, answer, failed, nth, detected,
      reported>>

Times == 0..MaxFailTime
EnumerationTypeOK ==
    /\ audited \in BOOLEAN
    /\ failTime \in Times
    /\ failures \in [Callers -> SUBSET (1..MaxTracked)]
    /\ authStep \in [AuthCalls -> {"idle", "handler", "track", "report", "pad",
                                   "answered"}]
    /\ caller \in [AuthCalls -> Callers \cup {NoCaller}]
    /\ answer \in [AuthCalls -> {"none", "success", "as given", "masked", "empty",
                                 "error"}]
    /\ failed \in [Callers -> Seq(Times)]
    /\ nth \in [AuthCalls -> 0..MaxTracked]
    /\ UNION {detected, reported} \subseteq AuthCalls

EnumerationInit ==
    /\ audited \in BOOLEAN
    /\ failTime = 0
    /\ failures = [c \in Callers |-> {}]
    /\ authStep = [q \in AuthCalls |-> "idle"]
    /\ caller = [q \in AuthCalls |-> NoCaller]
    /\ answer = [q \in AuthCalls |-> "none"]
    /\ failed = [c \in Callers |-> <<>>]
    /\ nth = [q \in AuthCalls |-> 0]
    /\ detected = {}
    /\ reported = {}

-----------------------------------------------------------------------------
(* dispatch() *)

AuthGoesTo(q, next) == authStep' = [authStep EXCEPT ![q] = next]
AuthAnswers(q, what) == answer' = [answer EXCEPT ![q] = what]

CallNext(q, c) ==
    /\ authStep[q] = "idle"
    /\ caller' = [caller EXCEPT ![q] = c]
    /\ AuthGoesTo(q, "handler")
    /\ UNCHANGED <<audited, failTime, failures, answer, failed, nth, detected,
                   reported>>

HandlerSucceeds(q) ==
    /\ authStep[q] = "handler"
    /\ AuthAnswers(q, "success")
    /\ AuthGoesTo(q, "pad")
    /\ UNCHANGED <<audited, failTime, failures, caller, failed, nth, detected,
                   reported>>

\* _normalize_error(): a JSON object gets the generic detail; a body that is no
\* JSON has been read to its end and is lost; JSON that is no object raises.
Normalized == [object |-> "masked", text |-> "empty", array |-> "error"]

\* A 403 is masked, a 401 is masked and tracked.
HandlerRefuses(q) ==
    /\ authStep[q] = "handler"
    /\ \E status \in {401, 403}, content \in DOMAIN Normalized :
           /\ AuthAnswers(q, Normalized[content])
           /\ AuthGoesTo(q, IF Normalized[content] = "error" THEN "answered"
                            ELSE IF status = 401 THEN "track" ELSE "pad")
    /\ UNCHANGED <<audited, failTime, failures, caller, failed, nth, detected,
                   reported>>

\* Mutant: a failure as old as the window still counts.
InWindow_Inclusive(time) == failTime - time <= FailWindow

InWindow(time) == failTime - time < FailWindow

\* record_failure() prunes and appends under its lock, without an await.
Track(q) ==
    LET c == caller[q]
        latest == Len(failed[c]) + 1
        recent == {i \in failures[c] : InWindow(failed[c][i])} \cup {latest} IN
    /\ authStep[q] = "track"
    /\ Len(failed[c]) < MaxTracked
    /\ failures' = [failures EXCEPT ![c] = recent]
    /\ failed' = [failed EXCEPT ![c] = Append(@, failTime)]
    /\ nth' = [nth EXCEPT ![q] = latest]
    /\ IF Cardinality(recent) >= FailThreshold
       THEN AuthGoesTo(q, "report") /\ detected' = detected \cup {q}
       ELSE AuthGoesTo(q, "pad") /\ UNCHANGED detected
    /\ UNCHANGED <<audited, failTime, caller, answer, reported>>

\* _emit_enumeration_event(): AuditLogger.log() reads entry.ip_address, which a
\* SecurityEvent does not have; its AttributeError leaves dispatch().
Report(q) ==
    /\ authStep[q] = "report"
    /\ \/ /\ audited
          /\ AuthAnswers(q, "error") /\ AuthGoesTo(q, "answered")
          /\ UNCHANGED reported
       \/ /\ ~audited
          /\ reported' = reported \cup {q}
          /\ AuthGoesTo(q, "pad")
          /\ UNCHANGED answer
    /\ UNCHANGED <<audited, failTime, failures, caller, failed, nth, detected>>

\* _apply_timing_padding(), then the response.
Pad(q) ==
    /\ authStep[q] = "pad"
    /\ AuthGoesTo(q, "answered")
    /\ UNCHANGED <<audited, failTime, failures, caller, answer, failed, nth,
                   detected, reported>>

\* The client has its answer and may send another request.
AuthDone(q) ==
    /\ authStep[q] = "answered"
    /\ AuthGoesTo(q, "idle")
    /\ caller' = [caller EXCEPT ![q] = NoCaller]
    /\ AuthAnswers(q, "none")
    /\ nth' = [nth EXCEPT ![q] = 0]
    /\ detected' = detected \ {q}
    /\ reported' = reported \ {q}
    /\ UNCHANGED <<audited, failTime, failures, failed>>

FailTick ==
    /\ failTime < MaxFailTime
    /\ failTime' = failTime + 1
    /\ UNCHANGED <<audited, failures, authStep, caller, answer, failed, nth,
                   detected, reported>>

EnumerationNext ==
    \/ FailTick
    \/ \E q \in AuthCalls :
           \/ \E c \in Callers : CallNext(q, c)
           \/ HandlerSucceeds(q) \/ HandlerRefuses(q) \/ Track(q) \/ Report(q)
           \/ Pad(q) \/ AuthDone(q)

EnumerationSpec == EnumerationInit /\ [][EnumerationNext]_enumerationVars

-----------------------------------------------------------------------------
(* Properties *)

\* What the detector keeps of an address decides as all the failures of the
\* address would: a request is reported exactly if the threshold is reached
\* within the window that ends with its own failure, although failures of other
\* requests are counted before and after, and others are pruned.
DetectionExact ==
    \A q \in AuthCalls : nth[q] > 0 =>
        LET times == failed[caller[q]]
            recent == {i \in 1..nth[q] : times[nth[q]] - times[i] < FailWindow}
        IN  q \in detected <=> Cardinality(recent) >= FailThreshold

\* "Emit to shared event bus (used for webhooks / metrics)"
\* (middleware.py:174): when a request is answered whose failure reached the
\* threshold, its event has gone to the bus.
ThresholdReported ==
    \A q \in detected : authStep[q] = "answered" => q \in reported

=============================================================================
