------------------------------ MODULE WafEscalation ------------------------------
(***************************************************************************)
(* Escalation to AWS WAF: WafEscalationSubscriber with WafClient           *)
(* (src/araxys/waf/) in several processes that share one IP set.  Each has *)
(* its own bus, which dispatches one event at a time: the subscriber of a  *)
(* process never runs twice at once, so its semaphores are always free.    *)
(*                                                                         *)
(* The IP set is external and takes an update only with its current lock   *)
(* token, which the subscriber looks for beside the addresses.             *)
(***************************************************************************)
EXTENDS Integers, Sequences, FiniteSets

CONSTANTS
    WafProcesses,   \* the processes that escalate
    Addresses,      \* the source IPs of the allowed events
    StrikeCount,    \* multi_strike_count
    StrikeWindow,   \* multi_strike_window_seconds
    MaxStrikes,     \* bound on the events of a process
    MaxStrikeTime   \* bound on the time

ASSUME WafAssumption ==
    /\ {StrikeCount, StrikeWindow, MaxStrikes, MaxStrikeTime} \subseteq Nat \ {0}
    /\ IsFiniteSet(Addresses)

VARIABLES
    second,      \* time.time()
    strikes,     \* _strikes of each process, by their places in its log
    escalation,  \* the escalation a process is at, with what it has read
    ipSet,       \* external: the IP set
    lockToken,   \* external: its lock token
    log          \* the events each process has handled

wafVars == <<second, strikes, escalation, ipSet, lockToken, log>>

NoEscalation == [at |-> "none"]

WafTypeOK ==
    /\ second \in 0..MaxStrikeTime
    /\ \A p \in WafProcesses, a \in Addresses :
           strikes[p][a] \subseteq 1..Len(log[p])
    /\ \A p \in WafProcesses : escalation[p].at \in {"none", "get", "update"}
    /\ ipSet \subseteq Addresses
    /\ lockToken \in 0..Cardinality(Addresses)

WafInit ==
    /\ second = 0
    /\ strikes = [p \in WafProcesses |-> [a \in Addresses |-> {}]]
    /\ escalation = [p \in WafProcesses |-> NoEscalation]
    /\ ipSet = {}
    /\ lockToken = 0
    /\ log = [p \in WafProcesses |-> <<>>]

StrikeTime ==
    /\ second < MaxStrikeTime
    /\ second' = second + 1
    /\ UNCHANGED <<strikes, escalation, ipSet, lockToken, log>>

\* The strikes that are not older than the window.
Recent(p, a) == {i \in strikes[p][a] : second - log[p][i].at <= StrikeWindow}

\* _on_event(), for an event of an allowed type with a source IP.  Strikes
\* are not forgotten with an escalation: the next one escalates again.
Strike(p, a) ==
    LET listed == Recent(p, a) \cup {Len(log[p]) + 1} IN
    /\ escalation[p] = NoEscalation
    /\ Len(log[p]) < MaxStrikes
    /\ strikes' = [strikes EXCEPT ![p][a] = listed]
    /\ log' = [log EXCEPT ![p] = Append(@, [address |-> a, at |-> second])]
    /\ escalation' = IF Cardinality(listed) >= StrikeCount
                     THEN [escalation EXCEPT ![p] = [at |-> "get", address |-> a]]
                     ELSE escalation
    /\ UNCHANGED <<second, ipSet, lockToken>>

\* get_ip_set(); an address already there needs nothing.
GetIpSet(p) ==
    /\ escalation[p].at = "get"
    /\ escalation' = [escalation EXCEPT ![p] =
           IF escalation[p].address \in ipSet THEN NoEscalation
           ELSE [at |-> "update", address |-> escalation[p].address,
                 addresses |-> ipSet, token |-> lockToken]]
    /\ UNCHANGED <<second, strikes, ipSet, lockToken, log>>

\* The mutant passes the token of the moment.
UpdateToken_Latest(p) == lockToken

UpdateToken(p) == escalation[p].token

\* update_ip_set(), refused when another update came between; the failure is
\* logged, and the address waits for its next strike.
UpdateIpSet(p) ==
    /\ escalation[p].at = "update"
    /\ IF UpdateToken(p) = lockToken
       THEN /\ ipSet' = escalation[p].addresses \cup {escalation[p].address}
            /\ lockToken' = lockToken + 1
       ELSE UNCHANGED <<ipSet, lockToken>>
    /\ escalation' = [escalation EXCEPT ![p] = NoEscalation]
    /\ UNCHANGED <<second, strikes, log>>

\* Any exception of a call to AWS.
WafCallFails(p) ==
    /\ escalation[p] # NoEscalation
    /\ escalation' = [escalation EXCEPT ![p] = NoEscalation]
    /\ UNCHANGED <<second, strikes, ipSet, lockToken, log>>

WafNext ==
    \/ StrikeTime
    \/ \E p \in WafProcesses :
           \/ \E a \in Addresses : Strike(p, a)
           \/ GetIpSet(p) \/ UpdateIpSet(p) \/ WafCallFails(p)

WafSpec == WafInit /\ [][WafNext]_wafVars

-----------------------------------------------------------------------------
(* Properties *)

\* One process has seen StrikeCount events of the address within a window.
Earned(a) ==
    \E p \in WafProcesses : \E first \in DOMAIN log[p] :
        Cardinality({i \in DOMAIN log[p] :
                        /\ log[p][i].address = a
                        /\ log[p][i].at - log[p][first].at \in 0..StrikeWindow})
            >= StrikeCount

\* Only an address that has earned it is added, and whatever the processes
\* add at the same time, no address that is in the set is lost.
EscalationsKept ==
    [][/\ ipSet \subseteq ipSet'
       /\ \A a \in ipSet' \ ipSet : Earned(a)]_wafVars

=============================================================================
