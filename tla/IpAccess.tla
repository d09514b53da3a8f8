-------------------------------- MODULE IpAccess --------------------------------
(***************************************************************************)
(* Access by IP address: IPAccessMiddleware and its backends               *)
(* (src/araxys/ip_access/), with get_client_ip() (src/araxys/core/ip.py),  *)
(* which finds the client's address behind reverse proxies.                *)
(*                                                                         *)
(* An entry of a list is the set of addresses it matches, one client's or  *)
(* a range. Every call of RedisIPAccessBackend suspends the request;       *)
(* InMemoryIPAccessBackend never does.                                     *)
(***************************************************************************)
EXTENDS Integers, Sequences

CONSTANTS
    Visits,          \* concurrent requests
    Clients,         \* addresses of clients
    Proxies,         \* addresses of reverse proxies
    TrustedProxies,  \* those in AraxysConfig.trusted_proxies
    NoAddress,       \* the address of a request that is not under way
    MaxHops          \* bound on the proxies before the service

ASSUME IpAssumption ==
    /\ TrustedProxies \subseteq Proxies
    /\ Clients \intersect Proxies = {}
    /\ NoAddress \notin Clients \cup Proxies
    /\ MaxHops \in Nat

VARIABLES
    mode,       \* IPControlConfig.mode
    shared,     \* the lists are in Redis
    mapped,     \* the socket reports IPv4 peers as ::ffff:x.x.x.x
    allowlist,  \* its entries
    blocklist,
    visitStep,  \* where a request stands
    origin,     \* the client it comes from
    route,      \* the proxies it has passed
    claim,      \* what its client wrote in X-Forwarded-For and the first
                \* proxy has kept: one that sets the header anew keeps nothing
    address,    \* what get_client_ip() has found
    \* history: since its arrival, has the address been on a list, and off it
    onAllow,
    onBlock

ipLists == <<allowlist, blocklist>>
ipConfig == <<mode, shared, mapped>>
ipVars == <<ipConfig, ipLists, visitStep, origin, route, claim, address,
            onAllow, onBlock>>

Hosts == Clients \cup Proxies
Entries == {{c} : c \in Clients} \cup {Clients}
Routes == UNION {[1..n -> Proxies] : n \in 0..MaxHops}
Claims == {<<>>} \cup {<<host>> : host \in Clients}
Decided == {"forwarded", "denied"}

IpTypeOK ==
    /\ mode \in {"allow", "block", "hybrid"}
    /\ {shared, mapped} \subseteq BOOLEAN
    /\ allowlist \cup blocklist \subseteq Entries
    /\ visitStep \in [Visits -> {"idle", "first", "second"} \cup Decided]
    /\ origin \in [Visits -> Clients \cup {NoAddress}]
    /\ route \in [Visits -> Routes]
    /\ claim \in [Visits -> Claims]
    /\ address \in [Visits -> Hosts \cup {NoAddress}]
    /\ {onAllow, onBlock} \subseteq [Visits -> SUBSET BOOLEAN]

IpInit ==
    /\ mode \in {"allow", "block", "hybrid"}
    /\ shared \in BOOLEAN
    /\ mapped \in BOOLEAN
    /\ allowlist = {}
    /\ blocklist = {}
    /\ visitStep = [v \in Visits |-> "idle"]
    /\ origin = [v \in Visits |-> NoAddress]
    /\ route = [v \in Visits |-> <<>>]
    /\ claim = [v \in Visits |-> <<>>]
    /\ address = [v \in Visits |-> NoAddress]
    /\ onAllow = [v \in Visits |-> {}]
    /\ onBlock = [v \in Visits |-> {}]

-----------------------------------------------------------------------------
(* get_client_ip() *)

\* A proxy appends the peer it has been called by to X-Forwarded-For, after what
\* the client has claimed there.
Forwarded(claimed, client, hops) ==
    claimed \o IF hops = <<>> THEN <<>>
               ELSE <<client>> \o SubSeq(hops, 1, Len(hops) - 1)
Peer(client, hops) == IF hops = <<>> THEN client ELSE hops[Len(hops)]

\* A mapped address is no member of an IPv4 range.
IsTrusted(host) == host \in TrustedProxies /\ ~mapped

\* Mutant: the header is taken from whoever calls.
ClientIp_AnyPeer(claimed, client, hops) ==
    LET header == Forwarded(claimed, client, hops) IN
    IF header # <<>> /\ TrustedProxies # {} THEN header[1] ELSE Peer(client, hops)

\* The first entry, which is the client's own word if it has written one. The
\* result is normalized: it is no longer a mapped address.
ClientIp(claimed, client, hops) ==
    LET header == Forwarded(claimed, client, hops) IN
    IF header # <<>> /\ IsTrusted(Peer(client, hops)) THEN header[1]
    ELSE Peer(client, hops)

-----------------------------------------------------------------------------
(* dispatch() *)

Matches(host, list) == \E entry \in list : host \in entry
VisitGoesTo(v, next) == visitStep' = [visitStep EXCEPT ![v] = next]

VisitArrives(v) ==
    \E client \in Clients, hops \in Routes, claimed \in Claims :
        LET client_ip == ClientIp(claimed, client, hops) IN
        /\ visitStep[v] = "idle"
        /\ VisitGoesTo(v, "first")
        /\ origin' = [origin EXCEPT ![v] = client]
        /\ route' = [route EXCEPT ![v] = hops]
        /\ claim' = [claim EXCEPT ![v] = claimed]
        /\ address' = [address EXCEPT ![v] = client_ip]
        /\ onAllow' = [onAllow EXCEPT ![v] = {Matches(client_ip, allowlist)}]
        /\ onBlock' = [onBlock EXCEPT ![v] = {Matches(client_ip, blocklist)}]
        /\ UNCHANGED <<ipConfig, ipLists>>

Decide(v, passes) == VisitGoesTo(v, IF passes THEN "forwarded" ELSE "denied")
IsAllowed(v) == Matches(address[v], allowlist)
IsBlocked(v) == Matches(address[v], blocklist)

\* The one list of the mode, or the blocklist before the allowlist.
FirstLookup(v) ==
    /\ visitStep[v] = "first"
    /\ CASE mode = "allow" -> Decide(v, IsAllowed(v))
         [] mode = "block" -> Decide(v, ~IsBlocked(v))
         [] mode = "hybrid" ->
                IF IsBlocked(v) THEN Decide(v, FALSE)
                ELSE IF shared THEN VisitGoesTo(v, "second")
                ELSE Decide(v, IsAllowed(v))
    /\ UNCHANGED <<ipConfig, ipLists, origin, route, claim, address, onAllow, onBlock>>

SecondLookup(v) ==
    /\ visitStep[v] = "second"
    /\ Decide(v, IsAllowed(v))
    /\ UNCHANGED <<ipConfig, ipLists, origin, route, claim, address, onAllow, onBlock>>

VisitEnds(v) ==
    /\ visitStep[v] \in Decided
    /\ VisitGoesTo(v, "idle")
    /\ origin' = [origin EXCEPT ![v] = NoAddress]
    /\ route' = [route EXCEPT ![v] = <<>>]
    /\ claim' = [claim EXCEPT ![v] = <<>>]
    /\ address' = [address EXCEPT ![v] = NoAddress]
    /\ onAllow' = [onAllow EXCEPT ![v] = {}]
    /\ onBlock' = [onBlock EXCEPT ![v] = {}]
    /\ UNCHANGED <<ipConfig, ipLists>>

-----------------------------------------------------------------------------
(* The lists change, by the application or by the threat feeds *)

\* What the undecided requests see of it.
Seen(v, seen, list) ==
    IF visitStep[v] \in {"first", "second"} THEN seen \cup {Matches(address[v], list)}
    ELSE seen

ChangesAllowlist ==
    \E e \in Entries :
        /\ allowlist' \in {allowlist \cup {e}, allowlist \ {e}}
        /\ onAllow' = [v \in Visits |-> Seen(v, onAllow[v], allowlist')]
        /\ UNCHANGED <<ipConfig, blocklist, visitStep, origin, route, claim, address,
                       onBlock>>

ChangesBlocklist ==
    \E e \in Entries :
        /\ blocklist' \in {blocklist \cup {e}, blocklist \ {e}}
        /\ onBlock' = [v \in Visits |-> Seen(v, onBlock[v], blocklist')]
        /\ UNCHANGED <<ipConfig, allowlist, visitStep, origin, route, claim, address,
                       onAllow>>

IpNext ==
    \/ ChangesAllowlist
    \/ ChangesBlocklist
    \/ \E v \in Visits :
           VisitArrives(v) \/ FirstLookup(v) \/ SecondLookup(v) \/ VisitEnds(v)

IpSpec == IpInit /\ [][IpNext]_ipVars

-----------------------------------------------------------------------------
(* Properties *)

PassedTrusted(v) ==
    ~mapped /\ {route[v][i] : i \in DOMAIN route[v]} \subseteq TrustedProxies

\* Behind trusted proxies only, on a socket that reports IPv4 addresses as such,
\* a request whose client has written no X-Forwarded-For is judged by the
\* address of its client, however many proxies it has passed. One that comes
\* from elsewhere is judged by its peer, whatever its header says.
JudgedByClient(v) ==
    address[v] # NoAddress =>
        /\ PassedTrusted(v) /\ claim[v] = <<>> => address[v] = origin[v]
        /\ Peer(origin[v], route[v]) \notin TrustedProxies =>
               address[v] = Peer(origin[v], route[v])

\* It is refused or let through for what the lists of the mode have said of that
\* address at some moment while it was judged, whatever changes between two
\* lookups.
JudgedByLists(v) ==
    /\ visitStep[v] = "forwarded" =>
           /\ mode # "block" => TRUE \in onAllow[v]
           /\ mode # "allow" => FALSE \in onBlock[v]
    /\ visitStep[v] = "denied" =>
           \/ mode # "block" /\ FALSE \in onAllow[v]
           \/ mode # "allow" /\ TRUE \in onBlock[v]

\* Every request is judged by its client or its peer, and by the lists.
IpJudged == \A v \in Visits : JudgedByClient(v) /\ JudgedByLists(v)

\* "X-Forwarded-For spoofing is prevented by a configurable trusted-proxy list"
\* (src/araxys/core/ip.py:4-5): behind trusted proxies a client is judged by its
\* own address whatever it has written in the header. It is not: a proxy that
\* appends leaves the client's word in the first place (IpAccess_spoofed.cfg).
SpoofingPrevented ==
    \A v \in Visits :
        address[v] # NoAddress /\ PassedTrusted(v) => address[v] = origin[v]

=============================================================================
