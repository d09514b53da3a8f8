------------------------------ MODULE OidcDiscovery ------------------------------
(***************************************************************************)
(* The discovery client for one issuer: concurrent calls of                *)
(* OIDCDiscoveryClient.discover() (src/araxys/oidc/client.py), its cache,  *)
(* and an issuer that replaces its metadata now and then.  Every version   *)
(* of the metadata is a number.                                            *)
(***************************************************************************)
EXTENDS Integers

CONSTANTS
    Discoveries,   \* concurrent calls
    CacheTtl,      \* cache_ttl_seconds
    FetchTimeout,  \* assumed bound on the time a whole fetch takes
    MaxVersions,   \* bound on the versions of the metadata
    MaxFetchTime   \* bound on the time

ASSUME DiscoveryAssumption ==
    {CacheTtl, FetchTimeout, MaxVersions, MaxFetchTime} \subseteq Nat \ {0}

VARIABLES
    today,         \* time.time()
    metadata,      \* external: the version the issuer serves
    supersededAt,  \* history: when each version was replaced
    cached,        \* _cache[normalized]: version 0 if there is no entry
    discovery,     \* where a call stands
    served         \* history: for every version, the time it was last returned

discoveryVars == <<today, metadata, supersededAt, cached, discovery, served>>

Versions == 1..MaxVersions
NoDiscovery == [phase |-> "idle", began |-> 0, version |-> 0]

DiscoveryTypeOK ==
    /\ today \in 0..MaxFetchTime
    /\ metadata \in Versions
    /\ supersededAt \in [Versions -> 0..today]
    /\ cached \in [version : {0} \cup Versions, stamp : 0..today]
    /\ discovery \in [Discoveries -> [phase : {"idle", "sent", "answered"},
                                      began : 0..today,
                                      version : {0} \cup Versions]]
    /\ served \in [Versions -> 0..today]

DiscoveryInit ==
    /\ today = 0
    /\ metadata = 1
    /\ supersededAt = [v \in Versions |-> 0]
    /\ cached = [version |-> 0, stamp |-> 0]
    /\ discovery = [d \in Discoveries |-> NoDiscovery]
    /\ served = [v \in Versions |-> 0]

\* No fetch outlives FetchTimeout.  This is an assumption about the issuer and
\* the network: httpx applies timeout_seconds to connecting, and to every read
\* or write, and not to the request as a whole.
SecondGoesBy ==
    /\ today < MaxFetchTime
    /\ \A d \in Discoveries :
           discovery[d].phase # "idle" => today - discovery[d].began < FetchTimeout
    /\ today' = today + 1
    /\ UNCHANGED <<metadata, supersededAt, cached, discovery, served>>

\* External.
IssuerReplaces ==
    /\ metadata < MaxVersions
    /\ metadata' = metadata + 1
    /\ supersededAt' = [supersededAt EXCEPT ![metadata] = today]
    /\ UNCHANGED <<today, cached, discovery, served>>

\* The mutant renews the entry at every hit.
Hit_Slides ==
    /\ cached' = [cached EXCEPT !.stamp = today]
    /\ served' = [served EXCEPT ![cached.version] = today]

Hit ==
    /\ served' = [served EXCEPT ![cached.version] = today]
    /\ UNCHANGED cached

\* discover(), up to its answer from the cache or its request.
Discover(d) ==
    /\ discovery[d].phase = "idle"
    /\ IF cached.version # 0 /\ today - cached.stamp < CacheTtl
       THEN Hit /\ UNCHANGED discovery
       ELSE /\ discovery' = [discovery EXCEPT ![d] =
                                 [phase |-> "sent", began |-> today, version |-> 0]]
            /\ UNCHANGED <<cached, served>>
    /\ UNCHANGED <<today, metadata, supersededAt>>

\* External: the issuer answers with what it serves now.
IssuerAnswers(d) ==
    /\ discovery[d].phase = "sent"
    /\ discovery' = [discovery EXCEPT ![d].phase = "answered", ![d].version = metadata]
    /\ UNCHANGED <<today, metadata, supersededAt, cached, served>>

\* The answer is parsed, validated and kept with the time of its arrival,
\* also when a later request has been answered before.
Receive(d) ==
    LET version == discovery[d].version IN
    /\ discovery[d].phase = "answered"
    /\ cached' = [version |-> version, stamp |-> today]
    /\ served' = [served EXCEPT ![version] = today]
    /\ discovery' = [discovery EXCEPT ![d] = NoDiscovery]
    /\ UNCHANGED <<today, metadata, supersededAt>>

\* OIDCDiscoveryError: no answer, an error status, JSON that is no metadata.
\* What the cache holds stays there, and stays out of date.
DiscoveryFails(d) ==
    /\ discovery[d].phase # "idle"
    /\ discovery' = [discovery EXCEPT ![d] = NoDiscovery]
    /\ UNCHANGED <<today, metadata, supersededAt, cached, served>>

DiscoveryNext ==
    \/ SecondGoesBy \/ IssuerReplaces
    \/ \E d \in Discoveries :
           Discover(d) \/ IssuerAnswers(d) \/ Receive(d) \/ DiscoveryFails(d)

DiscoverySpec == DiscoveryInit /\ [][DiscoveryNext]_discoveryVars

\* Metadata the issuer has replaced is returned for less than cache_ttl_seconds
\* and the longest time of one fetch, even when a slow answer replaces a newer
\* one.
MetadataAge ==
    \A v \in Versions :
        v < metadata => served[v] < supersededAt[v] + CacheTtl + FetchTimeout

=============================================================================
