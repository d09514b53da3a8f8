--------------------------- MODULE Sessions_proofs ---------------------------
(***************************************************************************)
(* Theorems about the sessions of a user, for any number of concurrent     *)
(* requests and sessions and every configuration.                          *)
(***************************************************************************)
EXTENDS Sessions, Lemmas

Holding == {"evict", "blacklist", "revoke", "delete", "refresh", "touch",
            "cidle", "cdelete", "srem"}

\* What exists in Redis, in a call or in the history has been created.
DataOK ==
    /\ \A s \in Ids : hash[s] # "none" => s \in 1..created
    /\ revoked \subseteq 1..created

CallsOK ==
    /\ \A p \in Procs : left[p] \subseteq 1..created
    /\ \A p \in Procs : pc[p] \in Holding => sid[p] \in 1..created

TypeInv == TypeOK /\ DataOK /\ CallsOK

\* The types of what is not local to a call, of what the blacklist is about,
\* and of what is local to a call.
DataType ==
    /\ now \in 0..MaxTime
    /\ created \in 0..MaxSessions
    /\ hash \in [Ids -> {"none", "partial", "full"}]
    /\ deadline \in [Ids -> Nat]
    /\ \A s \in Ids : deadline[s] <= now + Ttl
    /\ activity \in [Ids -> 0..now]
    /\ index \in SUBSET (1..created)
    /\ indexUntil \in 0..(now + Ttl)
    /\ revoked \in SUBSET Ids
    /\ revivals \in Nat

TokensType ==
    /\ blacklistUntil \in [Ids -> 0..(now + Ttl)]
    /\ remaining \in [Procs -> 0..Ttl]
    /\ due \in [Ids -> Nat]
    /\ overtaken \in SUBSET Ids

CallsType ==
    /\ pc \in [Procs -> {"idle", "members", "fetch", "evict", "create",
                         "blacklist", "revoke", "delete", "refresh", "touch",
                         "clean", "cidle", "cdelete", "srem"}]
    /\ sid \in [Procs -> {0} \cup Ids]
    /\ left \in [Procs -> SUBSET Ids]
    /\ found \in [Procs -> SUBSET Ids]

LEMMA TypeSplit ==
    /\ TypeInv => DataType /\ DataOK /\ TokensType /\ CallsType /\ CallsOK
    /\ DataType' /\ DataOK' /\ TokensType' /\ CallsType' /\ CallsOK' => TypeInv'
BY DEF TypeInv, TypeOK, DataType, TokensType, CallsType

\* A call that holds a session holds one that has been created.
LEMMA Held ==
    ASSUME TypeInv, NEW p \in Procs, pc[p] \in Holding
    PROVE  sid[p] \in 1..created /\ sid[p] \in Ids
BY SessionAssumption DEF TypeInv, TypeOK, CallsOK, Ids

HashOK ==
    /\ now \in 0..MaxTime
    /\ hash \in [Ids -> {"none", "partial", "full"}]
    /\ deadline \in [Ids -> Nat]
    /\ \A s \in Ids : deadline[s] <= now + Ttl
    /\ activity \in [Ids -> 0..now]
    /\ \A s \in Ids : hash[s] # "none" => s \in 1..created

LEMMA DeleteHashOK ==
    ASSUME HashOK, NEW s, DeleteHash(s), now' = now, created' = created
    PROVE  HashOK'
<1> USE SessionAssumption DEF HashOK, DeleteHash
<1>1. hash' \in [Ids -> {"none", "partial", "full"}]
  OBVIOUS
<1>2. 0 \in 0..now /\ 0 <= now + Ttl
  OBVIOUS
<1>3. /\ deadline' \in [Ids -> Nat]
      /\ \A t \in Ids : deadline'[t] = deadline[t] \/ deadline'[t] = 0
  BY ONLY HashOK, DeleteHash(s) DEF HashOK, DeleteHash
<1>4. \A t \in Ids : deadline'[t] <= now' + Ttl
  BY ONLY <1>2, <1>3, HashOK, now' = now DEF HashOK
<1>5. activity' \in [Ids -> 0..now]
  BY ONLY <1>2, HashOK, DeleteHash(s) DEF HashOK, DeleteHash
<1>6. \A t \in Ids : hash'[t] # "none" => t \in 1..created
  OBVIOUS
<1>7. QED
  BY ONLY <1>1, <1>3, <1>5, <1>6, <1>4, HashOK, now' = now, created' = created
  DEF HashOK

LEMMA HSetFieldOK ==
    ASSUME HashOK, NEW s \in 1..created, HSetField(s), UNCHANGED created
    PROVE  /\ hash' \in [Ids -> {"none", "partial", "full"}]
           /\ \A t \in Ids : hash'[t] # "none" => t \in 1..created
BY DEF HashOK, HSetField

-----------------------------------------------------------------------------
LEMMA TypeInvInit == Init => TypeInv
BY SessionAssumption DEF Init, TypeInv, TypeOK, DataOK, CallsOK, Ids, Procs,
   Holding

\* Every step keeps the types of what is shared...
LEMMA DataCreation ==
    ASSUME TypeInv, NEW w \in Creators, Creation(w)
    PROVE  DataType' /\ DataOK'
<1> USE SessionAssumption
    DEF TypeInv, TypeOK, DataType, DataOK, CallsOK, Ids, Holding, redis, history,
        Go
<1>1. w \in Procs
  BY DEF Procs
<1>2. CASE CreateCount(w)
  BY <1>1, <1>2 DEF CreateCount
<1>3. CASE Members(w)
  BY <1>1, <1>3 DEF Members
<1>4. CASE NothingToEvict(w)
  BY <1>1, <1>4 DEF NothingToEvict
<1>5. CASE EvictDelete(w)
  <2>1. HashOK'
    <3>1. HashOK
      BY DEF HashOK
    <3>2. QED
      BY ONLY <1>5, <3>1, DeleteHashOK DEF EvictDelete, DeleteSession
  <2>2. QED
    BY <1>1, <1>5, <2>1, Held DEF EvictDelete, DeleteSession, HashOK
<1>6. CASE Create(w)
  <2>1. PICK n \in Ids : n = created + 1
    BY <1>6 DEF Create
  <2>2. /\ created' = n /\ now' = now
        /\ hash' = [hash EXCEPT ![n] = "full"]
        /\ deadline' = [deadline EXCEPT ![n] = now + Ttl]
        /\ activity' = [activity EXCEPT ![n] = now]
        /\ index' = index \cup {n} /\ indexUntil' = now + Ttl
        /\ UNCHANGED <<revoked, revivals>>
    BY ONLY <1>6, <2>1 DEF Create, history
  <2>3. /\ now \in 0..MaxTime /\ now \in Nat /\ Ttl \in Nat
        /\ created \in 0..MaxSessions /\ created \in Nat /\ Ids = 1..MaxSessions
        /\ hash \in [Ids -> {"none", "partial", "full"}]
        /\ \A s \in Ids : hash[s] # "none" => s \in 1..created
        /\ deadline \in [Ids -> Nat] /\ \A s \in Ids : deadline[s] <= now + Ttl
        /\ activity \in [Ids -> 0..now]
        /\ index \in SUBSET (1..created) /\ revoked \subseteq 1..created
        /\ revoked \in SUBSET Ids /\ revivals \in Nat
    BY SessionAssumption DEF TypeInv, TypeOK, DataOK, Ids
  <2>4. hash' \in [Ids -> {"none", "partial", "full"}]
    BY ONLY <2>1, <2>2, <2>3
  <2>5. \A s \in 1..created : s \in 1..created'
    BY ONLY <2>1, <2>2, <2>3
  <2>6. \A s \in Ids : hash'[s] # "none" => s \in 1..created'
    <3>1. n \in 1..created'
      BY ONLY <2>1, <2>2, <2>3
    <3>2. \A s \in Ids : s # n => hash'[s] = hash[s]
      BY ONLY <2>2, <2>3
    <3>3. QED
      BY ONLY <2>3, <2>5, <3>1, <3>2
  <2>7. deadline' \in [Ids -> Nat] /\ \A s \in Ids : deadline'[s] <= now' + Ttl
    <3>1. now + Ttl \in Nat /\ now + Ttl <= now' + Ttl
      BY ONLY <2>2, <2>3
    <3>2. deadline' \in [Ids -> Nat]
      BY ONLY <2>1, <2>2, <2>3, <3>1
    <3>3. \A s \in Ids : deadline'[s] \in {deadline[s], now + Ttl}
      BY ONLY <2>2, <2>3
    <3>4. QED
      BY ONLY <2>2, <2>3, <3>1, <3>2, <3>3
  <2>8. activity' \in [Ids -> 0..now']
    BY ONLY <2>1, <2>2, <2>3
  <2>9. created' \in 0..MaxSessions /\ indexUntil' \in 0..(now' + Ttl)
    BY ONLY <2>1, <2>2, <2>3
  <2>10. index' \in SUBSET (1..created') /\ revoked' \subseteq 1..created'
    BY ONLY <2>1, <2>2, <2>3
  <2>11. QED
    BY ONLY <2>2, <2>3, <2>4, <2>6, <2>7, <2>8, <2>9, <2>10 DEF DataType, DataOK
<1>7. CASE \E s \in Ids : Fetch(w, s)
  BY <1>1, <1>7 DEF Fetch
<1>8. CASE \E s \in Ids : FetchRaises(w, s)
  BY <1>1, <1>8 DEF FetchRaises
<1>9. CASE \E s \in Ids : EvictGet(w, s)
  BY <1>1, <1>9 DEF EvictGet
<1>10. QED
  BY <1>2, <1>3, <1>4, <1>5, <1>6, <1>7, <1>8, <1>9 DEF Creation

LEMMA DataRequest ==
    ASSUME TypeInv, NEW w \in Requests, Request(w)
    PROVE  DataType' /\ DataOK'
<1> USE SessionAssumption
    DEF TypeInv, TypeOK, DataType, DataOK, CallsOK, Ids, Holding, redis, history,
        Go
<1>1. w \in Procs
  BY DEF Procs
<1>2. CASE \E s \in Ids : RevokeGet(w, s)
  BY <1>1, <1>2 DEF RevokeGet
<1>3. CASE \E s \in Ids : RefreshGet(w, s)
  BY <1>1, <1>3 DEF RefreshGet, GetThen
<1>4. CASE \E s \in Ids : TouchGet(w, s)
  BY <1>1, <1>4 DEF TouchGet, GetThen
<1>5. CASE Blacklist(w)
  <2>1. sid[w] \in Ids
    BY <1>1, <1>5, Held DEF Blacklist
  <2>2. QED
    BY <1>5, <2>1 DEF Blacklist
<1>6. CASE RevokeSessionGet(w)
  BY <1>1, <1>6 DEF RevokeSessionGet
<1>7. CASE RevokeDelete(w)
  <2>1. HashOK'
    <3>1. HashOK
      BY DEF HashOK
    <3>2. QED
      BY ONLY <1>7, <3>1, DeleteHashOK DEF RevokeDelete, DeleteSession
  <2>2. sid[w] \in 1..created /\ sid[w] \in Ids
    BY ONLY TypeInv, <1>1, <1>7, Held DEF RevokeDelete, Holding
  <2>3. /\ index' \subseteq index
        /\ revoked' = revoked \cup {sid[w]}
        /\ UNCHANGED <<now, created, indexUntil, revivals>>
    BY ONLY <1>7 DEF RevokeDelete, DeleteSession
  <2>4. QED
    BY <2>1, <2>2, <2>3 DEF HashOK
<1>8. CASE RefreshSet(w)
  <2>1. /\ hash' \in [Ids -> {"none", "partial", "full"}]
        /\ \A t \in Ids : hash'[t] # "none" => t \in 1..created
        /\ sid[w] \in Ids
    BY <1>1, <1>8, Held, HSetFieldOK DEF RefreshSet, HashOK
  <2>2. /\ deadline' = [deadline EXCEPT ![sid[w]] = now + Ttl]
        /\ indexUntil' \in {indexUntil, now + Ttl}
        /\ UNCHANGED <<now, created, activity, index, revoked, revivals>>
    BY ONLY <1>8 DEF RefreshSet, history
  <2>3. /\ deadline' \in [Ids -> Nat]
        /\ \A t \in Ids : deadline'[t] <= now + Ttl
    <3>1. /\ deadline \in [Ids -> Nat] /\ now + Ttl \in Nat
          /\ \A t \in Ids : deadline[t] <= now + Ttl
      OBVIOUS
    <3>2. deadline' \in [Ids -> Nat]
      BY ONLY <2>1, <2>2, <3>1
    <3>3. \A t \in Ids : deadline'[t] \in {deadline[t], now + Ttl}
      BY ONLY <2>2, <3>1
    <3>4. QED
      BY ONLY <3>1, <3>2, <3>3
  <2>4. indexUntil' \in 0..(now + Ttl)
    BY <2>2
  <2>5. QED
    BY ONLY TypeInv, <2>1, <2>2, <2>3, <2>4 DEF TypeInv, TypeOK, DataType, DataOK
<1>9. CASE TouchSet(w)
  <2>1. /\ hash' \in [Ids -> {"none", "partial", "full"}]
        /\ \A t \in Ids : hash'[t] # "none" => t \in 1..created
        /\ sid[w] \in Ids
    BY <1>1, <1>9, Held, HSetFieldOK DEF TouchSet, HashOK
  <2>2. activity' \in [Ids -> 0..now]
    BY <1>9, <2>1 DEF TouchSet
  <2>3. revivals' \in {revivals, revivals + 1}
    BY ONLY <1>9 DEF TouchSet
  <2>4. UNCHANGED <<now, created, deadline, index, indexUntil, revoked>>
    BY ONLY <1>9 DEF TouchSet
  <2>5. QED
    BY ONLY TypeInv, <2>1, <2>2, <2>3, <2>4 DEF TypeInv, TypeOK, DataType, DataOK
<1>10. QED
  BY <1>2, <1>3, <1>4, <1>5, <1>6, <1>7, <1>8, <1>9 DEF Request

LEMMA DataCleanup ==
    ASSUME TypeInv, Cleanup \/ CleanFails
    PROVE  DataType' /\ DataOK'
<1> USE SessionAssumption
    DEF TypeInv, TypeOK, DataType, DataOK, CallsOK, Ids, Holding, redis, history,
        Go
<1>1. Cleaner \in Procs
  BY DEF Procs
<1>2. CASE CleanScan
  BY <1>1, <1>2 DEF CleanScan
<1>3. CASE CleanIdle
  BY <1>1, <1>3 DEF CleanIdle, Cleaned
<1>4. CASE CleanDelete
  <2>1. HashOK'
    <3>1. HashOK
      BY DEF HashOK
    <3>2. QED
      BY ONLY <1>4, <3>1, DeleteHashOK DEF CleanDelete, Cleaned
  <2>2. QED
    BY <1>1, <1>4, <2>1, Held DEF CleanDelete, Cleaned, HashOK
<1>5. CASE CleanSrem
  BY <1>1, <1>5 DEF CleanSrem, Cleaned
<1>6. CASE CleanEnd
  BY <1>1, <1>6 DEF CleanEnd
<1>7. CASE \E s \in Ids : CleanTtl(s)
  BY <1>1, <1>7 DEF CleanTtl, CleanOne
<1>8. CASE CleanFails
  <2>1. UNCHANGED <<now, created, redis, tokens, history>>
    BY ONLY <1>8 DEF CleanFails
  <2>2. QED
    BY ONLY TypeInv, <2>1 DEF TypeInv, TypeOK, DataType, DataOK, redis, history
<1>9. QED
  BY <1>2, <1>3, <1>4, <1>5, <1>6, <1>7, <1>8 DEF Cleanup

\* ... what is on the blacklist, and what is known of revocations...
LEMMA TokensBeside ==
    ASSUME TypeInv, UNCHANGED <<now, blacklistUntil, due, overtaken>>,
           remaining' \in [Procs -> 0..Ttl]
    PROVE  TokensType'
BY DEF TypeInv, TypeOK, TokensType

LEMMA TokensTick ==
    ASSUME TypeInv, Tick
    PROVE  TokensType'
<1>1. /\ now \in Nat /\ Ttl \in Nat /\ now' = now + 1
      /\ blacklistUntil \in [Ids -> 0..(now + Ttl)] /\ due \in [Ids -> Nat]
      /\ remaining \in [Procs -> 0..Ttl] /\ overtaken \in SUBSET Ids
  BY SessionAssumption DEF TypeInv, TypeOK, Tick
<1>2. blacklistUntil' \in [Ids -> 0..(now' + Ttl)]
  <2>1. \A n \in 0..(now + Ttl) : n \in 0..(now' + Ttl)
    BY <1>1
  <2>2. 0 \in 0..(now' + Ttl)
    BY <1>1
  <2>3. QED
    BY ONLY Tick, <1>1, <2>1, <2>2 DEF Tick
<1>3. due' \in [Ids -> Nat]
  BY ONLY Tick, <1>1 DEF Tick
<1>4. QED
  BY <1>1, <1>2, <1>3 DEF Tick, TokensType

LEMMA TokensCreation ==
    ASSUME TypeInv, NEW w \in Creators, Creation(w)
    PROVE  TokensType'
<1>1. UNCHANGED <<now, blacklistUntil, remaining, due, overtaken>>
  BY DEF Creation, CreateCount, Members, NothingToEvict, EvictDelete, Create,
     Fetch, FetchRaises, EvictGet, tokens, history
<1>2. QED
  BY <1>1 DEF TypeInv, TypeOK, TokensType

LEMMA TokensRequest ==
    ASSUME TypeInv, NEW w \in Requests, Request(w)
    PROVE  TokensType'
<1>1. /\ w \in Procs /\ now \in Nat /\ Ttl \in Nat
      /\ blacklistUntil \in [Ids -> 0..(now + Ttl)] /\ due \in [Ids -> Nat]
      /\ remaining \in [Procs -> 0..Ttl] /\ overtaken \in SUBSET Ids
      /\ deadline \in [Ids -> Nat] /\ \A s \in Ids : deadline[s] <= now + Ttl
  BY SessionAssumption DEF TypeInv, TypeOK, Procs
<1>2. CASE \E s \in Ids : RevokeGet(w, s)
  <2>1. PICK s \in Ids, cut \in {0, 1} :
           /\ UNCHANGED <<now, blacklistUntil, due, overtaken>>
           /\ remaining' = [remaining EXCEPT ![w] =
                  IF deadline[s] > now + cut THEN deadline[s] - now - cut ELSE 0]
    BY ONLY <1>2 DEF RevokeGet, history
  <2>2. deadline[s] \in Nat /\ deadline[s] <= now + Ttl
    BY <1>1
  <2>3. (IF deadline[s] > now + cut THEN deadline[s] - now - cut ELSE 0) \in 0..Ttl
    BY ONLY <1>1, <2>2, cut \in {0, 1}
  <2>4. remaining' \in [Procs -> 0..Ttl]
    BY ONLY <1>1, <2>1, <2>3
  <2>5. QED
    BY <2>1, <2>4, TokensBeside
<1>3. CASE Blacklist(w)
  <2>1. sid[w] \in Ids
    BY <1>1, <1>3, Held DEF Blacklist, Go, Holding
  <2>2. now + remaining[w] \in 0..(now + Ttl) /\ 0 \in 0..Ttl
    <3>1. remaining[w] \in 0..Ttl
      BY <1>1
    <3>2. QED
      BY ONLY <1>1, <3>1
  <2>3. blacklistUntil' \in [Ids -> 0..(now + Ttl)]
    BY ONLY <1>1, <1>3, <2>2 DEF Blacklist
  <2>4. remaining' \in [Procs -> 0..Ttl]
    BY ONLY <1>1, <1>3, <2>2 DEF Blacklist
  <2>5. QED
    BY <1>1, <1>3, <2>3, <2>4 DEF Blacklist, TokensType, history
<1>4. CASE RevokeDelete(w)
  <2>1. due' \in [Ids -> Nat]
    BY ONLY <1>1, <1>4 DEF RevokeDelete
  <2>2. UNCHANGED <<now, blacklistUntil, remaining, overtaken>>
    BY ONLY <1>4 DEF RevokeDelete, tokens
  <2>3. QED
    BY ONLY <1>1, <2>1, <2>2 DEF TokensType
<1>5. CASE RefreshSet(w)
  BY <1>1, <1>5, Held DEF RefreshSet, Revoking, Holding, TokensType, tokens
<1>6. CASE ~ RefreshSet(w) /\ ~ RevokeDelete(w) /\ ~ Blacklist(w)
           /\ ~ \E s \in Ids : RevokeGet(w, s)
  <2>1. UNCHANGED <<now, blacklistUntil, remaining, due, overtaken>>
    BY <1>6 DEF Request, RefreshGet, TouchGet, GetThen, RevokeSessionGet, TouchSet,
       tokens, history
  <2>2. QED
    BY ONLY <1>1, <2>1 DEF TokensType
<1>7. QED
  BY <1>2, <1>3, <1>4, <1>5, <1>6

LEMMA TokensCleanup ==
    ASSUME TypeInv, Cleanup \/ CleanFails
    PROVE  TokensType'
<1>1. UNCHANGED <<now, blacklistUntil, remaining, due, overtaken>>
  BY DEF Cleanup, CleanFails, CleanScan, CleanIdle, CleanDelete, CleanSrem,
     CleanEnd, CleanTtl, CleanOne, Cleaned, tokens, history
<1>2. QED
  BY <1>1 DEF TypeInv, TypeOK, TokensType

\* ... and of what is local to a call.
LEMMA CallsCreation ==
    ASSUME TypeInv, NEW w \in Creators, Creation(w)
    PROVE  CallsType' /\ CallsOK'
<1> USE SessionAssumption
    DEF TypeInv, TypeOK, CallsType, DataOK, CallsOK, Holding, redis, history,
        Go, EndCall, Found
<1>1. w \in Procs
  BY DEF Procs
<1>2. /\ \A s \in 1..created : s \in Ids
      /\ index \subseteq 1..created
  BY DEF Ids
<1>3. CASE CreateCount(w)
  BY <1>1, <1>2, <1>3 DEF CreateCount
<1>4. CASE Members(w)
  BY <1>1, <1>2, <1>4 DEF Members
<1>5. CASE NothingToEvict(w)
  BY <1>1, <1>2, <1>5 DEF NothingToEvict
<1>6. CASE EvictDelete(w)
  BY <1>1, <1>2, <1>6 DEF EvictDelete
<1>7. CASE Create(w)
  BY <1>1, <1>2, <1>7 DEF Create
<1>8. CASE \E s \in Ids : Fetch(w, s)
  BY <1>1, <1>2, <1>8 DEF Fetch
<1>9. CASE \E s \in Ids : FetchRaises(w, s)
  BY <1>1, <1>2, <1>9 DEF FetchRaises
<1>10. CASE \E s \in Ids : EvictGet(w, s)
  BY <1>1, <1>2, <1>10 DEF EvictGet
<1>11. QED
  BY <1>3, <1>4, <1>5, <1>6, <1>7, <1>8, <1>9, <1>10 DEF Creation

LEMMA CallsRequest ==
    ASSUME TypeInv, NEW w \in Requests, Request(w)
    PROVE  CallsType' /\ CallsOK'
<1> USE SessionAssumption
    DEF TypeInv, TypeOK, CallsType, DataOK, CallsOK, Holding, redis, history,
        Go, EndCall, Found
<1>1. w \in Procs
  BY DEF Procs
<1>2. /\ \A s \in 1..created : s \in Ids
      /\ index \subseteq 1..created
  BY DEF Ids
<1>3. CASE \E s \in Ids : RevokeGet(w, s)
  BY <1>1, <1>2, <1>3 DEF RevokeGet
<1>4. CASE \E s \in Ids : RefreshGet(w, s)
  BY <1>1, <1>2, <1>4 DEF RefreshGet, GetThen
<1>5. CASE \E s \in Ids : TouchGet(w, s)
  BY <1>1, <1>2, <1>5 DEF TouchGet, GetThen
<1>6. CASE Blacklist(w)
  BY <1>1, <1>2, <1>6 DEF Blacklist
<1>7. CASE RevokeSessionGet(w)
  BY <1>1, <1>2, <1>7 DEF RevokeSessionGet
<1>8. CASE RevokeDelete(w)
  BY <1>1, <1>2, <1>8 DEF RevokeDelete
<1>9. CASE RefreshSet(w)
  BY <1>1, <1>2, <1>9 DEF RefreshSet
<1>10. CASE TouchSet(w)
  BY <1>1, <1>2, <1>10 DEF TouchSet
<1>11. QED
  BY <1>3, <1>4, <1>5, <1>6, <1>7, <1>8, <1>9, <1>10 DEF Request

LEMMA CallsCleanup ==
    ASSUME TypeInv, Cleanup \/ CleanFails
    PROVE  CallsType' /\ CallsOK'
<1> USE SessionAssumption
    DEF TypeInv, TypeOK, CallsType, DataOK, CallsOK, Holding, redis, history,
        Go, EndCall, Found
<1>1. Cleaner \in Procs
  BY DEF Procs
<1>2. /\ \A s \in 1..created : s \in Ids
      /\ index \subseteq 1..created
  BY DEF Ids
<1>3. CASE CleanScan
  BY <1>1, <1>2, <1>3 DEF CleanScan
<1>4. CASE CleanIdle
  BY <1>1, <1>2, <1>4 DEF CleanIdle, Cleaned
<1>5. CASE CleanDelete
  BY <1>1, <1>2, <1>5 DEF CleanDelete, Cleaned
<1>6. CASE CleanSrem
  BY <1>1, <1>2, <1>6 DEF CleanSrem, Cleaned
<1>7. CASE CleanEnd
  BY <1>1, <1>2, <1>7 DEF CleanEnd
<1>8. CASE \E s \in Ids : CleanTtl(s)
  BY <1>1, <1>2, <1>8 DEF CleanTtl, CleanOne
<1>9. CASE CleanFails
  BY <1>1, <1>2, <1>9 DEF CleanFails
<1>10. QED
  BY <1>3, <1>4, <1>5, <1>6, <1>7, <1>8, <1>9 DEF Cleanup

LEMMA TypeInvStep == TypeInv /\ [Next]_vars => TypeInv'
<1>1. ASSUME TypeInv, UNCHANGED vars
      PROVE  TypeInv'
  BY <1>1 DEF TypeInv, TypeOK, DataOK, CallsOK, vars, redis, tokens, calls, history
<1>2. ASSUME TypeInv, Tick
      PROVE  TypeInv'
  <2>1. DataType' /\ DataOK'
    <3> USE <1>2, SessionAssumption DEF TypeInv, TypeOK, DataType, DataOK, Tick,
        Expired, history
    <3>1. now' = now + 1 /\ now' \in 0..MaxTime /\ created' = created
      OBVIOUS
    <3>2. /\ hash' \in [Ids -> {"none", "partial", "full"}]
          /\ \A s \in Ids : hash'[s] # "none" => s \in 1..created
      OBVIOUS
    <3>3. /\ deadline' \in [Ids -> Nat]
          /\ \A s \in Ids : deadline'[s] <= now' + Ttl
      BY <3>1
    <3>4. activity' \in [Ids -> 0..now']
      BY <3>1
    <3>5. index' \in SUBSET (1..created) /\ indexUntil' \in 0..(now' + Ttl)
      BY <3>1
    <3>6. QED
      BY <3>1, <3>2, <3>3, <3>4, <3>5
  <2>2. CallsType' /\ CallsOK'
    BY <1>2 DEF TypeInv, TypeOK, CallsType, CallsOK, Tick, calls
  <2>3. QED
    BY <1>2, <2>1, <2>2, TypeSplit, TokensTick
<1>3. ASSUME TypeInv, NEW w \in Creators \cup Requests, Broken(w)
      PROVE  TypeInv'
  <2>1. w \in Procs
    BY DEF Procs
  <2>2. DataType' /\ DataOK'
    BY <1>3 DEF TypeInv, TypeOK, DataType, DataOK, Broken, redis, history
  <2>3. CallsType' /\ CallsOK'
    BY <1>3, <2>1 DEF TypeInv, TypeOK, CallsType, CallsOK, Holding, Broken,
       EndCall
  <2>4. TokensType'
    <3>1. UNCHANGED <<now, blacklistUntil, due, overtaken>>
          /\ remaining' = [remaining EXCEPT ![w] = 0]
      BY ONLY <1>3 DEF Broken, history
    <3>2. remaining \in [Procs -> 0..Ttl] /\ 0 \in 0..Ttl
      BY <1>3, SessionAssumption DEF TypeInv, TypeOK
    <3>3. remaining' \in [Procs -> 0..Ttl]
      BY ONLY <3>1, <3>2
    <3>4. QED
      BY <1>3, <3>1, <3>3, TokensBeside
  <2>5. QED
    BY <2>2, <2>3, <2>4, TypeSplit
<1>4. QED
  BY <1>1, <1>2, <1>3, TypeSplit, DataCreation, DataRequest, DataCleanup,
     CallsCreation, CallsRequest, CallsCleanup, TokensCreation, TokensRequest,
     TokensCleanup DEF Next

\* Every variable keeps its type, and no key lives longer than one time to
\* live from now.
THEOREM TypeCorrect == Spec => []TypeOK
<1>1. TypeInv => TypeOK
  BY DEF TypeInv
<1>2. QED
  BY <1>1, TypeInvInit, TypeInvStep, PTL DEF Spec

-----------------------------------------------------------------------------
(* Only create_session makes a session *)

NewIsCreated ==
    \A s \in Ids : hash'[s] = "full" /\ hash[s] # "full" => s > created

LEMMA NewIsCreatedStep == TypeInv /\ [Next]_vars => NewIsCreated
<1> USE SessionAssumption DEF NewIsCreated, TypeInv, TypeOK, Ids
<1>1. ASSUME TypeInv, UNCHANGED hash
      PROVE  NewIsCreated
  BY <1>1
<1>2. ASSUME TypeInv, Tick
      PROVE  NewIsCreated
  BY <1>2 DEF Tick
<1>3. ASSUME TypeInv, NEW s, DeleteHash(s) \/ HSetField(s)
      PROVE  NewIsCreated
  BY <1>3 DEF DeleteHash, HSetField
<1>4. ASSUME TypeInv, NEW w, Create(w)
      PROVE  NewIsCreated
  BY <1>4 DEF Create
<1>5. ASSUME NEW w, Creation(w)
      PROVE  Create(w) \/ UNCHANGED hash \/ \E s : DeleteHash(s)
  BY ONLY <1>5 DEF Creation, CreateCount, Members, NothingToEvict, EvictDelete,
     Fetch, FetchRaises, EvictGet, DeleteSession, redis
<1>6. ASSUME NEW w, Request(w)
      PROVE  UNCHANGED hash \/ \E s : DeleteHash(s) \/ HSetField(s)
  BY ONLY <1>6 DEF Request, RevokeGet, RefreshGet, TouchGet, GetThen, Blacklist,
     RevokeSessionGet, RevokeDelete, RefreshSet, TouchSet, DeleteSession, redis
<1>7. ASSUME Cleanup \/ CleanFails \/ (\E w : Broken(w))
      PROVE  UNCHANGED hash \/ \E s : DeleteHash(s)
  BY ONLY <1>7 DEF Cleanup, CleanFails, Broken, CleanScan, CleanIdle,
     CleanDelete, CleanSrem, CleanEnd, CleanTtl, CleanOne, redis
<1>8. UNCHANGED vars => UNCHANGED hash
  BY DEF vars, redis
<1>9. QED
  BY <1>1, <1>2, <1>3, <1>4, <1>5, <1>6, <1>7, <1>8 DEF Next

\* A session that has ended never reads as a session again.
THEOREM NoResurrection == Spec => EndedForGood
<1>1. TypeInv /\ [Next]_vars => [NewIsCreated]_vars
  BY NewIsCreatedStep
<1>2. Spec => [][NewIsCreated]_vars
  BY <1>1, TypeInvInit, TypeInvStep, PTL DEF Spec
<1>3. QED
  BY <1>2 DEF EndedForGood, NewIsCreated

-----------------------------------------------------------------------------
(* Live sessions are indexed *)

\* The user's set expires no earlier than a session in it, and the cleanup
\* takes out only ids that are no session any more.
IndexInv ==
    /\ \A s \in Ids : hash[s] = "full" => /\ s \in index
                                          /\ deadline[s] # 0
                                          /\ deadline[s] <= indexUntil
    /\ pc[Cleaner] = "srem" => hash[sid[Cleaner]] # "full"

LEMMA IndexInvTick == TypeInv /\ IndexInv /\ Tick => IndexInv'
<1> SUFFICES ASSUME TypeInv, IndexInv, Tick
             PROVE  IndexInv'
  OBVIOUS
<1>1. \A s \in Ids : hash'[s] = "full" => /\ s \in index'
                                         /\ deadline'[s] # 0
                                         /\ deadline'[s] <= indexUntil'
  <2>1. now \in Nat /\ indexUntil \in Nat /\ deadline \in [Ids -> Nat]
    BY SessionAssumption DEF TypeInv, TypeOK
  <2>2. QED
    BY ONLY IndexInv, Tick, <2>1 DEF IndexInv, Tick, Expired
<1>2. UNCHANGED <<pc, sid>>
  BY DEF Tick, calls
<1>3. pc[Cleaner] = "srem" => sid[Cleaner] \in Ids
  BY Held DEF Procs, Holding
<1>4. \A s \in Ids : hash'[s] = "full" => hash[s] = "full"
  BY DEF Tick
<1>5. QED
  BY ONLY IndexInv, <1>1, <1>2, <1>3, <1>4 DEF IndexInv

\* Steps at which sessions at most end keep the index.
LEMMA IndexBeside ==
    ASSUME TypeInv, IndexInv, indexUntil' = indexUntil,
           \A s \in Ids : hash'[s] = "full" => /\ hash[s] = "full"
                                               /\ deadline'[s] = deadline[s]
                                               /\ s \in index => s \in index',
           pc'[Cleaner] = "srem" =>
               \/ pc[Cleaner] = "srem" /\ sid'[Cleaner] = sid[Cleaner]
               \/ hash'[sid'[Cleaner]] # "full"
    PROVE  IndexInv'
<1>1. pc[Cleaner] = "srem" => sid[Cleaner] \in Ids
  BY Held DEF Procs, Holding
<1>2. QED
  BY ONLY <1>1, IndexInv, indexUntil' = indexUntil,
     \A s \in Ids : hash'[s] = "full" => /\ hash[s] = "full"
                                         /\ deadline'[s] = deadline[s]
                                         /\ s \in index => s \in index',
     pc'[Cleaner] = "srem" =>
         \/ pc[Cleaner] = "srem" /\ sid'[Cleaner] = sid[Cleaner]
         \/ hash'[sid'[Cleaner]] # "full"
  DEF IndexInv

\* The calls of requests leave that of the cleanup alone.
LEMMA CleanerAside ==
    ASSUME TypeInv, NEW w \in Creators \cup Requests, NEW to,
           \/ pc' = [pc EXCEPT ![w] = to] /\ sid' = sid
           \/ \E s : pc' = [pc EXCEPT ![w] = to] /\ sid' = [sid EXCEPT ![w] = s]
    PROVE  pc'[Cleaner] = pc[Cleaner] /\ sid'[Cleaner] = sid[Cleaner]
<1>1. w # Cleaner /\ w \in Procs /\ Cleaner \in Procs
  BY SessionAssumption DEF Procs
<1>2. DOMAIN pc = Procs /\ DOMAIN sid = Procs
  BY DEF TypeInv, TypeOK
<1>3. QED
  BY <1>1, <1>2

LEMMA IndexInvCreation ==
    ASSUME TypeInv, IndexInv, NEW w \in Creators, Creation(w)
    PROVE  IndexInv'
<1> USE SessionAssumption
    DEF TypeInv, TypeOK, DataOK, CallsOK, IndexInv, Ids, Procs, Holding, redis, Go,
        EndCall
<1>1. CASE CreateCount(w)
  BY <1>1 DEF CreateCount
<1>2. CASE Members(w)
  BY <1>2 DEF Members
<1>3. CASE NothingToEvict(w)
  BY <1>3 DEF NothingToEvict
<1>4. CASE EvictDelete(w)
  <2>1. pc'[Cleaner] = pc[Cleaner] /\ sid'[Cleaner] = sid[Cleaner]
    BY ONLY TypeInv, <1>4, CleanerAside DEF EvictDelete
  <2>2. \A s \in Ids : hash'[s] = "full" => /\ hash[s] = "full"
                                            /\ deadline'[s] = deadline[s]
                                            /\ s \in index => s \in index'
    <3>1. hash \in [Ids -> {"none", "partial", "full"}] /\ deadline \in [Ids -> Nat]
      OBVIOUS
    <3>2. QED
      BY ONLY <3>1, <1>4 DEF EvictDelete, DeleteSession, DeleteHash
  <2>3. indexUntil' = indexUntil
    BY ONLY <1>4 DEF EvictDelete, DeleteSession
  <2>4. QED
    BY ONLY TypeInv, IndexInv, <2>1, <2>2, <2>3, IndexBeside
<1>5. CASE Create(w)
  <2>1. pc'[Cleaner] = pc[Cleaner] /\ sid'[Cleaner] = sid[Cleaner]
    BY ONLY TypeInv, <1>5, CleanerAside DEF Create
  <2>2. PICK n \in Ids : n = created + 1
    BY ONLY <1>5, SessionAssumption, TypeInv DEF Create, TypeInv, TypeOK, Ids
  <2>3. /\ hash' = [hash EXCEPT ![n] = "full"] /\ index' = index \cup {n}
        /\ deadline' = [deadline EXCEPT ![n] = now + Ttl] /\ indexUntil' = now + Ttl
    BY ONLY <1>5, <2>2 DEF Create
  <2>4. /\ hash \in [Ids -> {"none", "partial", "full"}] /\ deadline \in [Ids -> Nat]
        /\ now \in Nat /\ Ttl \in Nat \ {0} /\ created \in Nat
        /\ \A s \in Ids : deadline[s] <= now + Ttl
    BY ONLY SessionAssumption, TypeInv DEF TypeInv, TypeOK
  <2>5. \A s \in Ids : hash'[s] = "full" => /\ s \in index' /\ deadline'[s] # 0
                                            /\ deadline'[s] <= indexUntil'
    <3>1. deadline'[n] = now + Ttl /\ now + Ttl \in Nat \ {0} /\ n \in index'
      BY ONLY <2>2, <2>3, <2>4
    <3>2. \A s \in Ids : s # n => /\ hash'[s] = hash[s] /\ deadline'[s] = deadline[s]
                                  /\ s \in index => s \in index'
      BY ONLY <2>3, <2>4
    <3>3. ASSUME NEW s \in Ids, s # n, hash'[s] = "full"
          PROVE  s \in index' /\ deadline'[s] # 0 /\ deadline'[s] <= indexUntil'
      BY ONLY <2>3, <2>4, <3>2, <3>3, IndexInv DEF IndexInv
    <3>4. QED
      BY ONLY <2>3, <3>1, <3>3
  <2>6. pc[Cleaner] = "srem" => sid[Cleaner] \in Ids /\ sid[Cleaner] # n
    <3>1. pc[Cleaner] = "srem" => sid[Cleaner] \in 1..created /\ sid[Cleaner] \in Ids
      BY Held DEF Procs, Holding
    <3>2. n \notin 1..created
      BY ONLY <2>2, <2>4
    <3>3. QED
      BY ONLY <3>1, <3>2
  <2>7. pc'[Cleaner] = "srem" => hash'[sid'[Cleaner]] # "full"
    BY ONLY <2>1, <2>3, <2>4, <2>6, IndexInv DEF IndexInv
  <2>8. QED
    BY ONLY <2>5, <2>7 DEF IndexInv
<1>6. CASE \E s \in Ids : Fetch(w, s)
  BY <1>6 DEF Fetch
<1>7. CASE \E s \in Ids : FetchRaises(w, s)
  BY <1>7 DEF FetchRaises
<1>8. CASE \E s \in Ids : EvictGet(w, s)
  BY <1>8 DEF EvictGet
<1>9. QED
  BY <1>1, <1>2, <1>3, <1>4, <1>5, <1>6, <1>7, <1>8 DEF Creation

LEMMA IndexInvRequest ==
    ASSUME TypeInv, IndexInv, NEW w \in Requests, Request(w)
    PROVE  IndexInv'
<1> USE SessionAssumption
    DEF TypeInv, TypeOK, DataOK, CallsOK, IndexInv, Ids, Procs, Holding, redis, Go,
        EndCall
<1>1. CASE \E s \in Ids : RevokeGet(w, s)
  BY <1>1 DEF RevokeGet
<1>2. CASE \E s \in Ids : RefreshGet(w, s) \/ TouchGet(w, s)
  <2>1. PICK s \in Ids, to \in {"refresh", "touch"} : GetThen(w, s, to)
    BY ONLY <1>2 DEF RefreshGet, TouchGet
  <2>2. pc'[Cleaner] = pc[Cleaner] /\ sid'[Cleaner] = sid[Cleaner]
    BY ONLY TypeInv, <2>1, CleanerAside DEF GetThen, Go
  <2>3. UNCHANGED redis
    BY ONLY <2>1 DEF GetThen
  <2>4. QED
    BY ONLY IndexInv, <2>2, <2>3 DEF IndexInv, redis
<1>3. CASE Blacklist(w)
  BY <1>3 DEF Blacklist
<1>4. CASE RevokeSessionGet(w)
  BY <1>4 DEF RevokeSessionGet
<1>5. CASE RevokeDelete(w)
  <2>1. pc'[Cleaner] = pc[Cleaner] /\ sid'[Cleaner] = sid[Cleaner]
    BY ONLY TypeInv, <1>5, CleanerAside DEF RevokeDelete, EndCall
  <2>2. \A s \in Ids : hash'[s] = "full" => /\ hash[s] = "full"
                                            /\ deadline'[s] = deadline[s]
                                            /\ s \in index => s \in index'
    <3>1. hash \in [Ids -> {"none", "partial", "full"}] /\ deadline \in [Ids -> Nat]
      OBVIOUS
    <3>2. QED
      BY ONLY <3>1, <1>5 DEF RevokeDelete, DeleteSession, DeleteHash
  <2>3. indexUntil' = indexUntil
    BY ONLY <1>5 DEF RevokeDelete, DeleteSession
  <2>4. QED
    BY ONLY TypeInv, IndexInv, <2>1, <2>2, <2>3, IndexBeside
<1>6. CASE RefreshSet(w)
  <2>1. /\ \A s \in Ids : hash'[s] = "full" => hash[s] = "full"
        /\ \A s \in Ids : deadline'[s] \in {deadline[s], now + Ttl}
        /\ index # {} => indexUntil' = now + Ttl
        /\ index' = index
    BY ONLY TypeInv, <1>6 DEF TypeInv, TypeOK, RefreshSet, HSetField
  <2>2. \A s \in Ids : hash'[s] = "full" => /\ s \in index'
                                           /\ deadline'[s] # 0
                                           /\ deadline'[s] <= indexUntil'
    <3>1. /\ \A s \in Ids : deadline[s] <= now + Ttl
          /\ now + Ttl \in Nat \ {0}
      OBVIOUS
    <3>2. QED
      BY ONLY <2>1, <3>1, IndexInv DEF IndexInv
  <2>3. pc'[Cleaner] = "srem" => pc[Cleaner] = "srem" /\ sid'[Cleaner] = sid[Cleaner]
    BY <1>6 DEF RefreshSet
  <2>4. pc'[Cleaner] = "srem" => hash'[sid'[Cleaner]] # "full"
    <3>1. pc[Cleaner] = "srem" => /\ sid[Cleaner] \in Ids
                                  /\ hash[sid[Cleaner]] # "full"
      OBVIOUS
    <3>2. QED
      BY ONLY <2>1, <2>3, <3>1
  <2>5. QED
    BY ONLY <2>2, <2>4 DEF IndexInv
<1>7. CASE TouchSet(w)
  <2>1. pc'[Cleaner] = pc[Cleaner] /\ sid'[Cleaner] = sid[Cleaner]
    BY ONLY TypeInv, <1>7, CleanerAside DEF TouchSet, EndCall
  <2>2. \A s \in Ids : hash'[s] = "full" => hash[s] = "full"
    <3>1. hash \in [Ids -> {"none", "partial", "full"}]
      OBVIOUS
    <3>2. QED
      BY ONLY <3>1, <1>7 DEF TouchSet, HSetField
  <2>3. UNCHANGED <<deadline, index, indexUntil>>
    BY ONLY <1>7 DEF TouchSet
  <2>4. QED
    BY ONLY TypeInv, IndexInv, <2>1, <2>2, <2>3, IndexBeside
<1>8. QED
  BY <1>1, <1>2, <1>3, <1>4, <1>5, <1>6, <1>7 DEF Request

LEMMA IndexInvCleanup ==
    ASSUME TypeInv, IndexInv, Cleanup \/ CleanFails
    PROVE  IndexInv'
<1> USE SessionAssumption
    DEF TypeInv, TypeOK, DataOK, CallsOK, IndexInv, Ids, Procs, Holding, redis, Go,
        EndCall
<1>1. CASE CleanScan
  BY <1>1 DEF CleanScan
<1>2. CASE CleanIdle
  BY <1>2 DEF CleanIdle, Cleaned
<1>3. CASE CleanDelete
  <2>1. /\ hash \in [Ids -> {"none", "partial", "full"}] /\ deadline \in [Ids -> Nat]
        /\ sid[Cleaner] \in Ids /\ sid'[Cleaner] = sid[Cleaner]
    BY <1>3, Held DEF CleanDelete, Cleaned
  <2>2. \A s \in Ids : hash'[s] = "full" => hash[s] = "full"
                                            /\ deadline'[s] = deadline[s]
    BY ONLY <1>3, <2>1 DEF CleanDelete, DeleteHash
  <2>3. hash'[sid'[Cleaner]] # "full"
    BY ONLY <1>3, <2>1 DEF CleanDelete, DeleteHash
  <2>4. UNCHANGED <<index, indexUntil>>
    BY ONLY <1>3 DEF CleanDelete
  <2>5. QED
    BY ONLY TypeInv, IndexInv, <2>2, <2>3, <2>4, IndexBeside
<1>4. CASE CleanSrem
  BY <1>4 DEF CleanSrem, Cleaned
<1>5. CASE CleanEnd
  BY <1>5 DEF CleanEnd
<1>6. CASE \E s \in Ids : CleanTtl(s)
  BY <1>6 DEF CleanTtl, CleanOne
<1>7. CASE CleanFails
  BY <1>7 DEF CleanFails
<1>8. QED
  BY <1>1, <1>2, <1>3, <1>4, <1>5, <1>6, <1>7 DEF Cleanup

LEMMA IndexInvStep == TypeInv /\ IndexInv /\ [Next]_vars => IndexInv'
<1>1. ASSUME IndexInv, UNCHANGED vars
      PROVE  IndexInv'
  BY <1>1 DEF IndexInv, vars, redis, calls
<1>2. ASSUME TypeInv, IndexInv, NEW w \in Creators \cup Requests, Broken(w)
      PROVE  IndexInv'
  BY <1>2, SessionAssumption DEF TypeInv, TypeOK, IndexInv, Procs, Broken,
     EndCall, redis
<1>3. QED
  BY <1>1, <1>2, IndexInvTick, IndexInvCreation, IndexInvRequest,
     IndexInvCleanup DEF Next

\* A live session is always in the set of its user.
THEOREM LiveSessionsIndexed == Spec => []IndexedLive
<1>1. Init => IndexInv
  BY SessionAssumption DEF Init, IndexInv, Procs
<1>2. IndexInv => IndexedLive
  BY DEF IndexInv, IndexedLive
<1>3. QED
  BY <1>1, <1>2, TypeInvInit, TypeInvStep, IndexInvStep, PTL DEF Spec

-----------------------------------------------------------------------------
(* Revocation is complete *)

Revokes == {"blacklist", "revoke", "delete"}

\* When a session would end: at its deadline, or, once revoked, when it would
\* have.
End(s) == IF hash[s] = "full" THEN deadline[s] ELSE due[s]

\* The token of s is on the blacklist up to the last second before "end",
\* or that second has come.
Covered(s, end) == end <= blacklistUntil[s] + 1 \/ end <= now + 1

\* A revoke() that has read the session knows, to a second, how long it
\* lives, and one that is past the blacklisting has covered that time.
Covering(p) ==
    /\ pc[p] = "blacklist" => End(sid[p]) <= now + remaining[p] + 1
    /\ pc[p] \in {"revoke", "delete"} => Covered(sid[p], End(sid[p]))

\* What has been revoked has ended, and only that is due; and what the
\* blacklist covers, where no refresh has overtaken a revoke().
TokenInv ==
    /\ \A s \in revoked : hash[s] # "full"
    /\ \A s \in Ids : due[s] # 0 => s \in revoked /\ now + 1 < due[s]
    /\ JtiBlacklist => \A s \in Ids : s \notin overtaken => Covered(s, due[s])
    /\ JtiBlacklist =>
           \A p \in Requests :
               pc[p] \in Revokes /\ sid[p] \notin overtaken => Covering(p)

LEMMA TokenTypes ==
    ASSUME TypeInv
    PROVE  /\ now \in Nat /\ deadline \in [Ids -> Nat] /\ due \in [Ids -> Nat]
           /\ blacklistUntil \in [Ids -> Nat] /\ remaining \in [Procs -> Nat]
           /\ hash \in [Ids -> {"none", "partial", "full"}]
           /\ DOMAIN pc = Procs /\ DOMAIN sid = Procs
           /\ revoked \subseteq Ids /\ overtaken \subseteq Ids
           /\ Requests \subseteq Procs
           /\ \A p \in Procs : pc[p] \in Revokes =>
                  sid[p] \in Ids /\ sid[p] \in 1..created
           /\ \A s \in Ids : End(s) \in Nat
<1>1. /\ now \in Nat /\ deadline \in [Ids -> Nat] /\ due \in [Ids -> Nat]
      /\ hash \in [Ids -> {"none", "partial", "full"}]
      /\ DOMAIN pc = Procs /\ DOMAIN sid = Procs
      /\ revoked \subseteq Ids /\ overtaken \subseteq Ids
      /\ Requests \subseteq Procs
  BY SessionAssumption DEF TypeInv, TypeOK, Procs
<1>2. blacklistUntil \in [Ids -> Nat] /\ remaining \in [Procs -> Nat]
  <2>1. blacklistUntil \in [Ids -> 0..(now + Ttl)] /\ remaining \in [Procs -> 0..Ttl]
    BY DEF TypeInv, TypeOK
  <2>2. QED
    BY ONLY <2>1
<1>3. \A p \in Procs : pc[p] \in Revokes => sid[p] \in Ids /\ sid[p] \in 1..created
  BY Held DEF Revokes, Holding
<1>4. \A s \in Ids : End(s) \in Nat
  BY ONLY <1>1 DEF End
<1>5. QED
  BY <1>1, <1>2, <1>3, <1>4

\* A step at which revocations at most stop, sessions at most end or are
\* refreshed, and the blacklist stays as it is.
LEMMA TokenBeside ==
    ASSUME TypeInv, TokenInv, NewIsCreated,
           UNCHANGED <<now, blacklistUntil, due, revoked>>,
           overtaken \subseteq overtaken',
           \A p \in Requests : pc'[p] \in Revokes =>
               /\ sid'[p] = sid[p] /\ remaining'[p] = remaining[p]
               /\ pc[p] \in Revokes /\ (pc'[p] = "blacklist" <=> pc[p] = "blacklist"),
           \A s \in Ids : hash'[s] = "full" /\ s \notin overtaken' =>
               \/ hash[s] = "full" /\ deadline'[s] = deadline[s]
               \/ s \notin revoked /\ Revoking(s) = {}
    PROVE  TokenInv'
<1>1. \A s \in revoked' : hash'[s] # "full"
  <2>1. \A s \in revoked : s \in Ids /\ s \in 1..created /\ created \in Nat
    BY SessionAssumption DEF TypeInv, TypeOK, DataOK
  <2>2. QED
    BY <2>1 DEF TokenInv, NewIsCreated
<1>2. \A s \in Ids : due'[s] # 0 => s \in revoked' /\ now' + 1 < due'[s]
  BY DEF TokenInv
<1>3. ASSUME JtiBlacklist, NEW s \in Ids, s \notin overtaken'
      PROVE  Covered(s, due[s])'
  BY <1>3 DEF TokenInv, Covered
<1>4. ASSUME JtiBlacklist, NEW p \in Requests, pc'[p] \in Revokes,
             sid'[p] \notin overtaken'
      PROVE  Covering(p)'
  <2>0. PICK s \in Ids : s = sid[p]
    BY <1>4, TokenTypes
  <2>1. /\ s \notin overtaken /\ Covering(p) /\ Covered(s, due[s])
        /\ s \in Revoking(s) /\ due[s] \in Nat /\ now \in Nat /\ remaining[p] \in Nat
    <3>1. p \in Procs /\ pc[p] \in Revokes
      BY <1>4, TokenTypes
    <3>2. s \notin overtaken /\ Covering(p)
      BY <1>4, <2>0, <3>1 DEF TokenInv
    <3>3. s \in Revoking(s)
      BY <2>0, <3>1 DEF Revoking, Revokes
    <3>4. QED
      BY <1>4, <3>1, <3>2, <3>3, TokenTypes DEF TokenInv
  <2>2. s \notin overtaken' /\ sid'[p] = s /\ remaining'[p] = remaining[p]
    BY <1>4, <2>0
  <2>3. End(s)' = End(s) \/ End(s)' = due[s]
    BY <2>1, <2>2 DEF End
  <2>4. due[s] = 0 \/ End(s) = due[s]
    BY <2>1 DEF TokenInv, End
  <2>5. CASE pc'[p] = "blacklist"
    <3>1. End(s) <= now + remaining[p] + 1
      BY <1>4, <2>0, <2>1, <2>5 DEF Covering
    <3>2. End(s)' <= now + remaining[p] + 1
      BY ONLY <2>1, <2>3, <2>4, <3>1
    <3>3. QED
      BY <1>4, <2>2, <2>5, <3>2 DEF Covering
  <2>6. CASE pc'[p] # "blacklist"
    <3>1. pc[p] \in {"revoke", "delete"}
      BY <1>4, <2>6 DEF Revokes
    <3>2. Covered(s, End(s))
      BY <2>0, <2>1, <3>1 DEF Covering
    <3>3. \/ End(s)' <= blacklistUntil[s] + 1 \/ End(s)' <= now + 1
      BY ONLY <2>1, <2>3, <3>2 DEF Covered
    <3>4. Covered(s, End(s))'
      BY <3>3 DEF Covered
    <3>5. QED
      BY <2>2, <2>6, <3>4 DEF Covering
  <2>7. QED
    BY <2>5, <2>6
<1>5. QED
  BY <1>1, <1>2, <1>3, <1>4 DEF TokenInv

\* What the blacklist forgets, it has covered.
LEMMA TokenTick == TypeInv /\ TokenInv /\ Tick => TokenInv'
<1> SUFFICES ASSUME TypeInv, TokenInv, Tick
             PROVE  TokenInv'
  OBVIOUS
<1>1. /\ now \in Nat /\ now' = now + 1
      /\ deadline \in [Ids -> Nat] /\ due \in [Ids -> Nat]
      /\ blacklistUntil \in [Ids -> Nat] /\ remaining \in [Procs -> Nat]
      /\ UNCHANGED <<pc, sid, remaining, revoked, overtaken>>
      /\ Requests \subseteq Procs
      /\ \A p \in Procs : pc[p] \in Revokes => sid[p] \in Ids
  BY TokenTypes DEF Tick, calls
<1>2. \A s \in revoked' : hash'[s] # "full"
  BY TokenTypes DEF Tick, TokenInv
<1>3. ASSUME NEW s \in Ids
      PROVE  /\ due'[s] = IF due[s] > now + 2 THEN due[s] ELSE 0
             /\ blacklistUntil'[s] = IF Expired(blacklistUntil[s]) THEN 0
                                     ELSE blacklistUntil[s]
             /\ hash'[s] = "full" => hash[s] = "full" /\ deadline'[s] = deadline[s]
             /\ due[s] \in Nat /\ blacklistUntil[s] \in Nat /\ deadline[s] \in Nat
  BY <1>1 DEF Tick
<1>4. ASSUME NEW s \in Ids
      PROVE  due'[s] # 0 => s \in revoked' /\ now' + 1 < due'[s]
  <2>1. due[s] # 0 => s \in revoked
    BY DEF TokenInv
  <2>2. QED
    BY ONLY <1>1, <1>3, <2>1
<1>5. ASSUME NEW s \in Ids, NEW end \in Nat, Covered(s, end)
      PROVE  Covered(s, end)'
  BY ONLY <1>1, <1>3, <1>5 DEF Covered, Expired
<1>6. ASSUME NEW s \in Ids
      PROVE  /\ End(s)' \in {End(s), due[s], 0} /\ End(s) \in Nat
             /\ due'[s] \in {due[s], 0}
  BY <1>1, <1>3 DEF End
<1>7. ASSUME NEW s \in Ids
      PROVE  Covered(s, 0)'
  BY ONLY <1>1 DEF Covered
<1>8. ASSUME JtiBlacklist, NEW s \in Ids, s \notin overtaken'
      PROVE  Covered(s, due[s])'
  <2>1. Covered(s, due[s])
    BY <1>1, <1>8 DEF TokenInv
  <2>2. \A end \in {due[s], 0} : Covered(s, end)'
    BY <1>3, <1>5, <1>7, <2>1
  <2>3. QED
    BY <1>6, <2>2 DEF Covered
<1>9. ASSUME JtiBlacklist, NEW p \in Requests, pc'[p] \in Revokes,
             sid'[p] \notin overtaken'
      PROVE  Covering(p)'
  <2>1. PICK s \in Ids : s = sid[p]
    BY <1>1, <1>9
  <2>2. Covering(p) /\ Covered(s, due[s]) /\ s = sid'[p] /\ pc'[p] = pc[p]
        /\ remaining'[p] = remaining[p] /\ remaining[p] \in Nat
    BY <1>1, <1>9, <2>1 DEF TokenInv
  <2>3. hash[s] = "full" => due[s] = 0
    BY DEF TokenInv
  <2>4. End(s)' \in {End(s), 0}
    BY <1>6, <2>3 DEF End
  <2>5. pc[p] = "blacklist" => End(s)' <= now' + remaining'[p] + 1
    BY <1>1, <1>6, <2>1, <2>2, <2>4 DEF Covering
  <2>6. pc[p] \in {"revoke", "delete"} => \A end \in {End(s), 0} : Covered(s, end)'
    BY <1>5, <1>6, <1>7, <2>1, <2>2 DEF Covering
  <2>7. pc[p] \in {"revoke", "delete"} => Covered(s, End(s))'
    BY <2>4, <2>6 DEF Covered
  <2>8. QED
    BY <2>2, <2>5, <2>7 DEF Covering
<1>10. QED
  BY <1>2, <1>4, <1>8, <1>9 DEF TokenInv

LEMMA TokenCreation ==
    ASSUME TypeInv, TokenInv, NewIsCreated, NEW w \in Creators, Creation(w)
    PROVE  TokenInv'
<1>1. \A p \in Requests : p # w /\ p \in Procs
  BY SessionAssumption DEF Procs
<1>2. \A p \in Requests : pc'[p] = pc[p] /\ sid'[p] = sid[p]
  BY <1>1 DEF TypeInv, TypeOK, Creation, CreateCount, Members, NothingToEvict,
     EvictDelete, Create, Fetch, FetchRaises, EvictGet, Go, EndCall
<1>3. UNCHANGED <<now, blacklistUntil, remaining, due, revoked, overtaken>>
  BY DEF Creation, CreateCount, Members, NothingToEvict, EvictDelete, Create,
     Fetch, FetchRaises, EvictGet, tokens, history
<1>4. ASSUME NEW s \in Ids, hash'[s] = "full"
      PROVE  \/ hash[s] = "full" /\ deadline'[s] = deadline[s]
             \/ s \notin revoked /\ Revoking(s) = {}
  <2>1. CASE hash[s] = "full"
    <3>1. CASE Create(w)
      <4>1. created \in Nat /\ s \in Nat
        BY SessionAssumption DEF TypeInv, TypeOK, Ids
      <4>2. s <= created
        BY <2>1, <4>1 DEF TypeInv, DataOK
      <4>3. QED
        BY <2>1, <3>1, <4>1, <4>2 DEF Create, TypeInv, TypeOK
    <3>2. CASE EvictDelete(w)
      BY <1>4, <2>1, <3>2
      DEF EvictDelete, DeleteSession, DeleteHash, TypeInv, TypeOK
    <3>3. CASE ~ Create(w) /\ ~ EvictDelete(w)
      BY <2>1, <3>3 DEF Creation, CreateCount, Members, NothingToEvict, Fetch,
         FetchRaises, EvictGet, redis
    <3>4. QED
      BY <3>1, <3>2, <3>3
  <2>2. CASE hash[s] # "full"
    <3>1. s > created /\ created \in Nat
      BY <1>4, <2>2 DEF NewIsCreated, TypeInv, TypeOK
    <3>2. s \notin 1..created
      BY <3>1
    <3>3. QED
      BY <1>1, <3>2, TokenTypes DEF Revoking, Revokes, TypeInv, DataOK
  <2>3. QED
    BY <2>1, <2>2
<1>5. QED
  BY <1>2, <1>3, <1>4, TokenBeside

LEMMA TokenCleanup ==
    ASSUME TypeInv, TokenInv, NewIsCreated, Cleanup \/ CleanFails
    PROVE  TokenInv'
<1>1. \A p \in Requests : p # Cleaner /\ p \in Procs
  BY SessionAssumption DEF Procs
<1>2. \A p \in Requests : pc'[p] = pc[p] /\ sid'[p] = sid[p]
  BY <1>1 DEF TypeInv, TypeOK, Cleanup, CleanFails, CleanScan, CleanIdle,
     CleanDelete, CleanSrem, CleanEnd, CleanTtl, CleanOne, Cleaned, Go, EndCall
<1>3. UNCHANGED <<now, blacklistUntil, remaining, due, revoked, overtaken>>
  BY DEF Cleanup, CleanFails, CleanScan, CleanIdle, CleanDelete, CleanSrem,
     CleanEnd, CleanTtl, CleanOne, Cleaned, tokens, history
<1>4. ASSUME NEW s \in Ids, hash'[s] = "full"
      PROVE  hash[s] = "full" /\ deadline'[s] = deadline[s]
  <2>1. CASE CleanDelete
    BY <1>4, <2>1 DEF CleanDelete, Cleaned, DeleteHash, TypeInv, TypeOK
  <2>2. CASE ~CleanDelete
    BY <1>4, <2>2 DEF Cleanup, CleanFails, CleanScan, CleanIdle, CleanSrem,
       CleanEnd, CleanTtl, CleanOne, Cleaned, redis
  <2>3. QED
    BY <2>1, <2>2
<1>5. QED
  BY <1>2, <1>3, <1>4, TokenBeside

LEMMA TokenRevokeGet ==
    ASSUME TypeInv, TokenInv, NEW w \in Requests, NEW s \in Ids, RevokeGet(w, s)
    PROVE  TokenInv'
<1>1. /\ now \in Nat /\ deadline[s] \in Nat /\ w \in Procs
      /\ hash[s] = "full" /\ DOMAIN pc = Procs /\ DOMAIN sid = Procs
      /\ remaining \in [Procs -> Nat] /\ Requests \subseteq Procs
  BY TokenTypes DEF RevokeGet, Found
<1>2. /\ UNCHANGED <<now, hash, deadline, blacklistUntil, due, revoked, overtaken>>
      /\ pc'[w] = (IF JtiBlacklist THEN "blacklist" ELSE "revoke") /\ sid'[w] = s
      /\ \A p \in Requests : p # w => /\ pc'[p] = pc[p] /\ sid'[p] = sid[p]
                                      /\ remaining'[p] = remaining[p]
  BY <1>1 DEF RevokeGet, Go, redis, history
<1>3. deadline[s] <= now + remaining'[w] + 1
  <2>1. PICK cut \in {0, 1} :
           remaining'[w] = IF deadline[s] > now + cut
                           THEN deadline[s] - now - cut ELSE 0
    BY <1>1 DEF RevokeGet
  <2>2. QED
    BY ONLY <1>1, <2>1
<1>4. ASSUME JtiBlacklist, NEW p \in Requests, pc'[p] \in Revokes,
             sid'[p] \notin overtaken'
      PROVE  Covering(p)'
  <2>1. CASE p = w
    BY <1>1, <1>2, <1>3, <1>4, <2>1 DEF Covering, End
  <2>2. CASE p # w
    BY <1>2, <1>4, <2>2 DEF TokenInv, Covering, Covered, End
  <2>3. QED
    BY <2>1, <2>2
<1>5. QED
  BY <1>2, <1>4 DEF TokenInv, Covered

LEMMA TokenBlacklist ==
    ASSUME TypeInv, TokenInv, NEW w \in Requests, Blacklist(w)
    PROVE  TokenInv'
<1>1. /\ now \in Nat /\ due \in [Ids -> Nat] /\ w \in Procs
      /\ DOMAIN pc = Procs /\ remaining \in [Procs -> Nat] /\ Requests \subseteq Procs
      /\ blacklistUntil \in [Ids -> Nat]
      /\ \A p \in Procs : pc[p] \in Revokes => sid[p] \in Ids
      /\ \A s \in Ids : End(s) \in Nat
  BY TokenTypes
<1>2. /\ UNCHANGED <<now, hash, deadline, sid, due, revoked, overtaken>>
      /\ pc[w] = "blacklist" /\ pc'[w] = "revoke" /\ remaining[w] \in Nat
      /\ \A p \in Requests : p # w => /\ pc'[p] = pc[p]
                                      /\ remaining'[p] = remaining[p]
      /\ blacklistUntil' = [blacklistUntil EXCEPT ![sid[w]] = now + remaining[w]]
  BY <1>1 DEF Blacklist, Go, redis, history
<1>3. sid[w] \in Ids
  BY <1>1, <1>2 DEF Revokes
<1>4. \A s \in Ids : End(s)' = End(s) /\ (due[s] = 0 \/ due[s] = End(s))
  BY <1>2 DEF End, TokenInv
<1>5. ASSUME JtiBlacklist, sid[w] \notin overtaken
      PROVE  End(sid[w]) <= blacklistUntil'[sid[w]] + 1
  BY <1>1, <1>2, <1>3, <1>5 DEF TokenInv, Covering, Revokes
<1>6. ASSUME JtiBlacklist, NEW s \in Ids, s \notin overtaken
      PROVE  /\ Covered(s, due[s])'
             /\ Covered(s, End(s)) => Covered(s, End(s))'
  <2>1. CASE s = sid[w]
    <3>1. due[s] <= blacklistUntil'[s] + 1 /\ End(s)' <= blacklistUntil'[s] + 1
      <4>1. due[s] \in Nat /\ blacklistUntil'[s] \in Nat /\ End(s) \in Nat
        BY <1>1, <1>2, <1>3, <2>1
      <4>2. End(s) <= blacklistUntil'[s] + 1
        BY <1>5, <1>6, <2>1
      <4>3. QED
        BY <1>4, <4>1, <4>2
    <3>2. QED
      BY <1>2, <3>1 DEF Covered
  <2>2. CASE s # sid[w]
    <3>1. blacklistUntil'[s] = blacklistUntil[s]
      BY <1>1, <1>2, <2>2
    <3>2. Covered(s, due[s])
      BY <1>6 DEF TokenInv
    <3>3. QED
      BY <1>2, <1>4, <3>1, <3>2 DEF Covered
  <2>3. QED
    BY <2>1, <2>2
<1>7. ASSUME JtiBlacklist, NEW p \in Requests, pc'[p] \in Revokes,
             sid'[p] \notin overtaken'
      PROVE  Covering(p)'
  <2>1. PICK s \in Ids : s = sid[p] /\ s = sid'[p]
    BY <1>1, <1>2, <1>3, <1>7
  <2>2. CASE p = w
    BY <1>2, <1>4, <1>5, <1>7, <2>1, <2>2 DEF Covering, Covered
  <2>3. CASE p # w
    <3>1. Covering(p) /\ pc'[p] = pc[p] /\ remaining'[p] = remaining[p]
      BY <1>2, <1>7, <2>3 DEF TokenInv
    <3>2. pc[p] \in {"revoke", "delete"} => Covered(s, End(s))'
      BY <1>2, <1>6, <1>7, <2>1, <3>1 DEF Covering
    <3>3. pc[p] = "blacklist" => End(s)' <= now' + remaining'[p] + 1
      BY <1>2, <1>4, <2>1, <3>1 DEF Covering
    <3>4. QED
      BY <2>1, <3>1, <3>2, <3>3 DEF Covering
  <2>4. QED
    BY <2>2, <2>3
<1>8. QED
  BY <1>2, <1>6, <1>7 DEF TokenInv

LEMMA TokenDelete ==
    ASSUME TypeInv, TokenInv, NEW w \in Requests, RevokeDelete(w)
    PROVE  TokenInv'
<1>1. /\ now \in Nat /\ due \in [Ids -> Nat] /\ w \in Procs
      /\ DOMAIN pc = Procs /\ DOMAIN sid = Procs /\ Requests \subseteq Procs
      /\ hash \in [Ids -> {"none", "partial", "full"}]
      /\ deadline \in [Ids -> Nat]
      /\ \A p \in Procs : pc[p] \in Revokes => sid[p] \in Ids
  BY TokenTypes
<1>2. PICK d \in Ids : d = sid[w]
  BY <1>1 DEF RevokeDelete, Revokes
<1>3. /\ UNCHANGED <<now, blacklistUntil, remaining, overtaken>>
      /\ pc[w] = "delete" /\ pc'[w] = "idle"
      /\ \A p \in Requests : p # w => pc'[p] = pc[p] /\ sid'[p] = sid[p]
      /\ revoked' = revoked \cup {d}
      /\ \A s \in Ids : s # d => hash'[s] = hash[s] /\ deadline'[s] = deadline[s]
                                 /\ due'[s] = due[s]
      /\ hash'[d] = "none"
      /\ due'[d] = IF hash[d] = "full" /\ deadline[d] > now + 1
                   THEN deadline[d] ELSE due[d]
  BY <1>1, <1>2 DEF RevokeDelete, DeleteSession, DeleteHash, EndCall, tokens
<1>4. hash[d] = "full" => due[d] = 0
  BY DEF TokenInv
<1>5. \A s \in Ids : End(s)' \in {End(s), 0} /\ due'[s] \in {due[s], End(s)}
  BY <1>3, <1>4 DEF End
<1>6. \A s \in revoked' : hash'[s] # "full"
  BY <1>3, TokenTypes DEF TokenInv
<1>7. \A s \in Ids : due'[s] # 0 => s \in revoked' /\ now' + 1 < due'[s]
  <2>1. \A s \in Ids : s # d =>
            (due'[s] # 0 => s \in revoked' /\ now' + 1 < due'[s])
    BY <1>3 DEF TokenInv
  <2>2. due'[d] # 0 => d \in revoked' /\ now' + 1 < due'[d]
    <3>1. due[d] # 0 => now + 1 < due[d]
      BY DEF TokenInv
    <3>2. QED
      BY <1>1, <1>3, <3>1
  <2>3. QED
    BY <2>1, <2>2
<1>8. \A s \in Ids : Covered(s, 0)
  BY <1>1 DEF Covered
<1>9. ASSUME JtiBlacklist, NEW s \in Ids, s \notin overtaken'
      PROVE  Covered(s, due[s])'
  <2>1. Covered(s, due[s])
    BY <1>3, <1>9 DEF TokenInv
  <2>2. s = d => Covered(s, End(s))
    BY <1>2, <1>3, <1>9 DEF TokenInv, Covering, Revokes
  <2>3. s # d => due'[s] = due[s]
    BY <1>3
  <2>4. QED
    BY <1>3, <1>5, <2>1, <2>2, <2>3 DEF Covered
<1>10. ASSUME JtiBlacklist, NEW p \in Requests, pc'[p] \in Revokes,
              sid'[p] \notin overtaken'
       PROVE  Covering(p)'
  <2>1. p # w
    BY <1>3, <1>10 DEF Revokes
  <2>2. PICK s \in Ids : s = sid[p] /\ s = sid'[p]
    BY <1>1, <1>3, <1>10, <2>1
  <2>3. /\ Covering(p) /\ pc'[p] = pc[p] /\ remaining'[p] = remaining[p]
        /\ remaining[p] \in Nat /\ End(s) \in Nat
    BY <1>3, <1>10, <2>1, <2>2, TokenTypes DEF TokenInv
  <2>4. pc[p] = "blacklist" => End(s)' <= now' + remaining'[p] + 1
    BY <1>1, <1>3, <1>5, <2>2, <2>3 DEF Covering
  <2>5. pc[p] \in {"revoke", "delete"} => Covered(s, End(s))'
    BY <1>3, <1>5, <1>8, <2>2, <2>3 DEF Covering, Covered
  <2>6. QED
    BY <2>2, <2>3, <2>4, <2>5 DEF Covering
<1>11. QED
  BY <1>6, <1>7, <1>9, <1>10 DEF TokenInv

LEMMA TokenRequest ==
    ASSUME TypeInv, TokenInv, NewIsCreated, NEW w \in Requests, Request(w)
    PROVE  TokenInv'
<1>1. /\ w \in Procs /\ DOMAIN pc = Procs /\ DOMAIN sid = Procs
      /\ Requests \subseteq Procs /\ hash \in [Ids -> {"none", "partial", "full"}]
      /\ deadline \in [Ids -> Nat] /\ revoked \subseteq Ids
  BY TokenTypes
<1>2. CASE \E s \in Ids : RevokeGet(w, s)
  BY <1>2, TokenRevokeGet
<1>3. CASE Blacklist(w)
  BY <1>3, TokenBlacklist
<1>4. CASE RevokeDelete(w)
  BY <1>4, TokenDelete
<1>5. ASSUME NEW s \in Ids, NEW to \in {"refresh", "touch"}, GetThen(w, s, to)
      PROVE  TokenInv'
  <2>1. /\ UNCHANGED <<now, blacklistUntil, remaining, due, revoked, overtaken,
                       hash, deadline>>
        /\ pc'[w] = to
        /\ \A p \in Requests : p # w => pc'[p] = pc[p] /\ sid'[p] = sid[p]
    BY <1>1, <1>5 DEF GetThen, Go, redis, tokens, history
  <2>2. QED
    BY <2>1, TokenBeside DEF Revokes
<1>6. CASE RevokeSessionGet(w)
  <2>1. /\ UNCHANGED <<now, blacklistUntil, remaining, due, revoked, overtaken,
                       hash, deadline, sid>>
        /\ pc[w] = "revoke" /\ pc'[w] = "delete"
        /\ \A p \in Requests : p # w => pc'[p] = pc[p]
    BY <1>1, <1>6 DEF RevokeSessionGet, Go, redis, tokens, history
  <2>2. QED
    BY <2>1, TokenBeside DEF Revokes
<1>7. CASE RefreshSet(w)
  <2>1. /\ UNCHANGED <<now, blacklistUntil, remaining, due, revoked>>
        /\ overtaken' = overtaken \cup Revoking(sid[w])
        /\ pc'[w] = "idle"
        /\ \A p \in Requests : p # w => pc'[p] = pc[p] /\ sid'[p] = sid[p]
    BY <1>1, <1>7 DEF RefreshSet, EndCall, tokens
  <2>2. \A s \in Ids : hash'[s] = "full" => hash[s] = "full"
    BY <1>1, <1>7 DEF RefreshSet, HSetField
  <2>3. \A s \in Ids : s # sid[w] => deadline'[s] = deadline[s]
    BY <1>1, <1>7 DEF RefreshSet
  <2>4. \A s \in Ids : hash[s] = "full" => s \notin revoked
    BY DEF TokenInv
  <2>5. \A s \in Ids : s = sid[w] /\ s \notin overtaken' => Revoking(s) = {}
    BY <2>1 DEF Revoking
  <2>6. \A s \in Ids : hash'[s] = "full" /\ s \notin overtaken' =>
               \/ hash[s] = "full" /\ deadline'[s] = deadline[s]
               \/ s \notin revoked /\ Revoking(s) = {}
    BY ONLY <2>2, <2>3, <2>4, <2>5
  <2>7. QED
    BY <2>1, <2>6, TokenBeside DEF Revokes
<1>8. CASE TouchSet(w)
  <2>1. /\ UNCHANGED <<now, blacklistUntil, remaining, due, revoked, overtaken,
                       deadline>>
        /\ pc'[w] = "idle"
        /\ \A p \in Requests : p # w => pc'[p] = pc[p] /\ sid'[p] = sid[p]
    BY <1>1, <1>8 DEF TouchSet, EndCall, tokens
  <2>2. \A s \in Ids : hash'[s] = "full" => hash[s] = "full"
    BY <1>1, <1>8 DEF TouchSet, HSetField
  <2>3. QED
    BY <2>1, <2>2, TokenBeside DEF Revokes
<1>9. QED
  BY <1>2, <1>3, <1>4, <1>5, <1>6, <1>7, <1>8 DEF Request, RefreshGet, TouchGet

LEMMA TokenInvStep == TypeInv /\ TokenInv /\ [Next]_vars => TokenInv'
<1> SUFFICES ASSUME TypeInv, TokenInv, [Next]_vars
             PROVE  TokenInv'
  OBVIOUS
<1>1. NewIsCreated
  BY NewIsCreatedStep
<1>2. CASE UNCHANGED vars
  BY <1>2 DEF TokenInv, Covering, Covered, End, vars, redis, tokens, calls, history
<1>3. ASSUME NEW w \in Creators \cup Requests, Broken(w)
      PROVE  TokenInv'
  <2>1. /\ UNCHANGED <<now, blacklistUntil, due, revoked, overtaken, hash, deadline>>
        /\ pc'[w] = "idle"
        /\ \A p \in Requests : p # w => /\ pc'[p] = pc[p] /\ sid'[p] = sid[p]
                                        /\ remaining'[p] = remaining[p]
    BY <1>3, TokenTypes DEF Broken, EndCall, redis, history, Procs
  <2>2. QED
    BY <1>1, <2>1, TokenBeside DEF Revokes
<1>4. QED
  BY <1>1, <1>2, <1>3, TokenTick, TokenCreation, TokenRequest, TokenCleanup DEF Next

\* A session whose revoke() has returned True is gone, and unless a refresh
\* has overtaken the revocation, its token is on the blacklist up to the last
\* second that the session would have lived: the seconds were counted when the
\* session was read, and the entry was written no earlier.
THEOREM RevocationComplete == Spec => []RevocationCovers
<1>1. Init => TokenInv
  BY SessionAssumption DEF Init, TokenInv, Covered, Revokes, Procs
<1>2. TypeInv /\ TokenInv => RevocationCovers
  <2> SUFFICES ASSUME TypeInv, TokenInv, NEW s \in revoked
               PROVE  /\ hash[s] # "full"
                      /\ JtiBlacklist /\ s \notin overtaken /\ due[s] # 0 =>
                             blacklistUntil[s] # 0
    BY DEF RevocationCovers
  <2>1. s \in Ids /\ now \in Nat /\ due[s] \in Nat /\ blacklistUntil[s] \in Nat
    BY TokenTypes
  <2>2. hash[s] # "full"
    BY DEF TokenInv
  <2>3. ASSUME JtiBlacklist, s \notin overtaken, due[s] # 0
        PROVE  blacklistUntil[s] # 0
    BY <2>1, <2>3 DEF TokenInv, Covered
  <2>4. QED
    BY <2>2, <2>3
<1>3. QED
  BY <1>1, <1>2, TypeInvInit, TypeInvStep, TokenInvStep, PTL DEF Spec

-----------------------------------------------------------------------------
(* One create() at a time keeps the limit *)

\* There are no more sessions in S than the limit, "fewer" less, and those
\* that late touches have brought back.
AtMost(S, fewer) == Cardinality(S) + fewer <= MaxConcurrent + revivals

\* What the creation has counted, read and chosen bounds the live sessions: it
\* has found, or has yet to read, all but the ones brought back since it began
\* to list them, and when it goes on to create one there is room for it.
Bounded(w) ==
    /\ AtMost(Live, 0)
    /\ pc[w] = "fetch" =>
           /\ AtMost(Live \cup found[w], 0)
           /\ Cardinality(Live \ (left[w] \cup found[w])) <= revivals
    /\ pc[w] = "evict" => AtMost(Live \cup {sid[w]}, 0)
    /\ pc[w] = "create" => AtMost(Live, 1)
    /\ pc[w] # "fetch" => found[w] = {}

BoundInv == TypeInv /\ IndexInv /\ \A w \in Creators : Bounded(w)

LEMMA OneCreator ==
    ASSUME Cardinality(Creators) = 1
    PROVE  \A v, w \in Creators : v = w
<1>1. \E x : Creators = {x}
  BY SessionAssumption, FS_Singleton
<1>2. QED
  BY <1>1

LEMMA SessionSets ==
    ASSUME NEW T \in SUBSET Ids
    PROVE  /\ IsFiniteSet(T) /\ Cardinality(T) \in Nat
           /\ \A S \in SUBSET T : Cardinality(S) \in Nat
              /\ Cardinality(S) <= Cardinality(T)
           /\ \A x \in Ids : Cardinality(T \cup {x}) <= Cardinality(T) + 1
           /\ \A x \in T : Cardinality(T \ {x}) + 1 <= Cardinality(T)
           /\ Cardinality({}) = 0
<1>1. IsFiniteSet(Ids)
  BY SessionAssumption, FS_Interval DEF Ids
<1>2. IsFiniteSet(T)
  BY <1>1, FS_Subset
<1>3. Cardinality(T) \in Nat
  BY <1>2, FS_CardinalityType
<1>4. ASSUME NEW S \in SUBSET T
      PROVE  Cardinality(S) \in Nat /\ Cardinality(S) <= Cardinality(T)
  BY <1>2, FS_Subset, FS_CardinalityType
<1>5. ASSUME NEW x \in Ids
      PROVE  Cardinality(T \cup {x}) <= Cardinality(T) + 1
  <2>1. CASE x \in T
    <3>1. T \cup {x} = T
      BY <2>1
    <3>2. QED
      BY <1>3, <3>1
  <2>2. CASE x \notin T
    <3>1. Cardinality(T \cup {x}) = Cardinality(T) + 1
      BY <1>2, <2>2, FS_AddElement
    <3>2. QED
      BY <1>3, <3>1
  <2>3. QED
    BY <2>1, <2>2
<1>6. ASSUME NEW x \in T
      PROVE  Cardinality(T \ {x}) + 1 <= Cardinality(T)
  <2>1. Cardinality(T \ {x}) = Cardinality(T) - 1
    BY <1>2, FS_RemoveElement
  <2>2. QED
    BY <1>3, <2>1
<1>7. QED
  BY <1>2, <1>3, <1>4, <1>5, <1>6, FS_EmptySet

\* Fewer sessions stay bounded, also when late touches bring some back.
LEMMA FewerSessions ==
    ASSUME NEW S \in SUBSET Ids, NEW T \in SUBSET Ids, S \subseteq T,
           NEW n \in Nat, NEW r \in Nat, NEW q \in Nat,
           Cardinality(T) + n <= r, r <= q
    PROVE  Cardinality(S) + n <= q
<1>1. Cardinality(S) \in Nat /\ Cardinality(T) \in Nat
      /\ Cardinality(S) <= Cardinality(T)
  BY SessionSets
<1>2. QED
  BY <1>1

LEMMA OneSessionMore ==
    ASSUME NEW S \in SUBSET Ids, NEW T \in SUBSET Ids, NEW x \in Ids,
           S \subseteq T \cup {x},
           NEW n \in Nat, NEW r \in Nat, NEW q \in Nat,
           Cardinality(T) + n <= r, r + 1 <= q
    PROVE  Cardinality(S) + n <= q
<1>1. /\ Cardinality(S) \in Nat /\ Cardinality(T) \in Nat
      /\ Cardinality(T \cup {x}) <= Cardinality(T) + 1
  BY SessionSets
<1>2. T \cup {x} \in SUBSET Ids
  OBVIOUS
<1>3. Cardinality(S) <= Cardinality(T \cup {x}) /\ Cardinality(T \cup {x}) \in Nat
  BY <1>2, SessionSets
<1>4. QED
  BY <1>1, <1>3

\* The sets a creation works with.
LEMMA CreationSets ==
    ASSUME TypeInv, NEW w \in Creators
    PROVE  /\ Live \in SUBSET Ids /\ Live \cup found[w] \in SUBSET Ids
           /\ Live \ (left[w] \cup found[w]) \in SUBSET Ids
           /\ pc[w] = "evict" => sid[w] \in Ids /\ Live \cup {sid[w]} \in SUBSET Ids
           /\ MaxConcurrent \in Nat /\ revivals \in Nat
              /\ MaxConcurrent + revivals \in Nat
<1>1. w \in Procs /\ MaxConcurrent \in Nat
  BY SessionAssumption DEF Procs
<1>2. found[w] \in SUBSET Ids /\ revivals \in Nat
  BY <1>1 DEF TypeInv, TypeOK
<1>3. pc[w] = "evict" => sid[w] \in Ids
  BY <1>1, Held DEF Holding
<1>4. Live \in SUBSET Ids
  BY DEF Live
<1>5. QED
  BY <1>1, <1>2, <1>3, <1>4

\* A step beside the creation, which ends sessions or brings one back.
BringsBack(x) == Live' \subseteq Live \cup {x} /\ revivals' = revivals + 1
OnlyEnds == Live' \subseteq Live /\ revivals' = revivals

LEMMA BoundBeside ==
    ASSUME TypeInv, TypeInv', NEW w \in Creators, Bounded(w),
           OnlyEnds \/ \E x \in Ids : BringsBack(x),
           pc'[w] = pc[w], sid'[w] = sid[w], left'[w] = left[w], found'[w] = found[w]
    PROVE  Bounded(w)'
<1>1. /\ Live \in SUBSET Ids /\ Live \cup found[w] \in SUBSET Ids
      /\ Live \ (left[w] \cup found[w]) \in SUBSET Ids
      /\ pc[w] = "evict" => sid[w] \in Ids /\ Live \cup {sid[w]} \in SUBSET Ids
      /\ MaxConcurrent \in Nat /\ revivals \in Nat /\ MaxConcurrent + revivals \in Nat
  BY CreationSets
<1>2. /\ Live' \in SUBSET Ids /\ Live' \cup found[w] \in SUBSET Ids
      /\ Live' \ (left[w] \cup found[w]) \in SUBSET Ids
      /\ revivals' \in Nat /\ MaxConcurrent + revivals' \in Nat
      /\ pc[w] = "evict" => Live' \cup {sid[w]} \in SUBSET Ids
  <2>1. Live' \in SUBSET Ids
    BY DEF Live
  <2>2. revivals' \in Nat
    BY DEF TypeInv, TypeOK
  <2>3. Live' \cup found[w] \in SUBSET Ids
        /\ Live' \ (left[w] \cup found[w]) \in SUBSET Ids
    BY <1>1, <2>1
  <2>4. pc[w] = "evict" => Live' \cup {sid[w]} \in SUBSET Ids
    BY <1>1, <2>1
  <2>5. MaxConcurrent + revivals' \in Nat
    <3>1. \A r \in Nat : MaxConcurrent + r \in Nat
      BY SessionAssumption
    <3>2. QED
      BY <2>2, <3>1
  <2>6. QED
    BY <2>1, <2>2, <2>3, <2>4, <2>5
<1>3. ASSUME NEW S \in SUBSET Ids, NEW T \in SUBSET Ids, NEW n \in Nat, NEW r \in Nat,
             NEW q \in Nat, Cardinality(T) + n <= r,
             \/ S \subseteq T /\ q = r
             \/ \E x \in Ids : S \subseteq T \cup {x} /\ q = r + 1
      PROVE  Cardinality(S) + n <= q
  <2>1. CASE S \subseteq T /\ q = r
    BY <1>3, <2>1, FewerSessions
  <2>2. CASE \E x \in Ids : S \subseteq T \cup {x} /\ q = r + 1
    <3>1. PICK x \in Ids : S \subseteq T \cup {x} /\ q = r + 1
      BY <2>2
    <3>2. r + 1 <= q
      BY <3>1
    <3>3. QED
      BY <1>3, <3>1, <3>2, OneSessionMore
  <2>3. QED
    BY <1>3, <2>1, <2>2
<1>4. ASSUME NEW F \in SUBSET Ids, NEW n \in Nat,
             Cardinality(Live \cup F) + n <= MaxConcurrent + revivals
      PROVE  Cardinality(Live' \cup F) + n <= MaxConcurrent + revivals'
  <2>1. Live' \cup F \in SUBSET Ids /\ Live \cup F \in SUBSET Ids
    BY <1>1, <1>2
  <2>2. MaxConcurrent + revivals \in Nat /\ MaxConcurrent + revivals' \in Nat
    BY <1>1, <1>2
  <2>3. CASE OnlyEnds
    <3>1. Live' \cup F \subseteq Live \cup F /\ revivals' = revivals
      BY <2>3 DEF OnlyEnds
    <3>2. QED
      BY <1>4, <2>1, <2>2, <3>1, FewerSessions
  <2>4. ASSUME NEW x \in Ids, BringsBack(x)
        PROVE  Cardinality(Live' \cup F) + n <= MaxConcurrent + revivals'
    <3>1. Live' \cup F \subseteq (Live \cup F) \cup {x}
      BY <2>4 DEF BringsBack
    <3>2. (MaxConcurrent + revivals) + 1 <= MaxConcurrent + revivals'
      BY <1>1, <2>4 DEF BringsBack
    <3>3. QED
      BY <1>4, <2>1, <2>2, <3>1, <3>2, OneSessionMore
  <2>5. QED
    BY <2>3, <2>4
<1>5. AtMost(Live, 0)' /\ (pc[w] = "create" => AtMost(Live, 1)')
  <2>1. Live \cup {} = Live /\ Live' \cup {} = Live'
    OBVIOUS
  <2>2. Cardinality(Live') + 0 <= MaxConcurrent + revivals'
    <3>1. Cardinality(Live \cup {}) + 0 <= MaxConcurrent + revivals
      BY <2>1 DEF Bounded, AtMost
    <3>2. Cardinality(Live' \cup {}) + 0 <= MaxConcurrent + revivals'
      BY <1>4, <3>1
    <3>3. QED
      BY <2>1, <3>2
  <2>3. ASSUME pc[w] = "create"
        PROVE  Cardinality(Live') + 1 <= MaxConcurrent + revivals'
    <3>1. Cardinality(Live \cup {}) + 1 <= MaxConcurrent + revivals
      BY <2>1, <2>3 DEF Bounded, AtMost
    <3>2. Cardinality(Live' \cup {}) + 1 <= MaxConcurrent + revivals'
      BY <1>4, <3>1
    <3>3. QED
      BY <2>1, <3>2
  <2>4. QED
    BY <2>2, <2>3 DEF AtMost
<1>6. ASSUME pc[w] = "fetch"
      PROVE  /\ Cardinality(Live' \cup found[w]) + 0 <= MaxConcurrent + revivals'
             /\ Cardinality(Live' \ (left[w] \cup found[w])) <= revivals'
  <2>1. Cardinality(Live \cup found[w]) + 0 <= MaxConcurrent + revivals
    BY <1>6 DEF Bounded, AtMost
  <2>2. Cardinality(Live' \cup found[w]) + 0 <= MaxConcurrent + revivals'
    BY <1>1, <1>4, <2>1
  <2>3. Cardinality(Live \ (left[w] \cup found[w])) + 0 <= revivals
    BY <1>1, <1>6, SessionSets DEF Bounded
  <2>4. \/ /\ Live' \ (left[w] \cup found[w]) \subseteq Live \ (left[w] \cup found[w])
           /\ revivals' = revivals
        \/ \E x \in Ids :
              /\ Live' \ (left[w] \cup found[w])
                     \subseteq (Live \ (left[w] \cup found[w])) \cup {x}
              /\ revivals' = revivals + 1
    BY DEF OnlyEnds, BringsBack
  <2>5. Cardinality(Live' \ (left[w] \cup found[w])) + 0 <= revivals'
    BY <1>1, <1>2, <1>3, <2>3, <2>4
  <2>6. Cardinality(Live' \ (left[w] \cup found[w])) \in Nat
    BY <1>2, SessionSets
  <2>7. QED
    BY <2>2, <2>5, <2>6
<1>7. ASSUME pc[w] = "evict"
      PROVE  Cardinality(Live' \cup {sid[w]}) + 0 <= MaxConcurrent + revivals'
  BY <1>1, <1>4, <1>7 DEF Bounded, AtMost
<1>8. pc[w] # "fetch" => found[w] = {}
  BY DEF Bounded
<1>9. QED
  BY <1>5, <1>6, <1>7, <1>8 DEF Bounded, AtMost

-----------------------------------------------------------------------------

\* Live sessions come only from create() and from late touches.
LEMMA LiveTick == TypeInv /\ Tick => OnlyEnds
<1> SUFFICES ASSUME TypeInv, Tick, NEW s \in Ids, Found(s)'
             PROVE  Found(s)
  BY DEF OnlyEnds, Live, Tick, history
<1>1. now \in Nat /\ activity[s] \in Nat /\ IdleTimeout \in Nat
  BY SessionAssumption DEF TypeInv, TypeOK
<1>2. hash'[s] = "full" /\ ~(IdleTimeout > 0 /\ now' - activity'[s] > IdleTimeout)
  BY DEF Found, Idle
<1>3. hash[s] = "full" /\ activity'[s] = activity[s] /\ now' = now + 1
  BY <1>2 DEF Tick
<1>4. ~(IdleTimeout > 0 /\ now - activity[s] > IdleTimeout)
  BY <1>1, <1>2, <1>3
<1>5. QED
  BY <1>3, <1>4 DEF Found, Idle

LEMMA LiveSame ==
    UNCHANGED <<now, hash, activity, revivals>> => OnlyEnds /\ Live' = Live
BY DEF OnlyEnds, Live, Found, Idle

LEMMA LiveDelete ==
    ASSUME TypeInv, NEW s \in Ids, DeleteHash(s), UNCHANGED <<now, revivals>>
    PROVE  OnlyEnds /\ Live' \subseteq Live \ {s}
BY DEF OnlyEnds, Live, Found, Idle, DeleteHash, TypeInv, TypeOK

LEMMA LiveTouch ==
    ASSUME TypeInv, NEW w \in Requests, TouchSet(w)
    PROVE  OnlyEnds \/ \E x \in Ids : BringsBack(x)
<1>1. w \in Procs /\ pc[w] = "touch"
  BY DEF Procs, TouchSet
<1>2. sid[w] \in Ids
  BY <1>1, Held DEF Holding
<1>3. Live' \subseteq Live \cup {sid[w]}
  BY <1>2 DEF TouchSet, HSetField, Live, Found, Idle, TypeInv, TypeOK
<1>4. CASE hash[sid[w]] = "full" /\ Idle(sid[w])
  BY <1>2, <1>3, <1>4 DEF TouchSet, BringsBack
<1>5. CASE hash[sid[w]] = "full" /\ ~Idle(sid[w])
  BY <1>2, <1>3, <1>5 DEF TouchSet, OnlyEnds, Live, Found
<1>6. CASE hash[sid[w]] # "full"
  <2>1. hash'[sid[w]] # "full"
    BY <1>2, <1>6 DEF TouchSet, HSetField, TypeInv, TypeOK
  <2>2. sid[w] \notin Live'
    BY <2>1 DEF Live, Found
  <2>3. QED
    BY <1>3, <1>6, <2>2 DEF TouchSet, OnlyEnds
<1>7. QED
  BY <1>4, <1>5, <1>6

\* The calls of others leave those of w alone.
Aside(w) == /\ pc'[w] = pc[w] /\ sid'[w] = sid[w]
            /\ left'[w] = left[w] /\ found'[w] = found[w]

LEMMA RequestAside ==
    ASSUME TypeInv, NEW w \in Creators, NEW v \in Requests, Request(v)
    PROVE  Aside(w) /\ (OnlyEnds \/ \E x \in Ids : BringsBack(x))
<1>1. w # v /\ w \in Procs /\ v \in Procs
  BY SessionAssumption DEF Procs
<1>2. Aside(w)
  BY <1>1 DEF Aside, TypeInv, TypeOK, Request, RevokeGet, RefreshGet, TouchGet, GetThen,
     Blacklist, RevokeSessionGet, RevokeDelete, RefreshSet, TouchSet, Go, EndCall
<1>3. CASE TouchSet(v)
  BY <1>2, <1>3, LiveTouch
<1>4. CASE RefreshSet(v)
  <2>1. \A s \in Ids : hash'[s] = "full" <=> hash[s] = "full"
    BY <1>4 DEF RefreshSet, HSetField, TypeInv, TypeOK
  <2>2. QED
    BY <1>2, <1>4, <2>1 DEF RefreshSet, OnlyEnds, Live, Found, Idle, history
<1>5. CASE RevokeDelete(v)
  <2>1. sid[v] \in Ids
    BY <1>1, <1>5, Held DEF RevokeDelete, Holding
  <2>2. QED
    BY <1>2, <1>5, <2>1, LiveDelete DEF RevokeDelete, DeleteSession
<1>6. CASE ~TouchSet(v) /\ ~RefreshSet(v) /\ ~RevokeDelete(v)
  BY <1>2, <1>6, LiveSame DEF Request, RevokeGet, RefreshGet, TouchGet, GetThen,
     Blacklist, RevokeSessionGet, redis, history
<1>7. QED
  BY <1>2, <1>3, <1>4, <1>5, <1>6

LEMMA CleanupAside ==
    ASSUME TypeInv, NEW w \in Creators, Cleanup \/ CleanFails
    PROVE  Aside(w) /\ OnlyEnds
<1>1. w # Cleaner /\ w \in Procs /\ Cleaner \in Procs
  BY SessionAssumption DEF Procs
<1>2. Aside(w)
  BY <1>1 DEF Aside, TypeInv, TypeOK, Cleanup, CleanFails, CleanScan, CleanIdle,
              CleanDelete,
     CleanSrem, CleanEnd, CleanTtl, CleanOne, Cleaned, Go, EndCall
<1>3. CASE CleanDelete
  <2>1. sid[Cleaner] \in Ids
    BY <1>1, <1>3, Held DEF CleanDelete, Cleaned, Go, Holding
  <2>2. QED
    BY <1>2, <1>3, <2>1, LiveDelete DEF CleanDelete, Cleaned, history
<1>4. CASE ~CleanDelete
  <2>1. UNCHANGED <<now, hash, activity, revivals>>
    BY <1>4
       DEF Cleanup, CleanFails, CleanScan, CleanIdle, CleanSrem, CleanEnd, CleanTtl,
       CleanOne, Cleaned, redis, history
  <2>2. QED
    BY <1>2, <2>1, LiveSame
<1>5. QED
  BY <1>3, <1>4

LEMMA BrokenBound ==
    ASSUME TypeInv, TypeInv', NEW w \in Creators, Bounded(w),
           NEW v \in Creators \cup Requests, Broken(v)
    PROVE  Bounded(w)'
<1>1. Live' = Live /\ OnlyEnds
  BY LiveSame DEF Broken, redis, history
<1>2. v \in Procs /\ w \in Procs
  BY DEF Procs
<1>3. CASE v = w
  <2>1. pc'[w] = "idle" /\ found'[w] = {} /\ revivals' = revivals
    BY <1>2, <1>3 DEF Broken, EndCall, history, TypeInv, TypeOK
  <2>2. AtMost(Live, 0)'
    BY <1>1, <2>1 DEF Bounded, AtMost
  <2>3. QED
    BY <2>1, <2>2 DEF Bounded
<1>4. CASE v # w
  <2>1. Aside(w)
    BY <1>2, <1>4 DEF Aside, Broken, EndCall, TypeInv, TypeOK
  <2>2. QED
    BY <1>1, <2>1, BoundBeside DEF Aside
<1>5. QED
  BY <1>3, <1>4

\* The creation itself.
LEMMA BoundCreation ==
    ASSUME TypeInv, TypeInv', IndexInv, NEW w \in Creators, Bounded(w), Creation(w)
    PROVE  Bounded(w)'
<1>1. /\ Live \in SUBSET Ids /\ Live \cup found[w] \in SUBSET Ids
      /\ Live \ (left[w] \cup found[w]) \in SUBSET Ids
      /\ pc[w] = "evict" => sid[w] \in Ids /\ Live \cup {sid[w]} \in SUBSET Ids
      /\ MaxConcurrent \in Nat /\ revivals \in Nat /\ MaxConcurrent + revivals \in Nat
  BY CreationSets
<1>2. /\ w \in Procs /\ DOMAIN pc = Procs /\ DOMAIN sid = Procs /\ DOMAIN left = Procs
      /\ DOMAIN found = Procs
      /\ pc = [p \in Procs |-> pc[p]] /\ sid = [p \in Procs |-> sid[p]]
      /\ left = [p \in Procs |-> left[p]] /\ found = [p \in Procs |-> found[p]]
  BY DEF Procs, TypeInv, TypeOK
<1>3. Live \subseteq index /\ index \in SUBSET Ids
  <2>1. Live \subseteq index
    BY DEF IndexInv, Live, Found
  <2>2. index \in SUBSET (1..created) /\ created \in 0..MaxSessions
    BY DEF TypeInv, TypeOK
  <2>3. index \in SUBSET Ids
    BY <2>2, SessionAssumption DEF Ids
  <2>4. QED
    BY <2>1, <2>3
<1>4. /\ AtMost(Live, 0)
      /\ pc[w] # "fetch" => found[w] = {}
      /\ pc[w] = "fetch" => /\ AtMost(Live \cup found[w], 0)
                            /\ Cardinality(Live \ (left[w] \cup found[w])) <= revivals
      /\ pc[w] = "evict" => AtMost(Live \cup {sid[w]}, 0)
      /\ pc[w] = "create" => AtMost(Live, 1)
  BY DEF Bounded
<1>5. CASE CreateCount(w)
  <2>1. Live' = Live /\ revivals' = revivals /\ found' = found
        /\ pc[w] = "idle"
        /\ pc'[w] = IF Cardinality(index) >= MaxConcurrent THEN "members" ELSE "create"
    BY <1>2, <1>5, LiveSame DEF CreateCount, Go, redis, history
  <2>2. AtMost(Live, 0)' /\ found'[w] = {}
    BY <1>4, <2>1 DEF AtMost
  <2>3. CASE Cardinality(index) >= MaxConcurrent
    BY <2>1, <2>2, <2>3 DEF Bounded
  <2>4. CASE ~(Cardinality(index) >= MaxConcurrent)
    <3>1. Cardinality(Live) <= Cardinality(index) /\ Cardinality(Live) \in Nat
          /\ Cardinality(index) \in Nat
      BY <1>3, SessionSets
    <3>2. Cardinality(Live) + 1 <= MaxConcurrent + revivals
      BY <1>1, <2>4, <3>1
    <3>3. QED
      BY <2>1, <2>2, <2>4, <3>2 DEF Bounded, AtMost
  <2>5. QED
    BY <2>3, <2>4
<1>6. CASE Members(w)
  <2>1. Live' = Live /\ revivals' = revivals /\ found' = found
        /\ pc[w] = "members" /\ pc'[w] = "fetch" /\ left'[w] = index
    BY <1>2, <1>6, LiveSame DEF Members, Go, redis, history
  <2>2. found[w] = {} /\ found'[w] = {} /\ Live \cup {} = Live
        /\ Live' \ (left'[w] \cup found'[w]) = {}
    BY <1>3, <1>4, <2>1
  <2>3. Cardinality(Live' \ (left'[w] \cup found'[w])) <= revivals'
    BY <1>1, <2>1, <2>2, SessionSets
  <2>4. AtMost(Live, 0)'
    BY <1>4, <2>1 DEF AtMost
  <2>5. AtMost(Live \cup found[w], 0)'
    BY <1>4, <2>1, <2>2 DEF AtMost
  <2>6. QED
    BY <2>1, <2>3, <2>4, <2>5 DEF Bounded
<1>7. ASSUME NEW s \in Ids, Fetch(w, s)
      PROVE  Bounded(w)'
  <2>1. Live' = Live /\ revivals' = revivals /\ pc' = pc /\ pc[w] = "fetch"
        /\ s \in left[w]
        /\ left'[w] = left[w] \ {s} /\ found'[w] = found[w] \cup {t \in {s} : Found(t)}
    BY <1>2, <1>7, LiveSame DEF Fetch, redis, history
  <2>2. Live' \cup found'[w] = Live \cup found[w]
    BY <2>1 DEF Live
  <2>3. Live' \ (left'[w] \cup found'[w]) = Live \ (left[w] \cup found[w])
    BY <2>1 DEF Live
  <2>4. AtMost(Live, 0)'
    BY <1>4, <2>1 DEF AtMost
  <2>5. AtMost(Live \cup found[w], 0)'
    BY <1>4, <2>1, <2>2 DEF AtMost
  <2>6. Cardinality(Live' \ (left'[w] \cup found'[w])) <= revivals'
    BY <1>4, <2>1, <2>3
  <2>7. QED
    BY <2>1, <2>4, <2>5, <2>6 DEF Bounded
<1>8. ASSUME NEW s \in Ids, FetchRaises(w, s)
      PROVE  Bounded(w)'
  <2>1. Live' = Live /\ revivals' = revivals /\ pc'[w] = "idle" /\ found'[w] = {}
    BY <1>2, <1>8, LiveSame DEF FetchRaises, EndCall, redis, history
  <2>2. AtMost(Live, 0)'
    BY <1>4, <2>1 DEF AtMost
  <2>3. QED
    BY <2>1, <2>2 DEF Bounded
<1>9. ASSUME NEW s \in Ids, EvictGet(w, s)
      PROVE  Bounded(w)'
  <2>1. Live' = Live /\ revivals' = revivals /\ pc[w] = "fetch" /\ pc'[w] = "evict"
        /\ found'[w] = {} /\ sid'[w] = s /\ s \in found[w] /\ Found(s)
    BY <1>2, <1>9, LiveSame DEF EvictGet, redis, history
  <2>2. Live' \cup {sid'[w]} = Live
    BY <2>1 DEF Live
  <2>3. AtMost(Live, 0)'
    BY <1>4, <2>1 DEF AtMost
  <2>4. AtMost(Live \cup {sid[w]}, 0)'
    BY <1>4, <2>1, <2>2 DEF AtMost
  <2>5. QED
    BY <2>1, <2>3, <2>4 DEF Bounded
<1>10. CASE NothingToEvict(w)
  <2>1. Live' = Live /\ revivals' = revivals /\ pc[w] = "fetch" /\ pc'[w] = "create"
        /\ found'[w] = {} /\ left[w] = {}
        /\ \A s \in found[w] : (\A t \in found[w] : s <= t) => Missing(s)
    BY <1>2, <1>10, LiveSame DEF NothingToEvict, redis, history
  <2>2. Cardinality(Live) + 1 <= MaxConcurrent + revivals
    <3>1. CASE found[w] = {}
      <4>1. Live \ (left[w] \cup found[w]) = Live
        BY <2>1, <3>1
      <4>2. Cardinality(Live) <= revivals /\ Cardinality(Live) \in Nat
        BY <1>1, <1>4, <2>1, <4>1, SessionSets
      <4>3. QED
        BY <1>1, <4>2, SessionAssumption
    <3>2. CASE found[w] # {}
      <4>1. found[w] \in SUBSET Nat /\ found[w] \in SUBSET Ids
        BY <1>1, SessionAssumption DEF Ids
      <4>2. PICK s \in found[w] : \A t \in found[w] : s <= t
        BY <3>2, <4>1, LeastNumber
      <4>3. s \notin Live /\ s \in Ids
        BY <2>1, <4>1, <4>2 DEF Missing, Live
      <4>4. Live \subseteq (Live \cup found[w]) \ {s} /\ s \in Live \cup found[w]
        BY <4>2, <4>3
      <4>5. /\ Cardinality((Live \cup found[w]) \ {s}) + 1 <=
                   Cardinality(Live \cup found[w])
            /\ Cardinality(Live \cup found[w]) \in Nat
            /\ Cardinality((Live \cup found[w]) \ {s}) \in Nat
        BY <1>1, <4>4, SessionSets
      <4>6. (Live \cup found[w]) \ {s} \in SUBSET Ids
        BY <1>1
      <4>7. Cardinality(Live) <= Cardinality((Live \cup found[w]) \ {s})
            /\ Cardinality(Live) \in Nat
        BY <4>4, <4>6, SessionSets
      <4>8. Cardinality(Live \cup found[w]) + 0 <= MaxConcurrent + revivals
        BY <1>4, <2>1 DEF AtMost
      <4>9. QED
        BY <1>1, <4>5, <4>7, <4>8
    <3>3. QED
      BY <3>1, <3>2
  <2>3. AtMost(Live, 0)' /\ AtMost(Live, 1)'
    BY <1>4, <2>1, <2>2 DEF AtMost
  <2>4. QED
    BY <2>1, <2>3 DEF Bounded
<1>11. CASE EvictDelete(w)
  <2>1. sid[w] \in Ids /\ pc[w] = "evict"
    BY <1>1, <1>11 DEF EvictDelete, Go
  <2>2. Live' \subseteq Live \ {sid[w]} /\ revivals' = revivals /\ pc'[w] = "create"
        /\ found' = found
    BY <1>2, <1>11, <2>1, LiveDelete DEF EvictDelete, DeleteSession, Go, history
  <2>3. Live' \subseteq (Live \cup {sid[w]}) \ {sid[w]}
    BY <2>2
  <2>4. /\ Cardinality((Live \cup {sid[w]}) \ {sid[w]}) + 1 <=
               Cardinality(Live \cup {sid[w]})
        /\ Cardinality(Live \cup {sid[w]}) \in Nat
        /\ Cardinality((Live \cup {sid[w]}) \ {sid[w]}) \in Nat
    BY <1>1, <2>1, SessionSets
  <2>5. (Live \cup {sid[w]}) \ {sid[w]} \in SUBSET Ids
    BY <1>1
  <2>6. Cardinality(Live') <= Cardinality((Live \cup {sid[w]}) \ {sid[w]})
        /\ Cardinality(Live') \in Nat
    BY <2>3, <2>5, SessionSets
  <2>7. Cardinality(Live \cup {sid[w]}) + 0 <= MaxConcurrent + revivals
    BY <1>4, <2>1 DEF AtMost
  <2>8. Cardinality(Live') + 1 <= MaxConcurrent + revivals
    BY <1>1, <2>4, <2>6, <2>7
  <2>9. Cardinality(Live') + 0 <= MaxConcurrent + revivals
    BY <1>1, <2>6, <2>8
  <2>10. AtMost(Live, 0)' /\ AtMost(Live, 1)'
    BY <2>2, <2>8, <2>9 DEF AtMost
  <2>11. QED
    BY <1>4, <2>1, <2>2, <2>10 DEF Bounded
<1>12. CASE Create(w)
  <2>1. created + 1 \in Ids
    BY <1>12, SessionAssumption DEF Create, TypeInv, TypeOK, Ids
  <2>2. Live' \subseteq Live \cup {created + 1} /\ revivals' = revivals
        /\ pc[w] = "create"
        /\ pc'[w] = "idle" /\ found'[w] = {}
    BY <1>2, <1>12, <2>1
       DEF Create, EndCall, history, Live, Found, Idle, TypeInv, TypeOK
  <2>3. Cardinality(Live) + 1 <= MaxConcurrent + revivals
    BY <1>4, <2>2 DEF AtMost
  <2>4. Cardinality(Live \cup {created + 1}) <= Cardinality(Live) + 1
        /\ Cardinality(Live) \in Nat
    BY <1>1, <2>1, SessionSets
  <2>5. Live \cup {created + 1} \in SUBSET Ids
    BY <1>1, <2>1
  <2>6. Cardinality(Live') <= Cardinality(Live \cup {created + 1})
        /\ Cardinality(Live') \in Nat /\ Cardinality(Live \cup {created + 1}) \in Nat
    BY <2>2, <2>5, SessionSets
  <2>7. Cardinality(Live') + 0 <= MaxConcurrent + revivals
    BY <1>1, <2>3, <2>4, <2>6
  <2>8. AtMost(Live, 0)'
    BY <2>2, <2>7 DEF AtMost
  <2>9. QED
    BY <2>2, <2>8 DEF Bounded
<1>13. QED
  BY <1>5, <1>6, <1>7, <1>8, <1>9, <1>10, <1>11, <1>12 DEF Creation

LEMMA BoundStep ==
    ASSUME \A v, w \in Creators : v = w
    PROVE  BoundInv /\ [Next]_vars => BoundInv'
<1> SUFFICES ASSUME BoundInv, [Next]_vars
             PROVE  BoundInv'
  OBVIOUS
<1>1. TypeInv /\ TypeInv' /\ IndexInv /\ IndexInv'
  BY TypeInvStep, IndexInvStep DEF BoundInv
<1> SUFFICES ASSUME NEW w \in Creators
             PROVE  Bounded(w)'
  BY <1>1 DEF BoundInv
<1>2. Bounded(w)
  BY DEF BoundInv
<1>3. CASE UNCHANGED vars
  <2>1. Aside(w) /\ OnlyEnds
    BY <1>3, LiveSame DEF Aside, vars, calls, redis, history
  <2>2. QED
    BY <1>1, <1>2, <2>1, BoundBeside DEF Aside
<1>4. CASE Tick
  <2>1. Aside(w) /\ OnlyEnds
    BY <1>1, <1>4, LiveTick DEF Aside, Tick, calls
  <2>2. QED
    BY <1>1, <1>2, <2>1, BoundBeside DEF Aside
<1>5. ASSUME NEW v \in Requests, Request(v)
      PROVE  Bounded(w)'
  BY <1>1, <1>2, <1>5, RequestAside, BoundBeside DEF Aside
<1>6. CASE Cleanup \/ CleanFails
  BY <1>1, <1>2, <1>6, CleanupAside, BoundBeside DEF Aside
<1>7. ASSUME NEW v \in Creators \cup Requests, Broken(v)
      PROVE  Bounded(w)'
  BY <1>1, <1>2, <1>7, BrokenBound
<1>8. ASSUME NEW v \in Creators, Creation(v)
      PROVE  Bounded(w)'
  <2>1. v = w
    OBVIOUS
  <2>2. QED
    BY <1>1, <1>2, <1>8, <2>1, BoundCreation
<1>9. QED
  BY <1>3, <1>4, <1>5, <1>6, <1>7, <1>8 DEF Next

\* While one create() runs at a time, no user has more live sessions than the
\* limit and those that late touches have brought back.
THEOREM LimitAlwaysKept == Spec => []LimitKept
<1>1. CASE Cardinality(Creators) # 1
  <2>1. LimitKept
    BY <1>1 DEF LimitKept
  <2>2. QED
    BY <2>1, PTL
<1>2. CASE Cardinality(Creators) = 1
  <2>1. \A v, w \in Creators : v = w
    BY <1>2, OneCreator
  <2>2. Init => BoundInv
    <3>1. ASSUME Init, NEW w \in Creators
          PROVE  Bounded(w)
      <4>1. Live = {} /\ pc[w] = "idle" /\ found[w] = {} /\ revivals = 0
        BY <3>1 DEF Init, Live, Found, Procs
      <4>2. Cardinality({}) = 0
        BY FS_EmptySet
      <4>3. QED
        BY <4>1, <4>2, SessionAssumption DEF Bounded, AtMost
    <3>2. Init => IndexInv
      BY SessionAssumption DEF Init, IndexInv, Procs
    <3>3. QED
      BY <3>1, <3>2, TypeInvInit DEF BoundInv
  <2>3. BoundInv => LimitKept
    <3>1. Creators # {}
      BY <1>2, FS_EmptySet
    <3>2. QED
      <4> SUFFICES ASSUME BoundInv PROVE LimitKept
        OBVIOUS
      <4>1. PICK w \in Creators : Bounded(w)
        BY <3>1 DEF BoundInv
      <4>2. Live \in SUBSET Ids /\ MaxConcurrent + revivals \in Nat
        BY CreationSets DEF BoundInv
      <4>3. Cardinality(Live) \in Nat
        BY <4>2, SessionSets
      <4>4. Cardinality(Live) + 0 <= MaxConcurrent + revivals
        BY <4>1 DEF Bounded, AtMost
      <4>5. QED
        BY <4>2, <4>3, <4>4 DEF LimitKept
  <2>4. QED
    BY <2>1, <2>2, <2>3, BoundStep, PTL DEF Spec
<1>3. QED
  BY <1>1, <1>2

=============================================================================
