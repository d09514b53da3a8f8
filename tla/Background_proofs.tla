--------------------------- MODULE Background_proofs ----------------------------
(***************************************************************************)
(* Theorems about what runs beside the requests: the Redis pools, the      *)
(* life of the shield, the rotation of credentials, threat feeds, the      *)
(* audit log, the escalation to the WAF and webhook deliveries, for any    *)
(* number of tasks, connections, targets, feeds, entries and events.       *)
(***************************************************************************)
EXTENDS MCBackground, Lemmas

-----------------------------------------------------------------------------
(* Redis pools *)

\* Capacity needs the callers under way to be finitely many.
SlotsInv == IsFiniteSet(Busy) /\ SlotsAccounted

\* The lock is held by exactly the task that is replacing the client.
LockInv ==
    /\ \A r \in Reloads : reload[r] = "closing" <=> lock = r
    /\ \A r \in Reloads : reload[r] = "closing" => old[r] # 0
    /\ health \in {"closing", "probing"} <=> lock = "health"

\* close() has ended the health loop before it marks the pool as closed; from
\* then on only a reload changes the client or opens the pool again.
ShutInv ==
    /\ shutdown \in {"no", "cancelled"} => shut = 0
    /\ shutdown # "no" => health = "gone"
    /\ shutdown = "closing" /\ ~reopened => closed /\ shut = Current

\* The inductive invariant.
PoolInv ==
    /\ PoolTypeOK
    /\ SlotsInv
    /\ LockInv
    /\ ShutInv
    /\ ClientFollowsUrl
    /\ NoClientForgotten

-----------------------------------------------------------------------------

LEMMA PoolInvInit == PoolInit => PoolInv
<1> SUFFICES ASSUME PoolInit PROVE PoolInv
  OBVIOUS
<1> USE PoolAssumption DEF PoolInit
<1>1. Busy = {} /\ Cardinality(Busy) = 0
  BY FS_EmptySet DEF Busy
<1>2. PoolTypeOK
  <2>1. clients \in Seq(Urls \cup {NoUrl}) /\ Len(clients) = 1
    OBVIOUS
  <2>2. url \in Urls \cup {NoUrl} /\ kind \in Kinds /\ open \subseteq 1..Current
    BY <2>1 DEF Kinds, Current
  <2>3. /\ borrower \in [Borrowers -> {"out", "checking", "holding"}]
        /\ reload \in [Reloads -> {"idle", "trying", "waiting", "closing"}]
        /\ target \in [Reloads -> Urls \cup {NoUrl}]
        /\ old \in [Reloads -> 0..Current]
    BY <2>1 DEF Current
  <2>4. {closed, emptied, reopened} \subseteq BOOLEAN
    OBVIOUS
  <2>5. /\ clients \in Seq(Urls \cup {NoUrl}) /\ Current \in 1..MaxClients
        /\ active \in 0..MaxSize /\ leaked \in 0..MaxSize /\ failures \in 0..Retries
        /\ shut \in 0..Current /\ dropped \subseteq 1..Current
        /\ lock \in {Free, "health"} \cup Reloads
    BY <2>1 DEF Current
  <2>6. QED
    BY <2>2, <2>3, <2>4, <2>5 DEF PoolTypeOK
<1>3. SlotsInv
  BY <1>1, FS_EmptySet DEF SlotsInv, SlotsAccounted
<1>4. LockInv
  BY DEF LockInv, Free
<1>5. ShutInv /\ ClientFollowsUrl /\ NoClientForgotten
  BY DEF ShutInv, ClientFollowsUrl, NoClientForgotten, Current
<1>6. QED
  BY <1>2, <1>3, <1>4, <1>5 DEF PoolInv

\* Appending a client makes it the current one.
LEMMA NewClient ==
  ASSUME NEW s \in Seq(Urls \cup {NoUrl}), NEW u \in Urls \cup {NoUrl}
  PROVE  /\ Append(s, u) \in Seq(Urls \cup {NoUrl})
         /\ Len(Append(s, u)) = Len(s) + 1
         /\ Append(s, u)[Len(s) + 1] = u
  OBVIOUS

-----------------------------------------------------------------------------
(* acquire() and release() touch the slots alone. *)

LEMMA SlotsKeepWiring ==
  ASSUME PoolInv, PoolTypeOK', SlotsInv',
         UNCHANGED <<kind, wiring, healthLoop, reloads, closing>>
  PROVE  PoolInv'
<1>1. UNCHANGED <<kind, url, clients, open, closed, lock, reopened, dropped, health,
                  reload, old, shutdown, shut, Current>>
  BY DEF wiring, healthLoop, reloads, closing, Current
<1>2. LockInv' /\ ShutInv'
  BY <1>1 DEF PoolInv, LockInv, ShutInv
<1>3. ClientFollowsUrl' /\ NoClientForgotten'
  BY <1>1 DEF PoolInv, ClientFollowsUrl, NoClientForgotten
<1>4. QED
  BY <1>2, <1>3 DEF PoolInv

\* A caller counts a slot, and gives it up.
LEMMA BusyGrows ==
  ASSUME PoolTypeOK, IsFiniteSet(Busy), NEW b \in Borrowers, borrower[b] = "out",
         NEW purpose \in {"checking", "holding"},
         borrower' = [borrower EXCEPT ![b] = purpose]
  PROVE  IsFiniteSet(Busy') /\ Cardinality(Busy') = Cardinality(Busy) + 1
<1>1. Busy' = Busy \cup {b} /\ b \notin Busy
  BY DEF Busy, PoolTypeOK
<1>2. QED
  BY <1>1, FS_AddElement

LEMMA BusyShrinks ==
  ASSUME PoolTypeOK, IsFiniteSet(Busy), NEW b \in Borrowers, borrower[b] # "out",
         borrower' = [borrower EXCEPT ![b] = "out"]
  PROVE  /\ IsFiniteSet(Busy') /\ Cardinality(Busy') = Cardinality(Busy) - 1
         /\ Cardinality(Busy) \in Nat \ {0}
<1>1. Busy' = Busy \ {b} /\ b \in Busy
  BY DEF Busy, PoolTypeOK
<1>2. QED
  BY <1>1, FS_RemoveElement, FS_EmptySet, FS_CardinalityType

LEMMA BorrowerStepKeeps == PoolInv /\ BorrowerStep => PoolInv'
<1> SUFFICES ASSUME PoolInv, NEW b \in Borrowers,
                    AcquireClient(b) \/ CheckPasses(b) \/ CheckFails(b) \/ Release(b)
             PROVE  PoolInv'
  BY DEF BorrowerStep
<1>1. PoolTypeOK /\ SlotsInv /\ Cardinality(Busy) \in Nat
  BY FS_CardinalityType DEF PoolInv, SlotsInv
<1>2. CASE AcquireClient(b)
  <2>1. PICK purpose \in {"checking", "holding"} : Count(b, purpose)
    BY <1>2 DEF AcquireClient
  <2>2. IsFiniteSet(Busy') /\ Cardinality(Busy') = Cardinality(Busy) + 1
    BY <1>1, <2>1, BusyGrows DEF Count, SlotsInv
  <2>3. SlotsInv'
    BY <1>1, <2>1, <2>2 DEF SlotsInv, SlotsAccounted, Count, PoolTypeOK
  <2>4. PoolTypeOK'
    BY <1>1, <2>1, PoolAssumption DEF PoolTypeOK, Count, wiring, healthLoop, reloads,
      closing, Current
  <2>5. QED
    BY <2>1, <2>3, <2>4, SlotsKeepWiring DEF Count
<1>3. CASE CheckPasses(b)
  <2>1. Busy' = Busy
    BY <1>1, <1>3 DEF CheckPasses, Busy, PoolTypeOK
  <2>2. SlotsInv'
    BY <1>1, <1>3, <2>1 DEF SlotsInv, SlotsAccounted, CheckPasses
  <2>3. PoolTypeOK'
    BY <1>1, <1>3 DEF PoolTypeOK, CheckPasses, wiring, healthLoop, reloads, closing,
      Current
  <2>4. QED
    BY <1>3, <2>2, <2>3, SlotsKeepWiring DEF CheckPasses
<1>4. CASE CheckFails(b)
  <2>1. /\ IsFiniteSet(Busy') /\ Cardinality(Busy') = Cardinality(Busy) - 1
        /\ Cardinality(Busy) \in Nat \ {0}
    BY <1>1, <1>4, BusyShrinks DEF CheckFails, SlotsInv
  <2>2. SlotsInv'
    BY <1>1, <1>4, <2>1 DEF SlotsInv, SlotsAccounted, CheckFails, PoolTypeOK
  <2>3. leaked' \in 0..MaxSize
    BY <1>1, <1>4, <2>1, PoolAssumption
    DEF SlotsInv, SlotsAccounted, CheckFails, PoolTypeOK
  <2>4. PoolTypeOK'
    BY <1>1, <1>4, <2>3 DEF PoolTypeOK, CheckFails, wiring, healthLoop, reloads,
      closing, Current
  <2>5. QED
    BY <1>4, <2>2, <2>4, SlotsKeepWiring DEF CheckFails
<1>5. CASE Release(b)
  <2>1. /\ IsFiniteSet(Busy') /\ Cardinality(Busy') = Cardinality(Busy) - 1
        /\ Cardinality(Busy) \in Nat \ {0}
    BY <1>1, <1>5, BusyShrinks DEF Release, SlotsInv
  <2>2. SlotsInv'
    BY <1>1, <1>5, <2>1 DEF SlotsInv, SlotsAccounted, Release, PoolTypeOK
  <2>3. PoolTypeOK'
    BY <1>1, <1>5, PoolAssumption DEF PoolTypeOK, Release, wiring, healthLoop, reloads,
      closing, Current
  <2>4. QED
    BY <1>5, <2>2, <2>3, SlotsKeepWiring DEF Release
<1>6. QED
  BY <1>2, <1>3, <1>4, <1>5

-----------------------------------------------------------------------------
(* The other tasks change the wiring, and leave the slots to close(). *)

LEMMA WiringKeepsSlots ==
  ASSUME SlotsInv, UNCHANGED slots
  PROVE  SlotsInv'
BY DEF SlotsInv, SlotsAccounted, slots, Busy

LEMMA HealthStepKeeps == PoolInv /\ HealthStep => PoolInv'
<1> SUFFICES ASSUME PoolInv, HealthStep PROVE PoolInv'
  OBVIOUS
<1> USE PoolAssumption
<1>1. /\ PoolTypeOK /\ SlotsInv /\ LockInv /\ ShutInv
      /\ ClientFollowsUrl /\ NoClientForgotten
  BY DEF PoolInv
<1>2. SlotsInv'
  BY <1>1, WiringKeepsSlots DEF HealthStep, PingSucceeds, PingFails, ReconnectBegins,
    ReconnectReplaces, ReconnectProbes, ReconnectFails
<1>3. CASE PingSucceeds \/ PingFails
  <2>1. failures' \in 0..Retries
    BY <1>1, <1>3 DEF PoolTypeOK, PingSucceeds, PingFails
  <2>2. PoolTypeOK'
    BY <1>1, <1>3, <2>1 DEF PoolTypeOK, PingSucceeds, PingFails, slots, wiring, reloads,
      closing, Current
  <2>3. LockInv' /\ ShutInv' /\ ClientFollowsUrl' /\ NoClientForgotten'
    BY <1>1, <1>3 DEF PingSucceeds, PingFails, slots, wiring, reloads, closing, LockInv,
      ShutInv, ClientFollowsUrl, NoClientForgotten, Current
  <2>4. QED
    BY <1>2, <2>2, <2>3 DEF PoolInv
<1>4. CASE ReconnectBegins
  <2>1. PoolTypeOK'
    BY <1>1, <1>4 DEF PoolTypeOK, ReconnectBegins, slots, reloads, closing, Current
  <2>2. LockInv' /\ ShutInv'
    BY <1>1, <1>4 DEF ReconnectBegins, reloads, closing, LockInv, ShutInv, Current, Free
  <2>3. ClientFollowsUrl' /\ NoClientForgotten'
    BY <1>1, <1>4 DEF ReconnectBegins, reloads, closing, ClientFollowsUrl,
      NoClientForgotten, Current, Free
  <2>4. QED
    BY <1>2, <2>1, <2>2, <2>3 DEF PoolInv
<1>5. CASE ReconnectReplaces
  <2>1. Origin \in Urls \cup {NoUrl}
    BY <1>1 DEF PoolTypeOK, Origin
  <2>2. /\ clients' \in Seq(Urls \cup {NoUrl}) /\ Current' = Current + 1
        /\ clients'[Current + 1] = Origin
    BY <1>1, <1>5, <2>1, NewClient DEF PoolTypeOK, ReconnectReplaces, Current
  <2>3. PoolTypeOK'
    BY <1>1, <1>5, <2>2 DEF PoolTypeOK, ReconnectReplaces, slots, reloads, closing
  <2>4. LockInv'
    BY <1>1, <1>5 DEF ReconnectReplaces, reloads, LockInv
  <2>5. ShutInv'
    BY <1>1, <1>5 DEF ReconnectReplaces, closing, ShutInv
  <2>6. ClientFollowsUrl'
    BY <1>1, <1>5, <2>2 DEF ReconnectReplaces, ClientFollowsUrl, Origin
  <2>7. NoClientForgotten'
    BY <1>1, <1>5, <2>2
    DEF ReconnectReplaces, reloads, closing, NoClientForgotten, ShutInv
  <2>8. QED
    BY <1>2, <2>3, <2>4, <2>5, <2>6, <2>7 DEF PoolInv
<1>6. CASE ReconnectProbes \/ ReconnectFails
  <2>1. PoolTypeOK'
    BY <1>1, <1>6 DEF PoolTypeOK, ReconnectProbes, ReconnectFails, slots, reloads,
      closing, Current, Free
  <2>2. LockInv' /\ ShutInv'
    BY <1>1, <1>6 DEF ReconnectProbes, ReconnectFails, reloads, closing, LockInv,
      ShutInv, Free
  <2>3. ClientFollowsUrl' /\ NoClientForgotten'
    BY <1>1, <1>6 DEF ReconnectProbes, ReconnectFails, reloads, closing, LockInv,
      ShutInv, ClientFollowsUrl, NoClientForgotten, Current, Free
  <2>4. QED
    BY <1>2, <2>1, <2>2, <2>3 DEF PoolInv
<1>7. QED
  BY <1>3, <1>4, <1>5, <1>6 DEF HealthStep

LEMMA ReloadStepKeeps ==
  ASSUME PoolInv, NEW r \in Reloads, ReloadStep(r)
  PROVE  PoolInv'
<1> USE PoolAssumption
<1>1. /\ PoolTypeOK /\ SlotsInv /\ LockInv /\ ShutInv
      /\ ClientFollowsUrl /\ NoClientForgotten
  BY DEF PoolInv
<1>2. SlotsInv'
  BY <1>1, WiringKeepsSlots DEF ReloadStep, ReloadBegins, ReloadTries, ReloadSwaps,
    ReloadEnds, ReloadCancelled
<1>3. CASE (\E u \in Urls : ReloadBegins(r, u)) \/ ReloadTries(r)
  <2>1. /\ reload' \in [Reloads -> {"idle", "trying", "waiting", "closing"}]
        /\ target' \in [Reloads -> Urls \cup {NoUrl}]
    <3>1. CASE \E u \in Urls : ReloadBegins(r, u)
      BY <1>1, <3>1 DEF PoolTypeOK, ReloadBegins
    <3>2. CASE ReloadTries(r)
      BY <1>1, <3>2 DEF PoolTypeOK, ReloadTries, wiring
    <3>3. QED
      BY <1>3, <3>1, <3>2
  <2>2. PoolTypeOK'
    <3>1. UNCHANGED <<kind, active, borrower, leaked, emptied, url, clients, open,
                      closed, lock, reopened, dropped, health, failures, old,
                      shutdown, shut>>
      BY <1>3 DEF ReloadBegins, ReloadTries, slots, wiring, healthLoop, closing
    <3>2. QED
      BY <1>1, <2>1, <3>1 DEF PoolTypeOK, Current
  <2>3. LockInv'
    BY <1>1, <1>3 DEF ReloadBegins, ReloadTries, wiring, healthLoop, LockInv, PoolTypeOK
  <2>4. ShutInv' /\ ClientFollowsUrl' /\ NoClientForgotten'
    BY <1>1, <1>3 DEF ReloadBegins, ReloadTries, wiring, healthLoop, closing, ShutInv,
      ClientFollowsUrl, NoClientForgotten, Current
  <2>5. QED
    BY <1>2, <2>2, <2>3, <2>4 DEF PoolInv
<1>4. CASE ReloadSwaps(r)
  <2>1. target[r] \in Urls \cup {NoUrl}
    BY <1>1 DEF PoolTypeOK
  <2>2. /\ clients' \in Seq(Urls \cup {NoUrl}) /\ Current' = Current + 1
        /\ clients'[Current + 1] = target[r]
    BY <1>1, <1>4, <2>1, NewClient DEF PoolTypeOK, ReloadSwaps, Current
  <2>3. PoolTypeOK'
    <3>1. Current \in 1..MaxClients /\ Current' \in 1..MaxClients
      BY <1>1, <1>4, <2>2 DEF PoolTypeOK, ReloadSwaps
    <3>2. /\ reload' \in [Reloads -> {"idle", "trying", "waiting", "closing"}]
          /\ old' \in [Reloads -> 0..Current']
      BY <1>1, <1>4, <2>2, <3>1 DEF PoolTypeOK, ReloadSwaps
    <3>3. /\ shut' \in 0..Current' /\ open' \subseteq 1..Current'
          /\ dropped' \subseteq 1..Current'
      BY <1>1, <1>4, <2>2, <3>1 DEF PoolTypeOK, ReloadSwaps, closing
    <3>4. {closed', emptied', reopened'} \subseteq BOOLEAN
      BY <1>1, <1>4 DEF PoolTypeOK, ReloadSwaps, slots
    <3>5. QED
      BY <1>1, <1>4, <2>1, <2>2, <3>1, <3>2, <3>4, <3>3
      DEF PoolTypeOK, ReloadSwaps, slots, healthLoop, closing
  <2>4. LockInv'
    BY <1>1, <1>4 DEF ReloadSwaps, healthLoop, LockInv, Free, PoolTypeOK
  <2>5. ShutInv'
    BY <1>1, <1>4 DEF ReloadSwaps, healthLoop, closing, ShutInv
  <2>6. ClientFollowsUrl'
    BY <1>1, <1>4, <2>2 DEF ReloadSwaps, ClientFollowsUrl
  <2>7. NoClientForgotten'
    <3>1. {q \in Reloads : lock = q} = {}
      BY <1>4 DEF ReloadSwaps, Free
    <3>2. old'[r] = Current /\ lock' = r
      BY <1>1, <1>4 DEF ReloadSwaps, PoolTypeOK
    <3>3. QED
      BY <1>1, <1>4, <2>2, <3>1, <3>2 DEF ReloadSwaps, closing, NoClientForgotten
  <2>8. QED
    BY <1>2, <2>3, <2>4, <2>5, <2>6, <2>7 DEF PoolInv
<1>5. CASE ReloadEnds(r)
  <2>1. lock = r
    BY <1>1, <1>5 DEF ReloadEnds, LockInv
  <2>2. PoolTypeOK'
    BY <1>1, <1>5 DEF PoolTypeOK, ReloadEnds, slots, healthLoop, closing, Current, Free
  <2>3. LockInv'
    BY <1>1, <1>5, <2>1 DEF ReloadEnds, healthLoop, LockInv, Free, PoolTypeOK
  <2>4. ShutInv' /\ ClientFollowsUrl'
    BY <1>1, <1>5 DEF ReloadEnds, healthLoop, closing, ShutInv, ClientFollowsUrl,
      Current
  <2>5. NoClientForgotten'
    BY <1>1, <1>5, <2>1 DEF ReloadEnds, closing, NoClientForgotten, Current
  <2>6. QED
    BY <1>2, <2>2, <2>3, <2>4, <2>5 DEF PoolInv
<1>6. CASE ReloadCancelled(r)
  <2>1. /\ reload' \in [Reloads -> {"idle", "trying", "waiting", "closing"}]
        /\ lock' \in {Free, "health"} \cup Reloads
    BY <1>1, <1>6 DEF PoolTypeOK, ReloadCancelled
  <2>2. dropped' \subseteq 1..Current
    <3>1. reload[r] = "closing" => old[r] # 0
      BY <1>1 DEF LockInv
    <3>2. reload[r] = "closing" => old[r] \in 1..Current
      BY <1>1, <3>1 DEF PoolTypeOK
    <3>3. dropped' \in {dropped, dropped \cup {old[r]}}
          /\ (reload[r] # "closing" => dropped' = dropped)
      BY <1>6 DEF ReloadCancelled
    <3>4. QED
      BY <1>1, <3>2, <3>3 DEF PoolTypeOK
  <2>3. PoolTypeOK'
    BY <1>1, <1>6, <2>1, <2>2 DEF PoolTypeOK, ReloadCancelled, slots, healthLoop,
      closing, Current
  <2>4. LockInv'
    BY <1>1, <1>6 DEF ReloadCancelled, healthLoop, LockInv, Free, PoolTypeOK
  <2>5. ShutInv' /\ ClientFollowsUrl'
    BY <1>1, <1>6 DEF ReloadCancelled, healthLoop, closing, ShutInv, ClientFollowsUrl,
      Current
  <2>6. NoClientForgotten'
    BY <1>1, <1>6 DEF ReloadCancelled, closing, NoClientForgotten, Current, LockInv
  <2>7. QED
    BY <1>2, <2>3, <2>4, <2>5, <2>6 DEF PoolInv
<1>7. QED
  BY <1>3, <1>4, <1>5, <1>6 DEF ReloadStep

LEMMA CloseStepKeeps == PoolInv /\ CloseStep => PoolInv'
<1> SUFFICES ASSUME PoolInv, CloseStep PROVE PoolInv'
  OBVIOUS
<1> USE PoolAssumption
<1>1. /\ PoolTypeOK /\ SlotsInv /\ LockInv /\ ShutInv
      /\ ClientFollowsUrl /\ NoClientForgotten
  BY DEF PoolInv
<1>2. CASE CloseCancels
  <2>1. PoolTypeOK'
    BY <1>1, <1>2 DEF PoolTypeOK, CloseCancels, slots, reloads, Current, Free
  <2>2. SlotsInv'
    BY <1>1, <1>2, WiringKeepsSlots DEF CloseCancels
  <2>3. LockInv' /\ ShutInv'
    BY <1>1, <1>2 DEF CloseCancels, reloads, LockInv, ShutInv, Free
  <2>4. ClientFollowsUrl' /\ NoClientForgotten'
    BY <1>1, <1>2 DEF CloseCancels, reloads, ClientFollowsUrl, NoClientForgotten,
      Current, Free
  <2>5. QED
    BY <2>1, <2>2, <2>3, <2>4 DEF PoolInv
<1>3. CASE CloseMarks
  <2>1. PoolTypeOK'
    BY <1>1, <1>3 DEF PoolTypeOK, CloseMarks, healthLoop, reloads, Current
  <2>2. SlotsInv'
    <3>1. Busy' = Busy
      BY <1>3 DEF CloseMarks, Busy
    <3>2. active' = 0 /\ leaked' = 0 /\ (emptied' \/ Busy = {})
      BY <1>3 DEF CloseMarks
    <3>3. QED
      BY <1>1, <3>1, <3>2, FS_EmptySet DEF SlotsInv, SlotsAccounted
  <2>3. LockInv' /\ ShutInv' /\ ClientFollowsUrl'
    BY <1>1, <1>3 DEF CloseMarks, healthLoop, reloads, LockInv, ShutInv,
      ClientFollowsUrl, Current
  <2>4. NoClientForgotten'
    <3>1. shut \notin open
      BY <1>1, <1>3 DEF CloseMarks, ShutInv, PoolTypeOK, Current
    <3>2. QED
      BY <1>1, <1>3, <3>1 DEF CloseMarks, reloads, NoClientForgotten, Current
  <2>5. QED
    BY <2>1, <2>2, <2>3, <2>4 DEF PoolInv
<1>4. CASE CloseEnds
  <2>1. PoolTypeOK'
    BY <1>1, <1>4 DEF PoolTypeOK, CloseEnds, slots, healthLoop, reloads, Current
  <2>2. SlotsInv'
    BY <1>1, <1>4, WiringKeepsSlots DEF CloseEnds
  <2>3. LockInv' /\ ShutInv' /\ ClientFollowsUrl'
    BY <1>1, <1>4 DEF CloseEnds, healthLoop, reloads, LockInv, ShutInv,
      ClientFollowsUrl, Current
  <2>4. NoClientForgotten'
    BY <1>1, <1>4 DEF CloseEnds, reloads, NoClientForgotten, ShutInv, Current
  <2>5. QED
    BY <2>1, <2>2, <2>3, <2>4 DEF PoolInv
<1>5. QED
  BY <1>2, <1>3, <1>4 DEF CloseStep

LEMMA PoolInvStep == PoolInv /\ [PoolNext]_poolVars => PoolInv'
<1> SUFFICES ASSUME PoolInv, [PoolNext]_poolVars PROVE PoolInv'
  OBVIOUS
<1>1. CASE SharedStep
  BY <1>1, BorrowerStepKeeps, HealthStepKeeps, ReloadStepKeeps, CloseStepKeeps
  DEF SharedStep
<1>2. CASE UNCHANGED poolVars
  <2>1. UNCHANGED <<kind, active, borrower, leaked, emptied, url, clients, open, closed,
                    lock, reopened, dropped, health, failures, reload, target, old,
                    shutdown, shut>>
    BY <1>2 DEF poolVars, slots, wiring, healthLoop, reloads, closing
  <2>2. PoolTypeOK' /\ SlotsInv'
    BY <2>1 DEF PoolInv, PoolTypeOK, SlotsInv, SlotsAccounted, Current, Busy
  <2>3. QED
    BY <1>2, <2>2, SlotsKeepWiring DEF poolVars
<1>3. QED
  BY <1>1, <1>2 DEF PoolNext, RedisPool, RedisClusterPool, RedisSentinelPool

-----------------------------------------------------------------------------

\* The variables of a Redis pool keep their types; no more than max_size slots
\* are counted or leaked.
THEOREM PoolTyped == PoolSpec => []PoolTypeOK
<1>1. PoolInv => PoolTypeOK
  BY DEF PoolInv
<1>2. QED
  BY <1>1, PoolInvInit, PoolInvStep, PTL DEF PoolSpec

\* Whatever acquire(), the health loop, reloads and close() do at once: slots are
\* accounted for, the client follows the URL, and no client is forgotten open.
THEOREM PoolAlwaysConsistent == PoolSpec => []PoolConsistent
<1>1. PoolInv => PoolConsistent
  BY DEF PoolInv, SlotsInv, PoolConsistent
<1>2. QED
  BY <1>1, PoolInvInit, PoolInvStep, PTL DEF PoolSpec

-----------------------------------------------------------------------------
(* The life of the shield *)

\* What of shutdown() is over at a stage.
AfterFeeds == {"down"}
AfterDlq == {"feeds", "fetching"} \cup AfterFeeds
AfterSessions == {"dlq", "polling"} \cup AfterDlq
AfterBus == {"sessions", "cleanup"} \cup AfterSessions
AfterPools == {"bus", "join", "draining"} \cup AfterBus
Stopping == {"rotation", "pools", "closing"} \cup AfterPools

\* The event loop runs while the shield is up only when it is suspended, and
\* what it had to do has been done before shutdown() begins.
LoopInv ==
    /\ stage = "new" => running = {} /\ ~suspended /\ ~scheduled /\ ~served
    /\ stage = "up" /\ served => suspended
    /\ stage \in Stopping /\ scheduled => ~served

\* The pools' health checks run until they are stopped, and waiting for their
\* end lets the event loop catch up.
HealthInv ==
    /\ "health" \in stopping => stage \in {"closing"} \cup AfterPools
    /\ stage \in {"up", "rotation", "pools"} /\ Enabled("db") => "health" \in running
    /\ stage \in AfterPools => "health" \notin running
    /\ stage \in AfterPools /\ Enabled("db") => ~scheduled

\* So does the consumer of the bus.
BusInv ==
    /\ "bus" \in stopping => stage \in {"draining"} \cup AfterBus
    /\ stage \in {"up", "rotation", "pools", "closing", "bus"} /\ Enabled("webhooks") =>
           "bus" \in running /\ accepting
    /\ stage \in AfterBus => "bus" \notin running
    /\ stage \in AfterBus /\ Enabled("webhooks") => ~scheduled
    /\ ~Enabled("webhooks") => queued = 0 /\ ~handling

\* What is owed when join() begins is in the queue or being dispatched.
OwedInv ==
    /\ stage = "join" =>
           IF joined THEN owed = 0
           ELSE owed <= queued + (IF handling THEN 1 ELSE 0)
    /\ stage \in {"draining"} \cup AfterBus => timedOut \/ owed = 0

\* The services stopped after the bus.
RestInv ==
    /\ stage \in AfterSessions =>
           (scheduled \/ "cleanup" \in running =>
                ~served /\ ~Enabled("db") /\ ~Enabled("webhooks"))
    /\ stage \in AfterDlq => "dlq" \notin running
    /\ stage \in AfterFeeds => "feeds" \notin running

\* The inductive invariant.
ShieldInv ==
    /\ ShieldTypeOK
    /\ LoopInv
    /\ HealthInv
    /\ BusInv
    /\ OwedInv
    /\ RestInv

-----------------------------------------------------------------------------

LEMMA ShieldInvInit == ShieldInit => ShieldInv
<1> SUFFICES ASSUME ShieldInit PROVE ShieldInv
  OBVIOUS
<1>1. ShieldTypeOK
  <2>1. {suspended, scheduled, handling, accepting, joined, served, timedOut}
            \subseteq BOOLEAN
    BY DEF ShieldInit
  <2>2. QED
    BY <2>1, LifecycleAssumption DEF ShieldInit, ShieldTypeOK, Stages
<1>2. LoopInv /\ HealthInv /\ BusInv
  BY DEF ShieldInit, LoopInv, HealthInv, BusInv, AfterFeeds, AfterDlq, AfterSessions,
    AfterBus, AfterPools, Stopping
<1>3. OwedInv /\ RestInv
  BY DEF ShieldInit, OwedInv, RestInv, AfterFeeds, AfterDlq, AfterSessions, AfterBus
<1>4. QED
  BY <1>1, <1>2, <1>3 DEF ShieldInv

\* Which of the tasks the constructor starts.
LEMMA StartedTasks ==
  /\ Started \subseteq BackgroundTasks
  /\ Enabled("db") => "health" \in Started
  /\ Enabled("webhooks") => "bus" \in Started
BY DEF Started, BackgroundTasks

LEMMA ConstructKeeps == ShieldInv /\ Construct => ShieldInv'
<1> SUFFICES ASSUME ShieldInv, Construct PROVE ShieldInv'
  OBVIOUS
<1>1. /\ stage = "new" /\ stage' \in {"raised", "up"} /\ stopping = {}
      /\ queued' = queued /\ handling' = handling /\ features' = features
      /\ ~suspended' /\ ~served' /\ stopping' = stopping
    BY DEF Construct, ShieldInv, ShieldTypeOK, LoopInv
<1>2. ShieldTypeOK'
  <2>1. {suspended', scheduled', handling', accepting', joined', served', timedOut'}
            \subseteq BOOLEAN
    BY DEF Construct, ShieldInv, ShieldTypeOK, Enabled, Refused
  <2>2. running' \subseteq BackgroundTasks
    BY StartedTasks DEF Construct
  <2>3. QED
    BY <1>1, <2>1, <2>2 DEF Construct, ShieldInv, ShieldTypeOK, Stages
<1>3. LoopInv' /\ OwedInv' /\ RestInv'
  BY <1>1 DEF LoopInv, OwedInv, RestInv, AfterFeeds, AfterDlq, AfterSessions, AfterBus,
    AfterPools, Stopping
<1>4. HealthInv'
  BY <1>1, StartedTasks DEF Construct, HealthInv, Enabled, AfterFeeds, AfterDlq,
    AfterSessions, AfterBus, AfterPools
<1>5. BusInv'
  <2>1. Enabled("webhooks") => "bus" \in running' /\ accepting'
    BY StartedTasks DEF Construct
  <2>2. QED
    BY <1>1, <2>1 DEF ShieldInv, BusInv, Enabled, AfterFeeds, AfterDlq, AfterSessions,
      AfterBus
<1>6. QED
  BY <1>2, <1>3, <1>4, <1>5 DEF ShieldInv

-----------------------------------------------------------------------------
(* The event loop: the stage stays. *)

LEMMA ServeKeeps == ShieldInv /\ Serve => ShieldInv'
<1> SUFFICES ASSUME ShieldInv, Serve PROVE ShieldInv'
  OBVIOUS
<1>1. /\ UNCHANGED <<features, stage, running, stopping, scheduled, queued, handling,
                     accepting, joined, emitted, owed, timedOut>>
      /\ suspended' = TRUE /\ served' = (served \/ stage = "up")
      /\ stage \in {"up", "down"}
  BY DEF Serve, tasks, busState
<1>2. ShieldTypeOK'
  BY <1>1 DEF ShieldInv, ShieldTypeOK
<1>3. LoopInv'
  BY <1>1 DEF ShieldInv, LoopInv, Stopping, AfterPools, AfterBus, AfterSessions,
    AfterDlq, AfterFeeds
<1>4. HealthInv' /\ BusInv' /\ OwedInv'
  BY <1>1 DEF ShieldInv, HealthInv, BusInv, OwedInv, Enabled
<1>5. RestInv'
  BY <1>1 DEF ShieldInv, RestInv, Enabled, AfterSessions, AfterDlq, AfterFeeds
<1>6. QED
  BY <1>2, <1>3, <1>4, <1>5 DEF ShieldInv

LEMMA StartCleanupKeeps == ShieldInv /\ StartCleanup => ShieldInv'
<1> SUFFICES ASSUME ShieldInv, StartCleanup PROVE ShieldInv'
  OBVIOUS
<1>1. /\ UNCHANGED <<features, stage, suspended, served, stopping, queued, handling,
                     accepting, joined, emitted, owed, timedOut>>
      /\ suspended /\ scheduled /\ ~scheduled'
      /\ running' = running \cup {"cleanup"}
  BY DEF StartCleanup, life, busState, ShieldInv, ShieldTypeOK
<1>2. ShieldTypeOK'
  <2>1. scheduled' = FALSE
    BY DEF StartCleanup
  <2>2. "cleanup" \in BackgroundTasks
    BY DEF BackgroundTasks
  <2>3. QED
    BY <1>1, <2>1, <2>2 DEF ShieldInv, ShieldTypeOK
<1>3. LoopInv'
  BY <1>1 DEF ShieldInv, LoopInv
<1>4. HealthInv' /\ BusInv' /\ OwedInv'
  BY <1>1 DEF ShieldInv, HealthInv, BusInv, OwedInv, Enabled
<1>5. RestInv'
  BY <1>1 DEF ShieldInv, RestInv, Enabled
<1>6. QED
  BY <1>2, <1>3, <1>4, <1>5 DEF ShieldInv

\* The steps that change only the queue and its counters.
LEMMA QueueStepKeeps == ShieldInv /\ (Emits \/ Consume \/ Dispatched) => ShieldInv'
<1> SUFFICES ASSUME ShieldInv, Emits \/ Consume \/ Dispatched PROVE ShieldInv'
  OBVIOUS
<1> USE LifecycleAssumption
<1>1. UNCHANGED <<features, stage, suspended, served, running, stopping, scheduled,
                  accepting, timedOut>>
  BY DEF Emits, Consume, Dispatched, life, tasks
<1>2. ShieldTypeOK'
  <2>1. CASE Emits
    BY <1>1, <2>1 DEF Emits, ShieldInv, ShieldTypeOK
  <2>2. CASE Consume
    BY <1>1, <2>2 DEF Consume, ShieldInv, ShieldTypeOK
  <2>3. CASE Dispatched
    <3>1. handling' \in BOOLEAN /\ joined' \in BOOLEAN
      BY <2>3 DEF Dispatched, ShieldInv, ShieldTypeOK
    <3>2. owed' \in 0..(QueueSize + 1) /\ UNCHANGED <<queued, emitted>>
      BY <2>3 DEF Dispatched, ShieldInv, ShieldTypeOK
    <3>3. QED
      BY <1>1, <3>1, <3>2 DEF ShieldInv, ShieldTypeOK
  <2>4. QED
    BY <2>1, <2>2, <2>3
<1>3. LoopInv' /\ HealthInv' /\ RestInv'
  BY <1>1 DEF ShieldInv, LoopInv, HealthInv, RestInv, Enabled
<1>4. BusInv'
  <2>1. ~Enabled("webhooks") => queued' = 0 /\ ~handling'
    BY DEF ShieldInv, BusInv, Emits, Consume, Dispatched
  <2>2. QED
    BY <1>1, <2>1 DEF ShieldInv, BusInv, Enabled
<1>5. OwedInv'
  <2>1. CASE Emits
    BY <1>1, <2>1 DEF Emits, ShieldInv, ShieldTypeOK, OwedInv
  <2>2. CASE Consume
    BY <1>1, <2>2 DEF Consume, ShieldInv, ShieldTypeOK, OwedInv
  <2>3. CASE Dispatched
    BY <1>1, <2>3 DEF Dispatched, ShieldInv, ShieldTypeOK, OwedInv
  <2>4. QED
    BY <2>1, <2>2, <2>3
<1>6. QED
  BY <1>2, <1>3, <1>4, <1>5 DEF ShieldInv

LEMMA ConsumerReturnsKeeps == ShieldInv /\ ConsumerReturns => ShieldInv'
<1> SUFFICES ASSUME ShieldInv, ConsumerReturns PROVE ShieldInv'
  OBVIOUS
<1>1. /\ UNCHANGED <<features, stage, suspended, served, stopping, scheduled, queued,
                     handling, accepting, joined, emitted, owed, timedOut>>
      /\ "bus" \in running \ stopping /\ ~accepting
      /\ running' = running \ {"bus"}
  BY DEF ConsumerReturns, life, busState
<1>2. ShieldTypeOK'
  BY <1>1 DEF ShieldInv, ShieldTypeOK
<1>3. LoopInv' /\ HealthInv' /\ OwedInv' /\ RestInv'
  BY <1>1 DEF ShieldInv, LoopInv, HealthInv, OwedInv, RestInv, Enabled
<1>4. BusInv'
  BY <1>1 DEF ShieldInv, BusInv, Enabled
<1>5. QED
  BY <1>2, <1>3, <1>4 DEF ShieldInv

LEMMA CancelledKeeps ==
  ASSUME ShieldInv, NEW t \in BackgroundTasks, Cancelled(t)
  PROVE  ShieldInv'
<1>1. /\ UNCHANGED <<features, stage, suspended, served, scheduled, queued, accepting,
                     joined, emitted, owed, timedOut>>
      /\ t \in stopping
      /\ running' = running \ {t} /\ stopping' = stopping \ {t}
      /\ handling' = (handling /\ t # "bus")
  BY DEF Cancelled, life
<1>2. ShieldTypeOK'
  BY <1>1 DEF ShieldInv, ShieldTypeOK
<1>3. LoopInv' /\ RestInv'
  BY <1>1 DEF ShieldInv, LoopInv, RestInv, Enabled
<1>4. HealthInv'
  BY <1>1 DEF ShieldInv, HealthInv, Enabled, AfterPools, AfterBus, AfterSessions,
    AfterDlq, AfterFeeds
<1>5. BusInv'
  BY <1>1 DEF ShieldInv, BusInv, Enabled, AfterBus, AfterSessions, AfterDlq, AfterFeeds
<1>6. OwedInv'
  <2>1. stage = "join" => t # "bus"
    BY <1>1 DEF ShieldInv, BusInv, AfterBus, AfterSessions, AfterDlq, AfterFeeds
  <2>2. QED
    BY <1>1, <2>1 DEF ShieldInv, ShieldTypeOK, OwedInv
<1>7. QED
  BY <1>2, <1>3, <1>4, <1>5, <1>6 DEF ShieldInv

-----------------------------------------------------------------------------
(* shutdown(): the stage moves on. *)

\* What the steps of shutdown() but those of the bus have in common.
LEMMA StagePasses ==
  ASSUME ShieldInv, stage' \in Stages, suspended' \in BOOLEAN,
         UNCHANGED <<features, served, running, scheduled, busState>>,
         NEW t \in BackgroundTasks,
         stopping' \in {stopping, stopping \cup ({t} \intersect running)}
  PROVE  ShieldTypeOK'
BY DEF ShieldInv, ShieldTypeOK, busState

LEMMA ShutdownBegins == ShieldInv /\ (Shutdown \/ StopRotation) => ShieldInv'
<1> SUFFICES ASSUME ShieldInv, Shutdown \/ StopRotation PROVE ShieldInv'
  OBVIOUS
<1>1. /\ UNCHANGED <<features, served, running, scheduled, busState>>
      /\ \/ stage = "up" /\ stage' = "rotation" /\ ~(suspended /\ scheduled)
         \/ stage = "rotation" /\ stage' = "pools"
      /\ suspended' = FALSE
      /\ stopping' \in {stopping, stopping \cup ({"rotation"} \intersect running)}
  BY DEF Shutdown, StopRotation, Proceeds, Cancels, tasks
<1>2. ShieldTypeOK'
  BY <1>1, StagePasses DEF Stages, BackgroundTasks
<1>3. LoopInv'
  BY <1>1 DEF ShieldInv, LoopInv, Stopping, AfterPools, AfterBus, AfterSessions,
    AfterDlq, AfterFeeds
<1>4. HealthInv'
  BY <1>1 DEF ShieldInv, HealthInv, Enabled, AfterPools, AfterBus, AfterSessions,
    AfterDlq, AfterFeeds
<1>5. BusInv'
  BY <1>1 DEF ShieldInv, BusInv, busState, Enabled, AfterBus, AfterSessions, AfterDlq,
    AfterFeeds
<1>6. OwedInv' /\ RestInv'
  BY <1>1 DEF OwedInv, RestInv, AfterBus, AfterSessions, AfterDlq, AfterFeeds
<1>7. QED
  BY <1>2, <1>3, <1>4, <1>5, <1>6 DEF ShieldInv

\* A service other than the bus is stopped and, if it runs, waited for: its
\* task has ended when shutdown() goes on.
LEMMA ServiceStops ==
  ASSUME ShieldInv,
         NEW t \in BackgroundTasks, NEW at, NEW pending \in Stages, NEW next \in Stages,
         StopTask(at, t, pending, next) \/ Awaited(pending, t, next)
  PROVE  /\ UNCHANGED <<features, served, running, scheduled, busState>>
         /\ ShieldTypeOK'
         /\ \/ stage = at /\ stage' = pending /\ t \in running
            \/ stage = at /\ stage' = next /\ t \notin running
            \/ stage = pending /\ stage' = next /\ t \notin running /\ ~scheduled
         /\ suspended' \in BOOLEAN
         /\ stopping' \in {stopping, stopping \cup ({t} \intersect running)}
<1>1. /\ UNCHANGED <<features, served, running, scheduled, busState>>
      /\ \/ stage = at /\ stage' = pending /\ t \in running
         \/ stage = at /\ stage' = next /\ t \notin running
         \/ stage = pending /\ stage' = next /\ t \notin running /\ ~scheduled
      /\ suspended' \in BOOLEAN
      /\ stopping' \in {stopping, stopping \cup ({t} \intersect running)}
  BY DEF StopTask, Awaited, Proceeds, Suspends, Cancels, tasks
<1>2. ShieldTypeOK'
  BY <1>1, StagePasses
<1>3. QED
  BY <1>1, <1>2

LEMMA HealthStops ==
  ASSUME ShieldInv,
         \/ StopTask("pools", "health", "closing", "bus")
         \/ Awaited("closing", "health", "bus")
  PROVE  ShieldInv'
<1>1. /\ UNCHANGED <<features, served, running, scheduled, busState>>
      /\ ShieldTypeOK'
      /\ \/ stage = "pools" /\ stage' = "closing" /\ "health" \in running
         \/ stage = "pools" /\ stage' = "bus" /\ "health" \notin running
         \/ stage = "closing" /\ stage' = "bus" /\ "health" \notin running /\ ~scheduled
      /\ stopping' \in {stopping, stopping \cup ({"health"} \intersect running)}
  <2>1. "health" \in BackgroundTasks /\ "closing" \in Stages /\ "bus" \in Stages
    BY DEF BackgroundTasks, Stages
  <2>2. QED
    BY <2>1, ServiceStops
<1>2. LoopInv'
  BY <1>1 DEF ShieldInv, LoopInv, Stopping, AfterPools, AfterBus, AfterSessions,
    AfterDlq, AfterFeeds
<1>3. HealthInv'
  BY <1>1 DEF ShieldInv, HealthInv, Enabled, AfterPools, AfterBus, AfterSessions,
    AfterDlq, AfterFeeds
<1>4. BusInv'
  BY <1>1 DEF ShieldInv, BusInv, busState, Enabled, AfterBus, AfterSessions, AfterDlq,
    AfterFeeds
<1>5. OwedInv' /\ RestInv'
  BY <1>1 DEF OwedInv, RestInv, AfterBus, AfterSessions, AfterDlq, AfterFeeds
<1>6. QED
  BY <1>1, <1>2, <1>3, <1>4, <1>5 DEF ShieldInv

\* The three services after the bus; what is true of an ended bus stays true.
LEMMA LaterServiceStops ==
  ASSUME ShieldInv,
         \/ StopTask("sessions", "cleanup", "cleanup", "dlq")
         \/ Awaited("cleanup", "cleanup", "dlq")
         \/ StopTask("dlq", "dlq", "polling", "feeds")
         \/ Awaited("polling", "dlq", "feeds")
         \/ StopTask("feeds", "feeds", "fetching", "down")
         \/ Awaited("fetching", "feeds", "down")
  PROVE  ShieldInv'
<1> DEFINE Passes(at, t, pending, next) ==
        \/ stage = at /\ stage' = pending /\ t \in running
        \/ stage = at /\ stage' = next /\ t \notin running
        \/ stage = pending /\ stage' = next /\ t \notin running /\ ~scheduled
<1>1. /\ UNCHANGED <<features, served, running, scheduled, busState>>
      /\ ShieldTypeOK'
      /\ \/ Passes("sessions", "cleanup", "cleanup", "dlq")
         \/ Passes("dlq", "dlq", "polling", "feeds")
         \/ Passes("feeds", "feeds", "fetching", "down")
      /\ \E t \in {"cleanup", "dlq", "feeds"} :
             stopping' \in {stopping, stopping \cup ({t} \intersect running)}
  <2>1. CASE \/ StopTask("sessions", "cleanup", "cleanup", "dlq")
             \/ Awaited("cleanup", "cleanup", "dlq")
    <3>1. "cleanup" \in BackgroundTasks /\ "cleanup" \in Stages /\ "dlq" \in Stages
      BY DEF BackgroundTasks, Stages
    <3>2. QED
      BY <2>1, <3>1, ServiceStops
  <2>2. CASE \/ StopTask("dlq", "dlq", "polling", "feeds")
             \/ Awaited("polling", "dlq", "feeds")
    <3>1. "dlq" \in BackgroundTasks /\ "polling" \in Stages /\ "feeds" \in Stages
      BY DEF BackgroundTasks, Stages
    <3>2. QED
      BY <2>2, <3>1, ServiceStops
  <2>3. CASE \/ StopTask("feeds", "feeds", "fetching", "down")
             \/ Awaited("fetching", "feeds", "down")
    <3>1. "feeds" \in BackgroundTasks /\ "fetching" \in Stages /\ "down" \in Stages
      BY DEF BackgroundTasks, Stages
    <3>2. QED
      BY <2>3, <3>1, ServiceStops
  <2>4. QED
    BY <2>1, <2>2, <2>3
<1>2. stage \in AfterBus /\ stage' \in AfterBus
  BY <1>1 DEF AfterBus, AfterSessions, AfterDlq, AfterFeeds
<1>3. LoopInv'
  BY <1>1, <1>2 DEF ShieldInv, LoopInv, Stopping, AfterPools, AfterBus, AfterSessions,
    AfterDlq, AfterFeeds
<1>4. HealthInv'
  BY <1>1, <1>2 DEF ShieldInv, HealthInv, Enabled, AfterPools, AfterBus, AfterSessions,
    AfterDlq, AfterFeeds
<1>5. BusInv'
  BY <1>1, <1>2 DEF ShieldInv, BusInv, busState, Enabled, AfterBus, AfterSessions,
    AfterDlq, AfterFeeds
<1>6. OwedInv'
  BY <1>1, <1>2 DEF ShieldInv, OwedInv, busState, AfterBus, AfterSessions, AfterDlq,
    AfterFeeds
<1>7. RestInv'
  BY <1>1, <1>2 DEF ShieldInv, RestInv, HealthInv, BusInv, LoopInv, Enabled, Stopping,
    AfterPools, AfterBus, AfterSessions, AfterDlq, AfterFeeds
<1>8. QED
  BY <1>1, <1>3, <1>4, <1>5, <1>6, <1>7 DEF ShieldInv

\* The bus: waiting for the queue, and then for the consumer.
LEMMA StopBusKeeps == ShieldInv /\ StopBus => ShieldInv'
<1> SUFFICES ASSUME ShieldInv, StopBus PROVE ShieldInv'
  OBVIOUS
<1>1. /\ UNCHANGED <<features, served, running, scheduled, queued, handling, emitted,
                     timedOut>>
      /\ stage = "bus" /\ suspended' \in BOOLEAN
      /\ accepting' = FALSE
      /\ owed' = queued + (IF handling THEN 1 ELSE 0)
      /\ joined' = (owed' = 0)
      /\ \/ stage' = "sessions" /\ "bus" \notin running /\ stopping' = stopping
         \/ stage' = "draining" /\ joined'
                /\ stopping' = stopping \cup ({"bus"} \intersect running)
         \/ stage' = "join" /\ ~joined' /\ stopping' = stopping
  BY DEF StopBus, Proceeds, Suspends, Cancels
<1>2. /\ joined' \in BOOLEAN /\ (joined' <=> owed' = 0)
      /\ "bus" \notin running => owed' = 0 /\ ~Enabled("webhooks")
  <2>1. joined' \in BOOLEAN /\ (joined' <=> owed' = 0)
    BY <1>1
  <2>2. "bus" \notin running => ~Enabled("webhooks") /\ queued = 0 /\ ~handling
    BY <1>1 DEF ShieldInv, BusInv
  <2>3. QED
    BY <1>1, <2>1, <2>2
<1>3. ShieldTypeOK'
  <2>1. owed' \in 0..(QueueSize + 1)
    BY <1>1, LifecycleAssumption DEF ShieldInv, ShieldTypeOK
  <2>2. stage' \in Stages /\ stopping' \subseteq running
    BY <1>1 DEF Stages, ShieldInv, ShieldTypeOK
  <2>3. QED
    BY <1>1, <1>2, <2>1, <2>2 DEF ShieldInv, ShieldTypeOK
<1>4. LoopInv'
  BY <1>1 DEF ShieldInv, LoopInv, Stopping, AfterPools, AfterBus, AfterSessions,
    AfterDlq, AfterFeeds
<1>5. HealthInv'
  BY <1>1 DEF ShieldInv, HealthInv, Enabled, AfterPools, AfterBus, AfterSessions,
    AfterDlq, AfterFeeds
<1>6. BusInv'
  BY <1>1, <1>2 DEF ShieldInv, BusInv, Enabled, AfterBus, AfterSessions, AfterDlq,
    AfterFeeds
<1>7. OwedInv'
  BY <1>1, <1>2 DEF ShieldInv, ShieldTypeOK, OwedInv, AfterBus, AfterSessions, AfterDlq,
    AfterFeeds
<1>8. RestInv'
  BY <1>1 DEF RestInv, AfterSessions, AfterDlq, AfterFeeds
<1>9. QED
  BY <1>3, <1>4, <1>5, <1>6, <1>7, <1>8 DEF ShieldInv

LEMMA BusEnds ==
  ShieldInv /\ (JoinEnds \/ Awaited("draining", "bus", "sessions")) => ShieldInv'
<1> SUFFICES ASSUME ShieldInv, JoinEnds \/ Awaited("draining", "bus", "sessions")
             PROVE  ShieldInv'
  OBVIOUS
<1>1. /\ UNCHANGED <<features, served, running, scheduled, queued, handling, accepting,
                     joined, emitted, owed>>
      /\ suspended' \in BOOLEAN /\ ~scheduled
      /\ \/ /\ stage = "join" /\ timedOut' = ~joined
            /\ \/ stage' = "draining" /\ "bus" \in running
               \/ stage' = "sessions" /\ "bus" \notin running
            /\ stopping' = stopping \cup ({"bus"} \intersect running)
         \/ /\ stage = "draining" /\ stage' = "sessions" /\ "bus" \notin running
            /\ UNCHANGED <<stopping, timedOut>>
  BY DEF JoinEnds, Awaited, Proceeds, Suspends, Cancels, tasks, busState
<1>2. ShieldTypeOK'
  <2>1. stage' \in Stages /\ stopping' \subseteq running
    BY <1>1 DEF Stages, ShieldInv, ShieldTypeOK
  <2>2. timedOut' \in BOOLEAN
    BY <1>1 DEF ShieldInv, ShieldTypeOK
  <2>3. QED
    BY <1>1, <2>1, <2>2 DEF ShieldInv, ShieldTypeOK
<1>3. LoopInv'
  BY <1>1 DEF ShieldInv, LoopInv, Stopping, AfterPools, AfterBus, AfterSessions,
    AfterDlq, AfterFeeds
<1>4. HealthInv'
  BY <1>1 DEF ShieldInv, HealthInv, Enabled, AfterPools, AfterBus, AfterSessions,
    AfterDlq, AfterFeeds
<1>5. BusInv'
  BY <1>1 DEF ShieldInv, BusInv, Enabled, AfterBus, AfterSessions, AfterDlq, AfterFeeds
<1>6. OwedInv'
  <2>1. timedOut' \/ owed' = 0
    <3>1. CASE stage = "join"
      BY <1>1, <3>1 DEF ShieldInv, OwedInv
    <3>2. CASE stage = "draining"
      BY <1>1, <3>2 DEF ShieldInv, OwedInv
    <3>3. QED
      BY <1>1, <3>1, <3>2
  <2>2. QED
    BY <1>1, <2>1 DEF OwedInv
<1>7. RestInv'
  BY <1>1 DEF RestInv, AfterSessions, AfterDlq, AfterFeeds
<1>8. QED
  BY <1>2, <1>3, <1>4, <1>5, <1>6, <1>7 DEF ShieldInv

LEMMA ShieldInvStep == ShieldInv /\ [ShieldNext]_shieldVars => ShieldInv'
<1> SUFFICES ASSUME ShieldInv, [ShieldNext]_shieldVars PROVE ShieldInv'
  OBVIOUS
<1>1. CASE ShieldNext
  BY <1>1, ConstructKeeps, ServeKeeps, StartCleanupKeeps, QueueStepKeeps,
    ConsumerReturnsKeeps, CancelledKeeps, ShutdownBegins, HealthStops, StopBusKeeps,
    BusEnds, LaterServiceStops DEF ShieldNext
<1>2. CASE UNCHANGED shieldVars
  BY <1>2 DEF shieldVars, life, tasks, busState, ShieldInv, ShieldTypeOK, LoopInv,
    HealthInv, BusInv, OwedInv, RestInv, Enabled
<1>3. QED
  BY <1>1, <1>2

-----------------------------------------------------------------------------

\* The variables of the shield's life keep their types; only a task that runs has its
\* cancellation requested.
THEOREM ShieldTyped == ShieldSpec => []ShieldTypeOK
<1>1. ShieldInv => ShieldTypeOK
  BY DEF ShieldInv
<1>2. QED
  BY <1>1, ShieldInvInit, ShieldInvStep, PTL DEF ShieldSpec

\* After shutdown() no background task is left, but the cleanup of sessions in the
\* one case that is named, and nothing accepted is undelivered unless the five
\* seconds were over -- for every choice of features.
THEOREM ShutdownAlwaysComplete == ShieldSpec => []ShutdownComplete
<1>1. ShieldInv => NothingLeft
  BY DEF ShieldInv, HealthInv, BusInv, RestInv, NothingLeft, Enabled, AfterPools,
    AfterBus, AfterSessions, AfterDlq, AfterFeeds
<1>2. ShieldInv => EventsAccounted
  BY DEF ShieldInv, OwedInv, EventsAccounted, AfterBus, AfterSessions, AfterDlq,
    AfterFeeds
<1>3. ShieldInv => ShutdownComplete
  BY <1>1, <1>2 DEF ShutdownComplete
<1>4. QED
  BY <1>3, ShieldInvInit, ShieldInvStep, PTL DEF ShieldSpec

-----------------------------------------------------------------------------
(* Rotation of credentials *)

RotationSteps ==
    {"idle", "resolve", "hand over", "reload", "try", "create", "close", "ended"}

\* A worker installs only a credential that was found.
ValuesFound ==
    \A w \in Rotators :
        rotationStep[w] \in {"reload", "try", "create"} => newValue[w] \in Secrets

\* shutdown() begins when nobody rotates any more.
NobodyRotates ==
    lifecycle # "up" => rotationStep["loop"] = "ended"
    /\ rotationStep["operator"] = "idle"

\* What a worker closes is never the pool in use.
ClosesAnother == \A w \in Rotators : rotationStep[w] = "close" => oldPool[w] # pgPool

ShutPoolClosed == lifecycle = "closing" => pgPool \notin openPools

\* A worker that has recorded a DSN and has yet to create its pool either still
\* holds the DSN on record, or will not find the pool it means to replace.
RecordedByLast ==
    \A w \in Rotators : rotationStep[w] = "create" =>
        \/ halfSwapped \/ orphaned # {}
        \/ \E v \in Rotators : v # w /\ rotationStep[v] = "create"
        \/ oldPool[w] # pgPool
        \/ newValue[w] = dsn

\* The type invariant, by what the steps of a worker, of a request and of the
\* program change.
WorkTyped ==
    /\ todo \in [Rotators -> Seq(Targets)]
    /\ rotationStep \in [Rotators -> RotationSteps]
    /\ newValue \in [Rotators -> Secrets \cup {None}]
    /\ \A w \in Rotators : todo[w] = <<>> <=> rotationStep[w] \in {"idle", "ended"}

PoolsTyped ==
    /\ dsn \in Secrets
    /\ pools \in Seq(Secrets)
    /\ pgPool \in 0..Len(pools)
    /\ openPools \subseteq 1..Len(pools)
    /\ oldPool \in [Rotators -> 0..Len(pools)]
    /\ orphaned \subseteq 1..Len(pools)
    /\ halfSwapped \in BOOLEAN

CallsTyped ==
    /\ borrowed \in [DbCalls -> 0..Len(pools)]
    /\ byHand \subseteq DbCalls
    /\ stranded \subseteq 1..Len(pools)

RestTyped ==
    /\ secret \in [Targets -> Secrets \cup {None}]
    /\ redisUrl \in Secrets
    /\ cancelled \in {"no", "pending", "thrown"}
    /\ lifecycle \in {"up", "stopped", "closing", "down"}

\* There is a pool until shutdown() ends.
PoolKept == lifecycle # "down" => pgPool # 0

\* The inductive invariant.
RotationTyped ==
    /\ WorkTyped /\ PoolsTyped /\ CallsTyped /\ RestTyped
    /\ ValuesFound /\ NobodyRotates /\ PoolKept
RotationInv ==
    RotationTyped /\ ClosesAnother /\ ShutPoolClosed /\ RecordedByLast
    /\ RotationConsistent

LEMMA TypedParts ==
    RotationTypeOK <=> WorkTyped /\ PoolsTyped /\ CallsTyped /\ RestTyped
BY DEF RotationTypeOK, WorkTyped, PoolsTyped, CallsTyped, RestTyped, RotationSteps

LEMMA TailTyped ==
    ASSUME NEW T, NEW s \in Seq(T), s # <<>>
    PROVE  /\ Tail(s) \in Seq(T) /\ Head(s) \in T /\ Len(s) \in Nat \ {0}
           /\ Tail(s) = <<>> <=> ~(Len(s) > 1)
OBVIOUS

LEMMA RotationInit0 == RotationInit => RotationInv
<1> SUFFICES ASSUME RotationInit PROVE RotationInv
  OBVIOUS
<1> USE DEF RotationInit
<1>1. pools \in Seq(Secrets) /\ Len(pools) = 1 /\ pools[1] = dsn
  OBVIOUS
<1>2. <<Redis, Postgres>> \in Seq(Targets) /\ <<>> \in Seq(Targets)
      /\ <<Redis, Postgres>> # <<>>
  BY DEF Targets
<1>3. RotationTypeOK
  <2>1. /\ todo \in [Rotators -> Seq(Targets)]
        /\ \A w \in Rotators : todo[w] = <<>> <=> rotationStep[w] \in {"idle", "ended"}
    BY <1>2 DEF Rotators
  <2>2. rotationStep \in [Rotators -> {"idle", "resolve", "hand over", "reload", "try",
                                     "create", "close", "ended"}]
    BY DEF Rotators
  <2>3. /\ pgPool \in 0..Len(pools) /\ openPools \subseteq 1..Len(pools)
        /\ oldPool \in [Rotators -> 0..Len(pools)]
        /\ borrowed \in [DbCalls -> 0..Len(pools)]
    BY <1>1
  <2>4. /\ secret \in [Targets -> Secrets \cup {None}]
        /\ newValue \in [Rotators -> Secrets \cup {None}]
    OBVIOUS
  <2>5. QED
    BY <1>1, <2>1, <2>2, <2>3, <2>4 DEF RotationTypeOK
<1>4. ValuesFound /\ NobodyRotates /\ PoolKept /\ ClosesAnother /\ ShutPoolClosed
      /\ RecordedByLast
  BY DEF ValuesFound, NobodyRotates, PoolKept, ClosesAnother, ShutPoolClosed,
         RecordedByLast, Rotators
<1>5. RotationConsistent
  BY <1>1 DEF RotationConsistent, PoolsAccounted, DsnIsLive
<1>6. QED
  BY <1>3, <1>4, <1>5, TypedParts DEF RotationInv, RotationTyped

LEMMA NextTargetTyped ==
    ASSUME RotationTyped, NEW w \in Rotators, NextTarget(w),
           rotationStep[w] \notin {"idle", "ended"}
    PROVE  /\ todo' \in [Rotators -> Seq(Targets)]
           /\ rotationStep' \in [Rotators -> RotationSteps]
           /\ newValue' \in [Rotators -> Secrets \cup {None}]
           /\ \A v \in Rotators : todo'[v] = <<>>
              <=> rotationStep'[v] \in {"idle", "ended"}
           /\ rotationStep'[w] \in {"resolve", "idle"}
           /\ \A v \in Rotators \ {w} :
                  rotationStep'[v] = rotationStep[v] /\ newValue'[v] = newValue[v]
<1>1. todo[w] \in Seq(Targets) /\ todo[w] # <<>>
  BY DEF RotationTyped, WorkTyped
<1>2. /\ Tail(todo[w]) \in Seq(Targets) /\ Tail(todo[w]) = <<>> <=> ~(Len(todo[w]) > 1)
  BY <1>1, TailTyped
<1> DEFINE next == IF Len(todo[w]) > 1 THEN "resolve" ELSE "idle"
<1>3. /\ todo' = [todo EXCEPT ![w] = Tail(todo[w])]
      /\ rotationStep' = [rotationStep EXCEPT ![w] = next]
      /\ newValue' = [newValue EXCEPT ![w] = None]
  BY DEF NextTarget, RotatesTo
<1>4. next \in {"resolve", "idle"} /\ (Tail(todo[w]) = <<>> <=> next = "idle")
  BY <1>2
<1> HIDE DEF next
<1>5. /\ todo \in [Rotators -> Seq(Targets)]
         /\ rotationStep \in [Rotators -> RotationSteps]
      /\ newValue \in [Rotators -> Secrets \cup {None}]
      /\ \A v \in Rotators : todo[v] = <<>> <=> rotationStep[v] \in {"idle", "ended"}
  BY DEF RotationTyped, WorkTyped
<1>6. todo' \in [Rotators -> Seq(Targets)]
      /\ newValue' \in [Rotators -> Secrets \cup {None}]
  BY <1>2, <1>3, <1>5
<1>7. rotationStep' \in [Rotators -> RotationSteps]
  BY <1>3, <1>4, <1>5 DEF RotationSteps
<1>8. rotationStep'[w] = next /\ todo'[w] = Tail(todo[w])
  BY <1>3, <1>5
<1>9. \A v \in Rotators \ {w} : /\ rotationStep'[v] = rotationStep[v]
                               /\ newValue'[v] = newValue[v] /\ todo'[v] = todo[v]
  BY <1>3, <1>5
<1>10. ASSUME NEW v \in Rotators
       PROVE  todo'[v] = <<>> <=> rotationStep'[v] \in {"idle", "ended"}
  <2>1. CASE v = w
    BY <1>2, <1>4, <1>8, <2>1
  <2>2. CASE v # w
    BY <1>5, <1>9, <2>2
  <2>3. QED
    BY <2>1, <2>2
<1>11. QED
  BY <1>4, <1>6, <1>7, <1>8, <1>9, <1>10

\* A worker that is not done is one of a program that is up.
LEMMA ActiveUp ==
    ASSUME RotationTyped, NEW w \in Rotators, rotationStep[w] \notin {"idle", "ended"}
    PROVE  lifecycle = "up"
BY DEF RotationTyped, NobodyRotates, Rotators

LEMMA WorkerTyped ==
    ASSUME RotationTyped, NEW w \in Rotators, WorkerStep(w)
    PROVE  RotationTyped'
<1> USE DEF RotationTyped, Resumes, Runs
<1>1. WorkTyped /\ PoolsTyped /\ CallsTyped /\ RestTyped /\ ValuesFound
  OBVIOUS
<1>2. rotationStep[w] \notin {"idle", "ended"} /\ lifecycle = "up" /\ lifecycle' = "up"
  <2>1. rotationStep[w] \notin {"idle", "ended"} /\ UNCHANGED lifecycle
    BY DEF WorkerStep, Resolve, HandOver, ReloadRedis, TryDsn, CreatePool, ClosePool
  <2>2. QED
    BY <2>1, ActiveUp
<1>3. NobodyRotates'
  BY <1>2 DEF NobodyRotates
<1>4. PoolKept' /\ pgPool \in 1..Len(pools)
  <2>1. pgPool \in 1..Len(pools) /\ Len(pools) \in Nat
    BY <1>1, <1>2 DEF PoolKept, PoolsTyped
  <2>2. pgPool' = pgPool \/ pgPool' = Len(pools) + 1
    BY DEF WorkerStep, Resolve, HandOver, ReloadRedis, TryDsn, CreatePool, ClosePool,
           pgVars
  <2>3. QED
    BY <2>1, <2>2 DEF PoolKept
<1>5. ASSUME NextTarget(w)
      PROVE  WorkTyped' /\ ValuesFound'
  <2>1. WorkTyped'
    BY <1>2, <1>5, NextTargetTyped DEF WorkTyped
  <2>2. ValuesFound'
    BY <1>1, <1>2, <1>5, NextTargetTyped DEF ValuesFound
  <2>3. QED
    BY <2>1, <2>2
<1>6. ASSUME NEW next \in {"hand over", "try", "reload", "create", "close"},
             RotatesTo(w, next), UNCHANGED todo,
             newValue' \in [Rotators -> Secrets \cup {None}],
             \A v \in Rotators \ {w} : newValue'[v] = newValue[v],
             next \in {"try", "reload", "create"} => newValue'[w] \in Secrets
      PROVE  WorkTyped' /\ ValuesFound'
  <2>1. rotationStep' = [rotationStep EXCEPT ![w] = next]
    BY <1>6 DEF RotatesTo
  <2>2. WorkTyped'
    BY <1>1, <1>2, <1>6, <2>1 DEF WorkTyped, RotationSteps
  <2>3. ValuesFound'
    BY <1>1, <1>2, <1>6, <2>1 DEF ValuesFound, WorkTyped
  <2>4. QED
    BY <2>2, <2>3
<1>7. CASE Resolve(w)
  <2>1. WorkTyped' /\ ValuesFound'
    BY <1>1, <1>5, <1>6, <1>7 DEF Resolve, WorkTyped
  <2>2. PoolsTyped' /\ CallsTyped' /\ RestTyped'
    BY <1>1, <1>7 DEF Resolve, PoolsTyped, CallsTyped, RestTyped, pgVars, callVars
  <2>3. QED
    BY <1>3, <1>4, <2>1, <2>2
<1>8. CASE HandOver(w)
  <2>1. WorkTyped' /\ ValuesFound'
    <3>1. CASE NextTarget(w)
      BY <1>5, <3>1
    <3>2. CASE ~NextTarget(w)
      <4> DEFINE value == secret[Target(w)]
                 next == IF Target(w) = Postgres THEN "try" ELSE "reload"
      <4>1. /\ newValue' = [newValue EXCEPT ![w] = value] /\ RotatesTo(w, next)
            /\ UNCHANGED todo /\ value # None
        BY <1>8, <3>2 DEF HandOver, Rotated
      <4>2. value \in Secrets
        <5>1. Target(w) \in Targets
          BY <1>1, <1>2, TailTyped DEF WorkTyped, Target
        <5>2. QED
          BY <1>1, <4>1, <5>1 DEF RestTyped
      <4>3. next \in {"try", "reload"}
        OBVIOUS
      <4> HIDE DEF value, next
      <4>4. newValue' \in [Rotators -> Secrets \cup {None}] /\ newValue'[w] \in Secrets
            /\ \A v \in Rotators \ {w} : newValue'[v] = newValue[v]
        BY <1>1, <4>1, <4>2 DEF WorkTyped
      <4>5. WorkTyped' /\ ValuesFound'
        BY <1>6, <4>1, <4>3, <4>4
      <4>6. QED
        BY <4>5
    <3>3. QED
      BY <3>1, <3>2
  <2>2. PoolsTyped' /\ CallsTyped' /\ RestTyped'
    BY <1>1, <1>2, <1>8
       DEF HandOver, Rotated, PoolsTyped, CallsTyped, RestTyped, pgVars, callVars
  <2>3. QED
    BY <1>3, <1>4, <2>1, <2>2
<1>9. CASE ReloadRedis(w)
  <2>1. NextTarget(w)
    BY <1>9 DEF ReloadRedis, Rotated, Failed
  <2>2. WorkTyped' /\ ValuesFound'
    BY <1>5, <2>1
  <2>3. redisUrl' \in Secrets /\ cancelled' \in {"no", "pending", "thrown"}
    <3>1. newValue[w] \in Secrets
      BY <1>1, <1>9 DEF ReloadRedis, ValuesFound
    <3>2. QED
      BY <1>1, <1>9, <3>1 DEF ReloadRedis, Rotated, Failed, RestTyped
  <2>4. PoolsTyped' /\ CallsTyped' /\ RestTyped'
    BY <1>1, <1>2, <1>9, <2>3
       DEF ReloadRedis, PoolsTyped, CallsTyped, RestTyped, pgVars, callVars
  <2>5. QED
    BY <1>3, <1>4, <2>2, <2>4
<1>10. CASE TryDsn(w)
  <2>1. newValue[w] \in Secrets
    BY <1>1, <1>10 DEF TryDsn, ValuesFound
  <2>2. WorkTyped' /\ ValuesFound'
    <3>1. CASE NextTarget(w)
      BY <1>5, <3>1
    <3>2. CASE RotatesTo(w, "create") /\ UNCHANGED <<todo, newValue>>
      BY <1>1, <1>6, <2>1, <3>2 DEF WorkTyped
    <3>3. QED
      BY <1>10, <3>1, <3>2 DEF TryDsn, Failed
  <2>3. dsn' \in Secrets /\ oldPool' \in [Rotators -> 0..Len(pools)]
    BY <1>1, <1>10, <2>1 DEF TryDsn, PoolsTyped
  <2>4. cancelled' \in {"no", "pending", "thrown"}
    BY <1>1, <1>10 DEF TryDsn, Failed, RestTyped
  <2>5. PoolsTyped' /\ CallsTyped' /\ RestTyped'
    BY <1>1, <1>2, <1>10, <2>3, <2>4
       DEF TryDsn, PoolsTyped, CallsTyped, RestTyped, callVars
  <2>6. QED
    BY <1>3, <1>4, <2>2, <2>5
<1>11. CASE CreatePool(w)
  <2>1. newValue[w] \in Secrets
    BY <1>1, <1>11 DEF CreatePool, ValuesFound
  <2>2. WorkTyped' /\ ValuesFound'
    <3>1. CASE NextTarget(w)
      BY <1>5, <3>1
    <3>2. CASE RotatesTo(w, "close") /\ UNCHANGED <<todo, newValue>>
      BY <1>1, <1>6, <3>2 DEF WorkTyped
    <3>3. QED
      BY <1>11, <3>1, <3>2 DEF CreatePool, Failed
  <2>3. cancelled' \in {"no", "pending", "thrown"}
    BY <1>1, <1>11 DEF CreatePool, Failed, RestTyped
  <2>4. PoolsTyped' /\ CallsTyped'
    <3>1. CASE /\ halfSwapped' = TRUE /\ oldPool' = [oldPool EXCEPT ![w] = 0]
               /\ UNCHANGED <<pools, pgPool, openPools, orphaned>>
      <4>1. oldPool' \in [Rotators -> 0..Len(pools)]
        BY <1>1, <3>1 DEF PoolsTyped
      <4>2. UNCHANGED <<dsn, borrowed, byHand, stranded>>
        BY <1>11 DEF CreatePool, callVars
      <4>3. QED
        BY <1>1, <3>1, <4>1, <4>2 DEF PoolsTyped, CallsTyped
    <3>2. CASE /\ pools' = Append(pools, newValue[w]) /\ pgPool' = Len(pools) + 1
               /\ openPools' = openPools \cup {Len(pools) + 1}
               /\ orphaned' = IF pgPool = oldPool[w] THEN orphaned
                              ELSE orphaned \cup {pgPool}
               /\ UNCHANGED <<oldPool, halfSwapped>>
      <4>1. UNCHANGED <<dsn, borrowed, byHand, stranded>>
        BY <1>11 DEF CreatePool, callVars
      <4>2. /\ pools' \in Seq(Secrets) /\ Len(pools') = Len(pools) + 1
            /\ Len(pools) \in Nat
        BY <1>1, <2>1, <3>2 DEF PoolsTyped
      <4>3. /\ 0..Len(pools) \subseteq 0..Len(pools')
               /\ 1..Len(pools) \subseteq 1..Len(pools')
            /\ Len(pools) + 1 \in 1..Len(pools') /\ Len(pools) + 1 \in 0..Len(pools')
        BY <4>2
      <4>4. /\ orphaned' \subseteq 1..Len(pools') /\ openPools' \subseteq 1..Len(pools')
            /\ pgPool' \in 0..Len(pools')
        <5>1. orphaned \subseteq 1..Len(pools) /\ openPools \subseteq 1..Len(pools)
          BY <1>1 DEF PoolsTyped
        <5>2. orphaned' \subseteq orphaned \cup {pgPool}
          BY <3>2
        <5>3. QED
          BY <1>4, <3>2, <4>3, <5>1, <5>2
      <4>5. /\ oldPool' \in [Rotators -> 0..Len(pools')]
            /\ borrowed' \in [DbCalls -> 0..Len(pools')]
            /\ byHand' \subseteq DbCalls /\ stranded' \subseteq 1..Len(pools')
        BY <1>1, <3>2, <4>1, <4>3 DEF PoolsTyped, CallsTyped
      <4>6. dsn' \in Secrets /\ halfSwapped' \in BOOLEAN
        BY <1>1, <3>2, <4>1 DEF PoolsTyped
      <4>7. QED
        BY <4>2, <4>4, <4>5, <4>6 DEF PoolsTyped, CallsTyped
    <3>3. QED
      BY <1>11, <3>1, <3>2 DEF CreatePool
  <2>5. RestTyped'
    BY <1>1, <1>2, <1>11, <2>3 DEF CreatePool, RestTyped
  <2>6. QED
    BY <1>3, <1>4, <2>2, <2>4, <2>5
<1>12. CASE ClosePool(w)
  <2>1. WorkTyped' /\ ValuesFound'
    BY <1>5, <1>12 DEF ClosePool, Rotated
  <2>2. oldPool' \in [Rotators -> 0..Len(pools)] /\ openPools' \subseteq 1..Len(pools)
    <3>1. 0 \in 0..Len(pools)
      BY <1>1 DEF PoolsTyped
    <3>2. QED
      BY <1>1, <1>12, <3>1 DEF ClosePool, PoolsTyped
  <2>3. PoolsTyped' /\ CallsTyped' /\ RestTyped'
    BY <1>1, <1>2, <1>12, <2>2
       DEF ClosePool, Rotated, PoolsTyped, CallsTyped, RestTyped, callVars
  <2>4. QED
    BY <1>3, <1>4, <2>1, <2>3
<1>13. QED
  BY <1>7, <1>8, <1>9, <1>10, <1>11, <1>12 DEF WorkerStep

\* When the loop is thrown out of its await, or stopped.
LEMMA ThrownTyped ==
    ASSUME RotationTyped, LoopThrown,
           \/ UNCHANGED lifecycle
           \/ /\ lifecycle = "up" /\ lifecycle' = "stopped"
              /\ rotationStep["operator"] = "idle"
    PROVE  RotationTyped'
<1> USE DEF RotationTyped
<1>1. /\ WorkTyped /\ PoolsTyped /\ CallsTyped /\ RestTyped /\ ValuesFound /\ PoolKept
      /\ "loop" \in Rotators /\ "operator" \in Rotators /\ <<>> \in Seq(Targets)
      /\ NobodyRotates
  BY DEF Rotators
<1>2. rotationStep' = [rotationStep EXCEPT !["loop"] = "ended"]
  BY DEF LoopThrown, RotatesTo
<1>3. WorkTyped'
  BY <1>1, <1>2 DEF LoopThrown, WorkTyped, RotationSteps
<1>4. PoolsTyped'
  <2>1. 0 \in 0..Len(pools)
    BY <1>1 DEF PoolsTyped
  <2>2. oldPool' \in [Rotators -> 0..Len(pools)]
    BY <1>1, <2>1 DEF LoopThrown, PoolsTyped
  <2>3. halfSwapped' \in BOOLEAN
    BY DEF LoopThrown
  <2>4. openPools' \subseteq 1..Len(pools)
    BY <1>1 DEF LoopThrown, PoolsTyped
  <2>5. QED
    BY <1>1, <2>2, <2>3, <2>4 DEF LoopThrown, PoolsTyped
<1>5. ValuesFound' /\ NobodyRotates' /\ PoolKept'
  <2>1. ValuesFound'
    BY <1>1, <1>2 DEF ValuesFound, LoopThrown, WorkTyped
  <2>2. NobodyRotates'
    BY <1>1, <1>2 DEF NobodyRotates, LoopThrown, WorkTyped
  <2>3. PoolKept'
    BY <1>1 DEF PoolKept, LoopThrown
  <2>4. QED
    BY <2>1, <2>2, <2>3
<1>6. CallsTyped' /\ RestTyped'
  BY <1>1 DEF LoopThrown, CallsTyped, RestTyped, callVars
<1>7. QED
  BY <1>2, <1>3, <1>4, <1>5, <1>6

\* What the steps that leave the pools alone must not disturb.
LEMMA QuietStep ==
    ASSUME RotationInv, RotationTyped', UNCHANGED <<pgVars, lifecycle>>,
           \A w \in Rotators :
               rotationStep[w] \in {"create", "close"}
                       \/ rotationStep'[w] \in {"create", "close"}
                   => rotationStep'[w] = rotationStep[w] /\ newValue'[w] = newValue[w]
    PROVE  RotationInv'
<1> USE DEF RotationInv, pgVars
<1>1. ClosesAnother' /\ ShutPoolClosed'
  BY DEF ClosesAnother, ShutPoolClosed
<1>2. RecordedByLast'
  BY DEF RecordedByLast
<1>3. PoolsAccounted' /\ DsnIsLive'
  BY DEF RotationConsistent, PoolsAccounted, DsnIsLive
<1>4. QED
  BY <1>1, <1>2, <1>3 DEF RotationConsistent

\* A step that ends a target before its pool is created or after.
LEMMA EndsQuietly ==
    ASSUME RotationInv, NEW w \in Rotators, NextTarget(w), RotationTyped',
           rotationStep[w] \notin {"idle", "ended", "create", "close"},
           UNCHANGED <<pgVars, lifecycle>>
    PROVE  RotationInv'
<1>1. /\ rotationStep'[w] \in {"resolve", "idle"}
      /\ \A v \in Rotators \ {w} :
             rotationStep'[v] = rotationStep[v] /\ newValue'[v] = newValue[v]
  BY NextTargetTyped DEF RotationInv
<1>2. QED
  BY <1>1, QuietStep

LEMMA ResolveKeeps ==
    ASSUME RotationInv, RotationTyped', NEW w \in Rotators,
           Resolve(w) \/ HandOver(w) \/ ReloadRedis(w)
    PROVE  RotationInv'
<1>1. /\ rotationStep[w] \in {"resolve", "hand over", "reload"}
      /\ UNCHANGED <<pgVars, lifecycle>>
  BY DEF Resolve, HandOver, ReloadRedis
<1>2. CASE NextTarget(w)
  BY <1>1, <1>2, EndsQuietly
<1>3. CASE ~NextTarget(w)
  <2>1. PICK next \in {"hand over", "try", "reload"} :
            rotationStep' = [rotationStep EXCEPT ![w] = next]
    BY <1>3 DEF Resolve, HandOver, ReloadRedis, Rotated, Failed, RotatesTo
  <2>2. newValue' = newValue \/ \E s : newValue' = [newValue EXCEPT ![w] = s]
    BY <1>3 DEF Resolve, HandOver, ReloadRedis, Rotated, Failed
  <2>3. \A v \in Rotators \ {w} :
            rotationStep'[v] = rotationStep[v] /\ newValue'[v] = newValue[v]
    BY <2>1, <2>2 DEF RotationInv, RotationTyped, WorkTyped
  <2>4. rotationStep'[w] = next
    BY <2>1 DEF RotationInv, RotationTyped, WorkTyped
  <2>5. QED
    BY <1>1, <2>3, <2>4, QuietStep
<1>4. QED
  BY <1>2, <1>3

LEMMA TryDsnKeeps ==
    ASSUME RotationInv, RotationTyped', NEW w \in Rotators, TryDsn(w)
    PROVE  RotationInv'
<1>1. CASE Failed(w) /\ UNCHANGED <<dsn, oldPool>>
  BY <1>1, EndsQuietly DEF TryDsn, Failed, pgVars
<1>2. CASE ~(Failed(w) /\ UNCHANGED <<dsn, oldPool>>)
  <2>1. /\ oldPool' = [oldPool EXCEPT ![w] = pgPool] /\ dsn' = newValue[w]
        /\ rotationStep' = [rotationStep EXCEPT ![w] = "create"]
        /\ UNCHANGED <<newValue, pgPool, pools, openPools, orphaned, halfSwapped,
                       lifecycle>>
        /\ rotationStep[w] = "try"
    BY <1>2 DEF TryDsn, RotatesTo
  <2>2. rotationStep \in [Rotators -> RotationSteps]
        /\ oldPool \in [Rotators -> 0..Len(pools)]
    BY DEF RotationInv, RotationTyped, WorkTyped, PoolsTyped
  <2>3. /\ rotationStep'[w] = "create"
        /\ \A v \in Rotators \ {w} : rotationStep'[v] = rotationStep[v]
           /\ oldPool'[v] = oldPool[v]
    BY <2>1, <2>2
  <2>4. ClosesAnother' /\ ShutPoolClosed'
    BY <2>1, <2>3 DEF RotationInv, ClosesAnother, ShutPoolClosed
  <2>5. RecordedByLast'
    BY <2>1, <2>3 DEF RecordedByLast
  <2>6. PoolsAccounted' /\ DsnIsLive'
    <3>1. PoolsAccounted'
      BY <2>1, <2>3 DEF RotationInv, RotationConsistent, PoolsAccounted
    <3>2. DsnIsLive'
      BY <2>3 DEF DsnIsLive
    <3>3. QED
      BY <3>1, <3>2
  <2>7. QED
    BY <2>4, <2>5, <2>6 DEF RotationInv, RotationConsistent
<1>3. QED
  BY <1>1, <1>2

LEMMA CreatePoolKeeps ==
    ASSUME RotationInv, RotationTyped', NEW w \in Rotators, CreatePool(w)
    PROVE  RotationInv'
<1> USE DEF RotationInv
<1>1. /\ WorkTyped /\ PoolsTyped /\ rotationStep[w] = "create" /\ lifecycle = "up"
      /\ UNCHANGED <<dsn, lifecycle>> /\ Len(pools) \in Nat
  <2>1. rotationStep[w] = "create" /\ UNCHANGED <<dsn, lifecycle>>
    BY DEF CreatePool
  <2>2. lifecycle = "up"
    BY <2>1, ActiveUp
  <2>3. QED
    BY <2>1, <2>2 DEF RotationTyped, PoolsTyped
<1>2. CASE /\ Failed(w) /\ halfSwapped' = TRUE /\ oldPool' = [oldPool EXCEPT ![w] = 0]
           /\ UNCHANGED <<pools, pgPool, openPools, orphaned>>
  <2>1. /\ rotationStep'[w] \in {"resolve", "idle"}
        /\ \A v \in Rotators \ {w} : rotationStep'[v] = rotationStep[v]
    BY <1>1, <1>2, NextTargetTyped DEF Failed
  <2>2. \A v \in Rotators \ {w} : oldPool'[v] = oldPool[v]
    BY <1>1, <1>2 DEF PoolsTyped
  <2>3. ClosesAnother' /\ ShutPoolClosed'
    BY <1>1, <1>2, <2>1, <2>2 DEF ClosesAnother, ShutPoolClosed
  <2>4. RecordedByLast' /\ DsnIsLive'
    BY <1>2 DEF RecordedByLast, DsnIsLive
  <2>5. PoolsAccounted'
    BY <1>1, <1>2, <2>1, <2>2 DEF RotationConsistent, PoolsAccounted
  <2>6. QED
    BY <2>3, <2>4, <2>5 DEF RotationConsistent
<1>3. CASE /\ pools' = Append(pools, newValue[w]) /\ pgPool' = Len(pools) + 1
           /\ openPools' = openPools \cup {Len(pools) + 1}
           /\ orphaned' = IF pgPool = oldPool[w] THEN orphaned
                           ELSE orphaned \cup {pgPool}
           /\ RotatesTo(w, "close")
           /\ UNCHANGED <<oldPool, halfSwapped, newValue>>
  <2>1. /\ rotationStep'[w] = "close"
        /\ \A v \in Rotators \ {w} : rotationStep'[v] = rotationStep[v]
    BY <1>1, <1>3 DEF RotatesTo, WorkTyped
  <2>2. \A v \in Rotators : oldPool[v] # pgPool'
    BY <1>1, <1>3 DEF PoolsTyped
  <2>3. ClosesAnother' /\ ShutPoolClosed'
    BY <1>1, <1>3, <2>2 DEF ClosesAnother, ShutPoolClosed
  <2>4. RecordedByLast'
    BY <1>3, <2>2 DEF RecordedByLast
  <2>5. PoolsAccounted'
    <3>1. /\ pgPool' \in openPools'
          /\ openPools' \ orphaned' \subseteq {pgPool'} \cup (openPools \ orphaned)
      BY <1>3
    <3>2. ASSUME NEW p \in openPools \ orphaned, p \notin orphaned'
          PROVE  p \in {oldPool'[v] :
                        v \in {u \in Rotators : rotationStep'[u] = "close"}}
      <4>1. p = pgPool \/ \E v \in Rotators : rotationStep[v] = "close"
            /\ oldPool[v] = p
        BY DEF RotationConsistent, PoolsAccounted
      <4>2. CASE p = pgPool
        <5>1. oldPool[w] = p
          BY <1>3, <3>2, <4>2
        <5>2. QED
          BY <1>3, <2>1, <5>1
      <4>3. CASE \E v \in Rotators : rotationStep[v] = "close" /\ oldPool[v] = p
        BY <1>1, <1>3, <2>1, <4>3
      <4>4. QED
        BY <4>1, <4>2, <4>3
    <3>3. QED
      BY <1>1, <3>1, <3>2 DEF PoolsAccounted
  <2>6. DsnIsLive'
    <3>1. pools'[pgPool'] = newValue[w]
      BY <1>1, <1>3 DEF PoolsTyped
    <3>2. \/ halfSwapped \/ orphaned # {}
          \/ \E v \in Rotators : v # w /\ rotationStep[v] = "create"
          \/ oldPool[w] # pgPool
          \/ newValue[w] = dsn
      BY <1>1 DEF RecordedByLast
    <3>3. CASE oldPool[w] # pgPool
      BY <1>3, <3>3 DEF DsnIsLive
    <3>4. CASE newValue[w] = dsn
      BY <1>1, <3>1, <3>4 DEF DsnIsLive
    <3>5. CASE halfSwapped \/ orphaned # {}
      BY <1>3, <3>5 DEF DsnIsLive
    <3>6. CASE \E v \in Rotators : v # w /\ rotationStep[v] = "create"
      BY <2>1, <3>6 DEF DsnIsLive
    <3>7. QED
      BY <3>2, <3>3, <3>4, <3>5, <3>6
  <2>7. QED
    BY <2>3, <2>4, <2>5, <2>6 DEF RotationConsistent
<1>4. QED
  BY <1>2, <1>3 DEF CreatePool

LEMMA ClosePoolKeeps ==
    ASSUME RotationInv, RotationTyped', NEW w \in Rotators, ClosePool(w)
    PROVE  RotationInv'
<1> USE DEF RotationInv
<1>1. /\ WorkTyped /\ PoolsTyped /\ rotationStep[w] = "close" /\ lifecycle = "up"
      /\ openPools' = openPools \ {oldPool[w]} /\ oldPool' = [oldPool EXCEPT ![w] = 0]
      /\ NextTarget(w)
      /\ UNCHANGED <<dsn, pgPool, pools, orphaned, halfSwapped, lifecycle>>
  <2>1. rotationStep[w] = "close"
    BY DEF ClosePool
  <2>2. QED
    BY <2>1, ActiveUp DEF RotationTyped, ClosePool, Rotated
<1>2. /\ rotationStep'[w] \in {"resolve", "idle"}
      /\ \A v \in Rotators \ {w} :
             /\ rotationStep'[v] = rotationStep[v] /\ newValue'[v] = newValue[v]
             /\ oldPool'[v] = oldPool[v]
  BY <1>1, NextTargetTyped DEF PoolsTyped
<1>3. oldPool[w] # pgPool
  BY <1>1 DEF ClosesAnother
<1>4. ClosesAnother' /\ ShutPoolClosed'
  BY <1>1, <1>2 DEF ClosesAnother, ShutPoolClosed
<1>5. RecordedByLast'
  BY <1>1, <1>2 DEF RecordedByLast
<1>6. PoolsAccounted'
  <2>1. /\ openPools' \subseteq openPools
        /\ rotationStep[w] = "close" => oldPool[w] \notin openPools'
        /\ rotationStep[w] # "close" => openPools' = openPools
    BY <1>1
  <2>2. /\ lifecycle' \in {"up", "stopped"} => pgPool' \in openPools'
        /\ lifecycle' = "down" => openPools' \subseteq orphaned'
    BY <1>1, <1>3, <2>1 DEF RotationConsistent, PoolsAccounted
  <2>3. ASSUME NEW p \in openPools' \ orphaned', p # pgPool'
        PROVE  \E v \in Rotators : rotationStep'[v] = "close" /\ oldPool'[v] = p
    <3>1. PICK v \in Rotators : rotationStep[v] = "close" /\ oldPool[v] = p
      BY <1>1, <2>1, <2>3 DEF RotationConsistent, PoolsAccounted
    <3>2. v # w
      BY <2>1, <2>3, <3>1
    <3>3. QED
      BY <1>2, <3>1, <3>2
  <2>4. QED
    BY <2>2, <2>3 DEF PoolsAccounted
<1>7. DsnIsLive'
  BY <1>1, <1>2 DEF RotationConsistent, DsnIsLive
<1>8. QED
  BY <1>4, <1>5, <1>6, <1>7 DEF RotationConsistent

LEMMA ThrownKeeps ==
    ASSUME RotationInv, RotationTyped', LoopThrown,
           \/ UNCHANGED lifecycle
           \/ lifecycle = "up" /\ lifecycle' = "stopped"
    PROVE  RotationInv'
<1> USE DEF RotationInv
<1>1. /\ WorkTyped /\ PoolsTyped /\ "loop" \in Rotators
      /\ UNCHANGED <<dsn, pgPool, pools, orphaned>>
      /\ halfSwapped' = (halfSwapped \/ rotationStep["loop"] = "create")
      /\ openPools' = IF rotationStep["loop"] = "close"
             THEN openPools \ {oldPool["loop"]}
                      ELSE openPools
      /\ newValue' = [newValue EXCEPT !["loop"] = None]
      /\ oldPool' = [oldPool EXCEPT !["loop"] = 0]
      /\ rotationStep' = [rotationStep EXCEPT !["loop"] = "ended"]
  BY DEF RotationTyped, LoopThrown, RotatesTo, Rotators
<1>2. /\ rotationStep'["loop"] = "ended"
      /\ \A v \in Rotators \ {"loop"} :
             /\ rotationStep'[v] = rotationStep[v] /\ newValue'[v] = newValue[v]
             /\ oldPool'[v] = oldPool[v]
  BY <1>1 DEF WorkTyped, PoolsTyped
<1>3. rotationStep["loop"] = "close" => oldPool["loop"] # pgPool
  BY <1>1 DEF ClosesAnother
<1>4. ClosesAnother' /\ ShutPoolClosed'
  BY <1>1, <1>2 DEF ClosesAnother, ShutPoolClosed
<1>5. RecordedByLast'
  <2>1. ASSUME NEW v \in Rotators, rotationStep'[v] = "create", ~halfSwapped',
               orphaned' = {}, oldPool'[v] = pgPool', newValue'[v] # dsn'
        PROVE  \E u \in Rotators : u # v /\ rotationStep'[u] = "create"
    <3>1. v # "loop"
      BY <1>2, <2>1
    <3>2. /\ rotationStep[v] = "create" /\ oldPool[v] = pgPool /\ newValue[v] # dsn
          /\ ~halfSwapped /\ rotationStep["loop"] # "create" /\ orphaned = {}
      BY <1>1, <1>2, <2>1, <3>1
    <3>3. PICK u \in Rotators : u # v /\ rotationStep[u] = "create"
      BY <3>2 DEF RecordedByLast
    <3>4. QED
      BY <1>2, <3>2, <3>3
  <2>2. QED
    BY <2>1 DEF RecordedByLast
<1>6. PoolsAccounted'
  <2>1. /\ openPools' \subseteq openPools
        /\ rotationStep["loop"] = "close" => oldPool["loop"] \notin openPools'
        /\ rotationStep["loop"] # "close" => openPools' = openPools
    BY <1>1
  <2>2. /\ lifecycle' \in {"up", "stopped"} => pgPool' \in openPools'
        /\ lifecycle' = "down" => openPools' \subseteq orphaned'
    BY <1>1, <1>3, <2>1 DEF RotationConsistent, PoolsAccounted
  <2>3. ASSUME NEW p \in openPools' \ orphaned', p # pgPool'
        PROVE  \E v \in Rotators : rotationStep'[v] = "close" /\ oldPool'[v] = p
    <3>1. PICK v \in Rotators : rotationStep[v] = "close" /\ oldPool[v] = p
      BY <1>1, <2>1, <2>3 DEF RotationConsistent, PoolsAccounted
    <3>2. v # "loop"
      BY <2>1, <2>3, <3>1
    <3>3. QED
      BY <1>2, <3>1, <3>2
  <2>4. QED
    BY <2>2, <2>3 DEF PoolsAccounted
<1>7. DsnIsLive'
  BY <1>1, <1>2 DEF RotationConsistent, DsnIsLive
<1>8. QED
  BY <1>4, <1>5, <1>6, <1>7 DEF RotationConsistent

LEMMA RotationInvStep == RotationInv /\ [RotationNext]_rotationVars => RotationInv'
<1> SUFFICES ASSUME RotationInv, [RotationNext]_rotationVars PROVE RotationInv'
  OBVIOUS
<1>1. /\ RotationTyped /\ WorkTyped /\ PoolsTyped /\ CallsTyped /\ RestTyped
      /\ ValuesFound /\ NobodyRotates /\ PoolKept
  BY DEF RotationInv, RotationTyped
<1>2. CASE \E w \in Rotators : WorkerStep(w)
  <2>1. PICK w \in Rotators : WorkerStep(w)
    BY <1>2
  <2>2. RotationTyped'
    BY <1>1, <2>1, WorkerTyped
  <2>3. QED
    BY <2>1, <2>2, ResolveKeeps, TryDsnKeeps, CreatePoolKeeps, ClosePoolKeeps
       DEF WorkerStep
<1>3. CASE LoopEnds
  <2>1. LoopThrown /\ UNCHANGED lifecycle
    BY <1>3 DEF LoopEnds
  <2>2. RotationTyped'
    BY <1>1, <2>1, ThrownTyped
  <2>3. QED
    BY <2>1, <2>2, ThrownKeeps
<1>4. CASE StopScheduler
  <2>1. /\ LoopThrown /\ lifecycle = "up" /\ lifecycle' = "stopped"
        /\ rotationStep["operator"] = "idle"
    BY <1>4 DEF StopScheduler
  <2>2. RotationTyped'
    BY <1>1, <2>1, ThrownTyped
  <2>3. QED
    BY <2>1, <2>2, ThrownKeeps
<1>5. CASE LoopWakes \/ OperatorAsks
  <2>1. PICK w \in Rotators, s \in Seq(Targets) \ {<<>>} :
            /\ rotationStep[w] = "idle" /\ lifecycle = "up"
            /\ todo' = [todo EXCEPT ![w] = s]
            /\ rotationStep' = [rotationStep EXCEPT ![w] = "resolve"]
    <3>1. CASE LoopWakes
      <4>1. /\ "loop" \in Rotators /\ <<Redis, Postgres>> \in Seq(Targets) \ {<<>>}
            /\ lifecycle = "up"
        BY <1>1, <3>1 DEF LoopWakes, NobodyRotates, Rotators, Targets
      <4>2. QED
        BY <3>1, <4>1 DEF LoopWakes, RotatesTo
    <3>2. CASE OperatorAsks
      <4>1. /\ "operator" \in Rotators
               /\ \A t \in Targets : <<t>> \in Seq(Targets) \ {<<>>}
        BY DEF Rotators
      <4>2. QED
        BY <3>2, <4>1 DEF OperatorAsks, RotatesTo
    <3>3. QED
      BY <1>5, <3>1, <3>2
  <2>2. UNCHANGED <<secret, redisUrl, pgVars, callVars, newValue, cancelled, lifecycle>>
    BY <1>5 DEF LoopWakes, OperatorAsks
  <2>3. WorkTyped' /\ ValuesFound'
    <3>1. WorkTyped'
      BY <1>1, <2>1, <2>2 DEF WorkTyped, RotationSteps
    <3>2. ValuesFound'
      BY <1>1, <2>1, <2>2 DEF WorkTyped, ValuesFound
    <3>3. QED
      BY <3>1, <3>2
  <2>4. PoolsTyped' /\ CallsTyped' /\ RestTyped' /\ NobodyRotates' /\ PoolKept'
    BY <1>1, <2>1, <2>2
       DEF PoolsTyped, CallsTyped, RestTyped, NobodyRotates, PoolKept, pgVars, callVars
  <2>5. \A v \in Rotators : v = w \/ rotationStep'[v] = rotationStep[v]
    BY <1>1, <2>1 DEF WorkTyped
  <2>6. rotationStep'[w] = "resolve"
    BY <1>1, <2>1 DEF WorkTyped
  <2>7. QED
    BY <2>1, <2>2, <2>3, <2>4, <2>5, <2>6, QuietStep DEF RotationTyped
<1>6. ASSUME UNCHANGED <<todo, rotationStep, newValue, cancelled, pgVars>>,
             lifecycle' = lifecycle,
             CallsTyped', secret' \in [Targets -> Secrets \cup {None}],
             UNCHANGED redisUrl
      PROVE  RotationInv'
  <2>1. RotationTyped'
    BY <1>1, <1>6 DEF RotationTyped, WorkTyped, PoolsTyped, RestTyped, ValuesFound,
                      NobodyRotates, PoolKept, pgVars
  <2>2. QED
    BY <1>6, <2>1, QuietStep
<1>7. CASE \E t \in Targets : StoreChanges(t)
  <2>1. /\ UNCHANGED <<todo, rotationStep, newValue, cancelled, pgVars, lifecycle,
                       redisUrl,
                       callVars>>
        /\ secret' \in [Targets -> Secrets \cup {None}]
    BY <1>1, <1>7 DEF StoreChanges, workVars, RestTyped
  <2>2. CallsTyped'
    BY <1>1, <2>1 DEF CallsTyped, callVars, pgVars
  <2>3. QED
    BY <1>6, <2>1, <2>2
<1>8. CASE \E d \in DbCalls : Borrow(d) \/ GiveBack(d)
  <2>1. PICK d \in DbCalls : Borrow(d) \/ GiveBack(d)
    BY <1>8
  <2>2. /\ UNCHANGED <<todo, rotationStep, newValue, cancelled, pgVars, lifecycle,
                       redisUrl,
                       secret>>
    BY <2>1 DEF Borrow, GiveBack, workVars
  <2>3. CallsTyped'
    <3>1. /\ pgPool \in 0..Len(pools) /\ 0 \in 0..Len(pools) /\ UNCHANGED pools
          /\ borrowed[d] \in 0..Len(pools) /\ Len(pools) \in Nat
      BY <1>1, <2>1, <2>2 DEF PoolsTyped, CallsTyped, pgVars
    <3>2. borrowed' \in [DbCalls -> 0..Len(pools)]
      BY <1>1, <2>1, <3>1 DEF Borrow, GiveBack, CallsTyped
    <3>3. byHand' \subseteq DbCalls
      BY <1>1, <2>1 DEF Borrow, GiveBack, CallsTyped
    <3>4. stranded' \subseteq 1..Len(pools)
      <4>1. CASE Borrow(d)
        BY <1>1, <4>1 DEF Borrow, CallsTyped
      <4>2. CASE GiveBack(d)
        <5>1. borrowed[d] \in 1..Len(pools)
          BY <3>1, <4>2 DEF GiveBack
        <5>2. QED
          BY <1>1, <4>2, <5>1 DEF GiveBack, CallsTyped
      <4>3. QED
        BY <2>1, <4>1, <4>2
    <3>5. QED
      BY <3>1, <3>2, <3>3, <3>4 DEF CallsTyped
  <2>4. secret \in [Targets -> Secrets \cup {None}]
    BY <1>1 DEF RestTyped
  <2>5. QED
    BY <1>6, <2>2, <2>3, <2>4
<1>9. CASE UNCHANGED rotationVars
  <2>1. UNCHANGED <<todo, rotationStep, newValue, cancelled, pgVars, lifecycle,
                    redisUrl,
                    secret, callVars>>
    BY <1>9 DEF rotationVars, workVars
  <2>2. CallsTyped' /\ secret' \in [Targets -> Secrets \cup {None}]
    BY <1>1, <2>1 DEF CallsTyped, RestTyped, callVars, pgVars
  <2>3. QED
    BY <1>6, <2>1, <2>2
<1>10. CASE ShutdownPools \/ ShutdownEnds
  <2>1. /\ UNCHANGED <<secret, redisUrl, dsn, pools, oldPool, orphaned, halfSwapped,
                       callVars,
                       todo, rotationStep, newValue, cancelled>>
        /\ lifecycle # "up"
        /\ openPools' \subseteq openPools
    BY <1>10 DEF ShutdownPools, ShutdownEnds, workVars
  <2>2. \A w \in Rotators : rotationStep[w] \in {"idle", "ended"}
    BY <1>1, <2>1 DEF NobodyRotates, Rotators
  <2>3. WorkTyped' /\ CallsTyped' /\ RestTyped' /\ ValuesFound' /\ NobodyRotates'
        /\ PoolKept'
    <3>1. WorkTyped' /\ CallsTyped' /\ ValuesFound'
      BY <1>1, <2>1 DEF WorkTyped, CallsTyped, ValuesFound, callVars
    <3>2. RestTyped' /\ NobodyRotates' /\ PoolKept'
      BY <1>1, <1>10, <2>1
         DEF ShutdownPools, ShutdownEnds, RestTyped, NobodyRotates, PoolKept
    <3>3. QED
      BY <3>1, <3>2
  <2>4. PoolsTyped'
    <3>1. pgPool' = pgPool \/ pgPool' = 0
      BY <1>10 DEF ShutdownPools, ShutdownEnds
    <3>2. Len(pools) \in Nat
      BY <1>1 DEF PoolsTyped
    <3>3. pgPool' \in 0..Len(pools)
      BY <1>1, <3>1, <3>2 DEF PoolsTyped
    <3>4. QED
      BY <1>1, <2>1, <3>3 DEF PoolsTyped
  <2>5. ClosesAnother' /\ RecordedByLast'
    BY <2>1, <2>2 DEF ClosesAnother, RecordedByLast
  <2>6. ShutPoolClosed'
    BY <1>10 DEF ShutdownPools, ShutdownEnds, ShutPoolClosed
  <2>7. PoolsAccounted'
    <3>1. /\ openPools \ orphaned \subseteq
                 {pgPool}
                     \cup {oldPool[w] :
                           w \in {v \in Rotators : rotationStep[v] = "close"}}
          /\ lifecycle = "closing" => pgPool \notin openPools
          /\ lifecycle = "stopped" => pgPool \in openPools
      BY DEF RotationInv, RotationConsistent, PoolsAccounted, ShutPoolClosed
    <3>2. openPools \ orphaned \subseteq {pgPool}
      BY <2>2, <3>1
    <3>3. CASE ShutdownPools
      BY <2>1, <3>2, <3>3 DEF ShutdownPools, PoolsAccounted
    <3>4. CASE ShutdownEnds
      BY <2>1, <3>1, <3>2, <3>4 DEF ShutdownEnds, PoolsAccounted
    <3>5. QED
      BY <1>10, <3>3, <3>4
  <2>8. DsnIsLive'
    BY <1>10, <2>1, <2>2
       DEF ShutdownPools, ShutdownEnds, RotationInv, RotationConsistent, DsnIsLive
  <2>9. QED
    BY <2>3, <2>4, <2>5, <2>6, <2>7, <2>8
       DEF RotationInv, RotationTyped, RotationConsistent
<1>11. QED
  BY <1>2, <1>3, <1>4, <1>5, <1>7, <1>8, <1>9, <1>10 DEF RotationNext

\* The pools and the DSN of PGPool after rotations that overlap
\* (PGPool.reload_dsn(), SecretsRotationScheduler.rotate_targets()).
THEOREM RotationAlwaysConsistent == RotationSpec => []RotationConsistent
BY RotationInit0, RotationInvStep, PTL DEF RotationSpec, RotationInv

-----------------------------------------------------------------------------
(* Threat intelligence *)

\* Why an address may be in the blocklist, other than that an operator put it
\* there or that a restart abandoned it: a purge is no reason, for it takes the
\* key of an address with it.
Justified(ip) ==
    \/ ip \in Tracked(ttlMap) \cup stuck
    \/ \E a \in Agents, f \in Feeds : worker[a] = "evict" /\ <<ip, f>> \in removals[a]

\* What may have become of an address that the resolver knows.
Followed(ip) ==
    \/ ip \in blocklist \cup unsynced \cup overlooked
    \/ \E a \in Agents : ip \in batch[a]

KeptOut(ip) ==
    /\ ip \notin blocklist \ (manual \cup abandoned)
    /\ \A a \in Agents : ip \notin batch[a]

\* The inductive invariant.
FeedsInv ==
    /\ ThreatTypeOK
    /\ \A ip \in blocklist \ (manual \cup abandoned) : Justified(ip)
    /\ \A ip \in Excluded : KeptOut(ip)
    /\ \A ip \in Tracked(ttlMap) \cup seen : Followed(ip)

WorkerStates == {"idle", "fetch", "sync", "evict", "purge", "ended"}

FeedConstants ==
    /\ Excluded \subseteq Ips /\ FeedTtl \in Nat /\ FeedTtl # 0 /\ "loop" \in Agents
    /\ Agents \subseteq {"loop", "caller"}

LEMMA FeedConstantsHold == FeedConstants
BY FeedAssumption DEF FeedConstants

LEMMA FeedsInvInit == ThreatInit => FeedsInv
<1> SUFFICES ASSUME ThreatInit PROVE FeedsInv
  OBVIOUS
<1> USE DEF ThreatInit
<1>1. ttlMap \in [FeedKeys -> {Absent} \cup 0..FeedTtl]
  OBVIOUS
<1>2. Tracked(ttlMap) = {}
  BY DEF Tracked, FeedKeys
<1>3. ThreatTypeOK
  BY <1>1 DEF ThreatTypeOK
<1>4. QED
  BY <1>2, <1>3 DEF FeedsInv, KeptOut

Lives == {Absent} \cup 0..FeedTtl

LEMMA EvictEffect ==
    ASSUME ThreatTypeOK, NEW a \in Agents, NEW map \in [FeedKeys -> Lives],
           NEW tracked \in SUBSET Ips, Evict(a, map, tracked)
    PROVE  /\ ttlMap' \in [FeedKeys -> Lives]
           /\ Tracked(ttlMap') \subseteq Tracked(map)
           /\ \A ip \in Tracked(map) :
                  \/ ip \in Tracked(ttlMap')
                  \/ \E f \in Feeds : worker'[a] = "evict" /\ <<ip, f>> \in removals'[a]
           /\ seen' \subseteq tracked
           /\ removals' \in [Agents -> SUBSET FeedKeys]
           /\ worker' \in [Agents -> WorkerStates]
           /\ worker'[a] \in {"idle", "evict"}
           /\ removals'[a] # {} <=> worker'[a] = "evict"
           /\ \A b \in Agents \ {a} : worker'[b] = worker[b]
              /\ removals'[b] = removals[b]
<1> DEFINE gone == Expired(map)
<1>1. gone \subseteq FeedKeys
  BY DEF Expired
<1>2. /\ ttlMap' = [k \in FeedKeys |-> IF k \in gone THEN Absent ELSE map[k]]
      /\ seen' \subseteq tracked
      /\ removals' = [removals EXCEPT ![a] = gone]
      /\ worker' = [worker EXCEPT ![a] = IF gone = {} THEN "idle" ELSE "evict"]
  BY DEF Evict, Without, Becomes
<1> HIDE DEF gone
<1>3. /\ worker \in [Agents -> WorkerStates] /\ removals \in [Agents -> SUBSET FeedKeys]
  BY DEF ThreatTypeOK, WorkerStates
<1>4. /\ removals'[a] = gone /\ worker'[a] = IF gone = {} THEN "idle" ELSE "evict"
      /\ removals' \in [Agents -> SUBSET FeedKeys]
      /\ \A b \in Agents \ {a} : worker'[b] = worker[b] /\ removals'[b] = removals[b]
  BY <1>1, <1>2, <1>3
<1>5. worker' \in [Agents -> WorkerStates]
  BY <1>2, <1>3 DEF WorkerStates
<1>6. ttlMap' \in [FeedKeys -> Lives]
  BY <1>2 DEF Lives
<1>7. ASSUME NEW ip \in Ips, NEW f \in Feeds
      PROVE  ttlMap'[<<ip, f>>] = IF <<ip, f>> \in gone THEN Absent ELSE map[<<ip, f>>]
  BY <1>2 DEF FeedKeys
<1>8. Tracked(ttlMap') \subseteq Tracked(map)
  BY <1>7 DEF Tracked
<1>9. ASSUME NEW ip \in Tracked(map), ip \notin Tracked(ttlMap')
      PROVE  \E f \in Feeds : worker'[a] = "evict" /\ <<ip, f>> \in removals'[a]
  <2>1. PICK f \in Feeds : map[<<ip, f>>] # Absent /\ ip \in Ips
    BY DEF Tracked
  <2>2. ttlMap'[<<ip, f>>] = Absent
    BY <1>9, <2>1 DEF Tracked
  <2>3. <<ip, f>> \in gone
    BY <1>7, <2>1, <2>2
  <2>4. QED
    BY <1>4, <2>3
<1>10. QED
  BY <1>2, <1>4, <1>5, <1>6, <1>8, <1>9

\* What a step that adds nothing to the blocklist must not disturb.
LEMMA FeedsInvStep == FeedsInv /\ [ThreatNext]_threatVars => FeedsInv'
<1> SUFFICES ASSUME FeedsInv, [ThreatNext]_threatVars PROVE FeedsInv'
  OBVIOUS
<1> USE FeedConstantsHold DEF FeedConstants
<1>1. /\ ThreatTypeOK
      /\ ttlMap \in [FeedKeys -> Lives]
      /\ seen \subseteq Ips /\ blocklist \subseteq Ips /\ manual \subseteq Ips
      /\ unsynced \subseteq Ips /\ stuck \subseteq Ips /\ overlooked \subseteq Ips
      /\ abandoned \subseteq Ips
      /\ worker \in [Agents -> WorkerStates]
      /\ batch \in [Agents -> SUBSET Ips]
      /\ removals \in [Agents -> SUBSET FeedKeys]
      /\ \A a \in Agents : batch[a] # {} <=> worker[a] = "sync"
      /\ \A a \in Agents : removals[a] # {} <=> worker[a] \in {"evict", "purge"}
  BY DEF FeedsInv, ThreatTypeOK, WorkerStates, Lives
<1>2. /\ \A ip \in blocklist \ (manual \cup abandoned) : Justified(ip)
      /\ \A ip \in Excluded : KeptOut(ip)
      /\ \A ip \in Tracked(ttlMap) \cup seen : Followed(ip)
  BY DEF FeedsInv
<1>3. CASE ThreatTick
  <2>1. ttlMap' \in [FeedKeys -> Lives]
    BY <1>1, <1>3 DEF ThreatTick, Lives, Absent
  <2>2. UNCHANGED <<seen, worker, batch, removals, blocklist, manual, unsynced, stuck,
                    overlooked, abandoned>>
    BY <1>3 DEF ThreatTick, jobs, blocked
  <2>3. Tracked(ttlMap') = Tracked(ttlMap)
    <3>1. ASSUME NEW ip \in Ips, NEW f \in Feeds
          PROVE  ttlMap'[<<ip, f>>] # Absent <=> ttlMap[<<ip, f>>] # Absent
      <4>1. <<ip, f>> \in FeedKeys
        BY DEF FeedKeys
      <4>2. QED
        BY <1>1, <1>3, <4>1 DEF ThreatTick, Lives, Absent
    <3>2. QED
      BY <3>1 DEF Tracked
  <2>4. ThreatTypeOK'
    BY <1>1, <2>1, <2>2 DEF ThreatTypeOK, Lives
  <2>5. /\ \A ip \in blocklist' \ (manual' \cup abandoned') : Justified(ip)'
        /\ \A ip \in Excluded : KeptOut(ip)'
        /\ \A ip \in Tracked(ttlMap') \cup seen' : Followed(ip)'
    BY <1>2, <2>2, <2>3 DEF Justified, KeptOut, Followed
  <2>6. QED
    BY <2>4, <2>5 DEF FeedsInv
<1>4. CASE UNCHANGED threatVars
  <2>1. UNCHANGED <<ttlMap, seen, worker, batch, removals, blocklist, manual, unsynced,
                    stuck, overlooked, abandoned>>
    BY <1>4 DEF threatVars, resolver, jobs, blocked
  <2>2. QED
    BY <1>1, <1>2, <2>1
       DEF FeedsInv, ThreatTypeOK, Justified, KeptOut, Followed, Tracked
<1>5. CASE \E ip \in Ips : OperatorBlocks(ip)
  <2>1. PICK x \in Ips : OperatorBlocks(x)
    BY <1>5
  <2>2. /\ blocklist' = blocklist \cup {x} /\ manual' = manual \cup {x}
        /\ unsynced' = unsynced \ {x} /\ overlooked' = overlooked \ {x}
        /\ abandoned' = abandoned \ {x}
        /\ UNCHANGED <<ttlMap, seen, worker, batch, removals, stuck>>
    BY <2>1 DEF OperatorBlocks, resolver, jobs
  <2>3. ThreatTypeOK'
    BY <1>1, <2>2 DEF ThreatTypeOK
  <2>4. /\ \A ip \in blocklist' \ (manual' \cup abandoned') : Justified(ip)'
        /\ \A ip \in Excluded : KeptOut(ip)'
        /\ \A ip \in Tracked(ttlMap') \cup seen' : Followed(ip)'
    BY <1>2, <2>2 DEF Justified, KeptOut, Followed
  <2>5. QED
    BY <2>3, <2>4 DEF FeedsInv
<1>6. CASE \E a \in Agents : RefreshBegins(a) \/ FetchFails(a)
  <2>1. PICK a \in Agents : RefreshBegins(a) \/ FetchFails(a)
    BY <1>6
  <2>2. /\ worker[a] \in {"idle", "fetch"}
        /\ \E next \in {"idle", "fetch"} : worker' = [worker EXCEPT ![a] = next]
        /\ UNCHANGED <<ttlMap, seen, batch, removals, blocklist, manual, unsynced,
                       stuck, overlooked, abandoned>>
    BY <2>1 DEF RefreshBegins, FetchFails, Becomes, resolver, blocked
  <2>3. /\ worker' \in [Agents -> WorkerStates]
        /\ worker'[a] \in {"idle", "fetch"}
        /\ \A b \in Agents \ {a} : worker'[b] = worker[b]
    BY <1>1, <2>2 DEF WorkerStates
  <2>4. ThreatTypeOK'
    BY <1>1, <2>2, <2>3 DEF ThreatTypeOK, WorkerStates
  <2>5. /\ \A ip \in blocklist' \ (manual' \cup abandoned') : Justified(ip)'
        /\ \A ip \in Excluded : KeptOut(ip)'
        /\ \A ip \in Tracked(ttlMap') \cup seen' : Followed(ip)'
    BY <1>2, <2>2, <2>3 DEF Justified, KeptOut, Followed, Tracked
  <2>6. QED
    BY <2>4, <2>5 DEF FeedsInv
<1>7. CASE \E a \in Agents : JobFails(a) \/ (a = "loop" /\ StopLoop)
  <2>1. PICK a \in Agents : JobFails(a) \/ (a = "loop" /\ StopLoop)
    BY <1>7
  <2>2. /\ Drops(a)
        /\ \E next \in {"idle", "ended"} : worker' = [worker EXCEPT ![a] = next]
    BY <2>1 DEF JobFails, StopLoop, Becomes
  <2>3. /\ worker' \in [Agents -> WorkerStates] /\ worker'[a] \in {"idle", "ended"}
        /\ \A b \in Agents \ {a} : worker'[b] = worker[b]
    BY <1>1, <2>2 DEF WorkerStates
  <2>4. /\ batch' \in [Agents -> SUBSET Ips]
           /\ removals' \in [Agents -> SUBSET FeedKeys]
        /\ batch'[a] = {} /\ removals'[a] = {}
        /\ \A b \in Agents \ {a} : batch'[b] = batch[b] /\ removals'[b] = removals[b]
        /\ unsynced' = unsynced \cup batch[a]
        /\ UNCHANGED <<ttlMap, seen, blocklist, manual, overlooked, abandoned>>
    BY <1>1, <2>2 DEF Drops, resolver
  <2>5. /\ stuck' \subseteq Ips /\ stuck \subseteq stuck'
        /\ \A ip \in Ips, f \in Feeds :
               worker[a] = "evict" /\ <<ip, f>> \in removals[a] => ip \in stuck'
    BY <1>1, <2>2 DEF Drops, FeedKeys
  <2>6. ThreatTypeOK'
    BY <1>1, <2>3, <2>4, <2>5 DEF ThreatTypeOK, WorkerStates
  <2>7. ASSUME NEW ip \in blocklist' \ (manual' \cup abandoned')
        PROVE  Justified(ip)'
    BY <1>1, <1>2, <2>3, <2>4, <2>5 DEF Justified, Tracked
  <2>8. ASSUME NEW ip \in Tracked(ttlMap') \cup seen' PROVE Followed(ip)'
    BY <1>2, <2>4 DEF Followed, Tracked
  <2>9. \A ip \in Excluded : KeptOut(ip)'
    BY <1>2, <2>4 DEF KeptOut
  <2>10. QED
    BY <2>6, <2>7, <2>8, <2>9 DEF FeedsInv
<1>8. CASE \E a \in Agents, f \in Feeds, ips \in SUBSET Ips : FetchEnds(a, f, ips)
  <2>1. PICK a \in Agents, f \in Feeds, ips \in SUBSET Ips : FetchEnds(a, f, ips)
    BY <1>8
  <2> DEFINE allowed == ips \ Excluded
             new == allowed \ seen
             recorded == [k \in FeedKeys |-> IF k[2] = f /\ k[1] \in allowed
                                             THEN FeedTtl ELSE ttlMap[k]]
  <2>2. /\ worker[a] = "fetch" /\ batch' = [batch EXCEPT ![a] = new]
        /\ overlooked' = overlooked \ new
        /\ abandoned' = abandoned \ allowed
        /\ UNCHANGED <<blocklist, manual, unsynced, stuck>>
        /\ IF new = {} THEN Evict(a, recorded, seen)
           ELSE /\ ttlMap' = recorded /\ seen' = seen \cup new
                /\ worker' = [worker EXCEPT ![a] = "sync"] /\ UNCHANGED removals
    BY <2>1 DEF FetchEnds, Kept, Recorded, Becomes
  <2>3. /\ recorded \in [FeedKeys -> Lives]
        /\ \A ip \in Ips : ip \in Tracked(recorded) <=>
                                ip \in allowed \/ ip \in Tracked(ttlMap)
    <3>1. recorded \in [FeedKeys -> Lives]
      BY <1>1 DEF Lives
    <3>2. ASSUME NEW ip \in Ips, NEW g \in Feeds
          PROVE  recorded[<<ip, g>>] =
                     IF g = f /\ ip \in allowed THEN FeedTtl ELSE ttlMap[<<ip, g>>]
      BY DEF FeedKeys
    <3>3. FeedTtl # Absent
      BY DEF Absent
    <3>4. ASSUME NEW ip \in Ips
          PROVE  ip \in Tracked(recorded) <=> ip \in allowed \/ ip \in Tracked(ttlMap)
      <4> HIDE DEF recorded, allowed
      <4>1. CASE ip \in allowed
        BY <3>2, <3>3, <4>1 DEF Tracked
      <4>2. CASE ip \notin allowed
        BY <3>2, <4>2 DEF Tracked
      <4>3. QED
        BY <4>1, <4>2
    <3>5. QED
      BY <3>1, <3>4
  <2>4. allowed \subseteq Ips /\ new \subseteq Ips /\ allowed \subseteq seen \cup new
        /\ allowed \cap Excluded = {} /\ new \cap Excluded = {}
    OBVIOUS
  <2> HIDE DEF recorded, new, allowed
  <2>5. /\ ttlMap' \in [FeedKeys -> Lives]
           /\ Tracked(ttlMap') \subseteq Tracked(recorded)
        /\ \A ip \in Tracked(recorded) :
               \/ ip \in Tracked(ttlMap')
               \/ \E g \in Feeds : worker'[a] = "evict" /\ <<ip, g>> \in removals'[a]
        /\ seen' \subseteq seen \cup new
        /\ removals' \in [Agents -> SUBSET FeedKeys]
        /\ worker' \in [Agents -> WorkerStates]
        /\ worker'[a] = "sync" <=> new # {}
        /\ removals'[a] # {} <=> worker'[a] \in {"evict", "purge"}
        /\ \A b \in Agents \ {a} : worker'[b] = worker[b] /\ removals'[b] = removals[b]
    <3>1. CASE new = {}
      BY <1>1, <2>2, <2>3, <3>1, EvictEffect
    <3>2. CASE new # {}
      BY <1>1, <2>2, <2>3, <3>2 DEF WorkerStates
    <3>3. QED
      BY <3>1, <3>2
  <2>6. /\ batch' \in [Agents -> SUBSET Ips] /\ batch'[a] = new
        /\ \A b \in Agents \ {a} : batch'[b] = batch[b]
    BY <1>1, <2>2, <2>4
  <2>7. ThreatTypeOK'
    BY <1>1, <2>2, <2>4, <2>5, <2>6 DEF ThreatTypeOK, WorkerStates, Lives
  <2>8. ASSUME NEW ip \in blocklist' \ (manual' \cup abandoned')
        PROVE  Justified(ip)'
    <3>1. ip \in blocklist \ manual /\ ip \in Ips
      BY <1>1, <2>2
    <3>6. CASE ip \in allowed
      BY <2>3, <2>5, <3>1, <3>6 DEF Justified
    <3>7. ip \notin allowed => ip \notin abandoned
      BY <2>2
    <3>2. CASE ip \in Tracked(ttlMap)
      BY <2>3, <2>5, <3>1, <3>2 DEF Justified
    <3>3. CASE ip \in stuck
      BY <2>2, <3>3 DEF Justified
    <3>4. CASE \E b \in Agents, g \in Feeds : worker[b] = "evict"
               /\ <<ip, g>> \in removals[b]
      BY <2>2, <2>5, <3>4 DEF Justified
    <3>5. QED
      BY <1>2, <3>1, <3>2, <3>3, <3>4, <3>6, <3>7 DEF Justified
  <2>9. ASSUME NEW ip \in Tracked(ttlMap') \cup seen' PROVE Followed(ip)'
    <3>1. ip \in new \/ ip \in Tracked(ttlMap) \cup seen
      BY <2>3, <2>4, <2>5 DEF Tracked
    <3>2. CASE ip \in new
      BY <2>6, <3>2 DEF Followed
    <3>3. CASE ip \notin new /\ ip \in blocklist \cup unsynced \cup overlooked
      BY <2>2, <3>3 DEF Followed
    <3>4. CASE \E b \in Agents : ip \in batch[b]
      BY <1>1, <2>2, <2>6, <3>4 DEF Followed
    <3>5. QED
      BY <1>2, <3>1, <3>2, <3>3, <3>4 DEF Followed
  <2>10. \A ip \in Excluded : KeptOut(ip)'
    BY <1>2, <2>2, <2>4, <2>6 DEF KeptOut
  <2>11. QED
    BY <2>7, <2>8, <2>9, <2>10 DEF FeedsInv
<1>9. CASE \E a \in Agents : SyncBatch(a)
  <2>1. PICK a \in Agents : SyncBatch(a)
    BY <1>9
  <2>2. PICK ips \in SUBSET batch[a] \ {{}} :
           /\ blocklist' = blocklist \cup ips
           /\ unsynced' = unsynced \ ips
           /\ overlooked' = overlooked \ ips
           /\ batch' = [batch EXCEPT ![a] = @ \ ips]
           /\ stuck' = stuck \cup (ips \ Tracked(ttlMap))
    BY <2>1 DEF SyncBatch
  <2>3. /\ worker[a] = "sync" /\ UNCHANGED <<manual, abandoned>>
        /\ IF batch'[a] = {} THEN Evict(a, ttlMap, seen)
           ELSE UNCHANGED <<ttlMap, seen, worker, removals>>
    BY <2>1 DEF SyncBatch
  <2>4. /\ batch' \in [Agents -> SUBSET Ips] /\ batch'[a] = batch[a] \ ips
           /\ ips \subseteq Ips
        /\ \A b \in Agents \ {a} : batch'[b] = batch[b]
    BY <1>1, <2>2
  <2>5. /\ ttlMap' \in [FeedKeys -> Lives] /\ Tracked(ttlMap') \subseteq Tracked(ttlMap)
        /\ \A ip \in Tracked(ttlMap) :
               \/ ip \in Tracked(ttlMap')
               \/ \E g \in Feeds : worker'[a] = "evict" /\ <<ip, g>> \in removals'[a]
        /\ seen' \subseteq seen
        /\ removals' \in [Agents -> SUBSET FeedKeys]
        /\ worker' \in [Agents -> WorkerStates]
        /\ worker'[a] = "sync" <=> batch'[a] # {}
        /\ removals'[a] # {} <=> worker'[a] \in {"evict", "purge"}
        /\ \A b \in Agents \ {a} : worker'[b] = worker[b] /\ removals'[b] = removals[b]
    <3>1. CASE batch'[a] = {}
      <4>1. Evict(a, ttlMap, seen)
        BY <2>3, <3>1
      <4>2. ttlMap \in [FeedKeys -> Lives] /\ seen \in SUBSET Ips
        BY <1>1
      <4> HIDE DEF ThreatTypeOK
      <4>3. QED
        BY <1>1, <3>1, <4>1, <4>2, EvictEffect
    <3>2. CASE batch'[a] # {}
      BY <1>1, <2>3, <3>2
    <3>3. QED
      BY <3>1, <3>2
  <2>6. ThreatTypeOK'
    BY <1>1, <2>2, <2>3, <2>4, <2>5 DEF ThreatTypeOK, WorkerStates, Lives
  <2>7. ASSUME NEW ip \in blocklist' \ (manual' \cup abandoned')
        PROVE  Justified(ip)'
    <3>1. CASE ip \in Tracked(ttlMap)
      BY <2>5, <3>1 DEF Justified
    <3>2. CASE ip \in stuck'
      BY <3>2 DEF Justified
    <3>3. CASE \E b \in Agents, g \in Feeds : worker[b] = "evict"
               /\ <<ip, g>> \in removals[b]
      BY <2>3, <2>5, <3>3 DEF Justified
    <3>4. CASE ip \notin ips
      BY <1>2, <2>2, <2>3, <3>1, <3>2, <3>3, <3>4 DEF Justified
    <3>5. QED
      BY <2>2, <3>1, <3>2, <3>4
  <2>8. ASSUME NEW ip \in Tracked(ttlMap') \cup seen' PROVE Followed(ip)'
    <3>1. ip \in Tracked(ttlMap) \cup seen
      BY <2>5
    <3>2. CASE ip \in blocklist \cup unsynced \cup overlooked
      BY <2>2, <3>2 DEF Followed
    <3>3. CASE \E b \in Agents : ip \in batch[b]
      BY <2>2, <2>4, <3>3 DEF Followed
    <3>4. QED
      BY <1>2, <3>1, <3>2, <3>3 DEF Followed
  <2>9. \A ip \in Excluded : KeptOut(ip)'
    BY <1>2, <2>2, <2>3, <2>4 DEF KeptOut
  <2>10. QED
    BY <2>6, <2>7, <2>8, <2>9 DEF FeedsInv
<1>10. CASE PurgeBegins
  <2>1. /\ "caller" \in Agents /\ worker["caller"] = "idle"
        /\ \E gone \in SUBSET FeedKeys :
              /\ removals' = [removals EXCEPT !["caller"] = gone]
              /\ IF gone = {} THEN seen' = {} /\ UNCHANGED worker
                 ELSE worker' = [worker EXCEPT !["caller"] = "purge"] /\ UNCHANGED seen
        /\ UNCHANGED <<ttlMap, batch, blocklist, manual, unsynced, stuck, overlooked,
                       abandoned>>
    BY <1>10 DEF PurgeBegins, Becomes, blocked
  <2>2. /\ removals' \in [Agents -> SUBSET FeedKeys]
           /\ worker' \in [Agents -> WorkerStates]
        /\ seen' \subseteq seen
        /\ worker'["caller"] # "sync"
        /\ removals'["caller"] # {} <=> worker'["caller"] \in {"evict", "purge"}
        /\ \A b \in Agents \ {"caller"} : worker'[b] = worker[b]
           /\ removals'[b] = removals[b]
    BY <1>1, <2>1 DEF WorkerStates
  <2>3. ThreatTypeOK'
    BY <1>1, <2>1, <2>2 DEF ThreatTypeOK, WorkerStates
  <2>4. ASSUME NEW ip \in blocklist' \ (manual' \cup abandoned')
        PROVE  Justified(ip)'
    BY <1>2, <2>1, <2>2 DEF Justified, Tracked
  <2>5. ASSUME NEW ip \in Tracked(ttlMap') \cup seen' PROVE Followed(ip)'
    BY <1>2, <2>1, <2>2 DEF Followed, Tracked
  <2>6. \A ip \in Excluded : KeptOut(ip)'
    BY <1>2, <2>1 DEF KeptOut
  <2>7. QED
    BY <2>3, <2>4, <2>5, <2>6 DEF FeedsInv
<1>11. CASE \E a \in Agents, k \in FeedKeys : RemoveOne(a, k)
            \/ (a = "caller" /\ PurgeOne(k))
  <2>1. PICK a \in Agents, k \in FeedKeys : RemoveOne(a, k)
             \/ (a = "caller" /\ PurgeOne(k))
    BY <1>11
  <2> DEFINE gone == k[1]
  <2>2. gone \in Ips
    BY DEF FeedKeys
  <2>3. /\ worker[a] \in {"evict", "purge"}
        /\ blocklist' = blocklist \ {gone} /\ manual' = manual \ {gone}
        /\ stuck' = stuck \ {gone} /\ abandoned' = abandoned \ {gone}
        /\ overlooked' = overlooked \cup ({gone} \cap (seen \cup Tracked(ttlMap')))
        /\ UNCHANGED <<batch, unsynced>>
    BY <2>1 DEF RemoveOne, PurgeOne, Overlooks, resolver
  <2>4. /\ ttlMap' \in [FeedKeys -> Lives] /\ Tracked(ttlMap') \subseteq Tracked(ttlMap)
        /\ \A ip \in Tracked(ttlMap) : ip \in Tracked(ttlMap') \/ ip = gone
    <3>1. CASE UNCHANGED ttlMap
      BY <1>1, <3>1
    <3>2. CASE ttlMap' = Without(ttlMap, {k})
      <4>1. ttlMap' \in [FeedKeys -> Lives]
        BY <1>1, <3>2 DEF Without, Lives
      <4>2. ASSUME NEW ip \in Ips, NEW f \in Feeds
            PROVE  ttlMap'[<<ip, f>>] = IF <<ip, f>> = k THEN Absent
                       ELSE ttlMap[<<ip, f>>]
        BY <3>2 DEF Without, FeedKeys
      <4>3. \A ip \in Ips, f \in Feeds : <<ip, f>> = k => ip = gone
        OBVIOUS
      <4>4. QED
        BY <4>1, <4>2, <4>3 DEF Tracked
    <3>3. QED
      BY <2>1, <3>1, <3>2 DEF RemoveOne, PurgeOne, resolver
  <2>5. /\ removals' \in [Agents -> SUBSET FeedKeys]
           /\ worker' \in [Agents -> WorkerStates]
        /\ seen' \subseteq seen
        /\ removals'[a] # {} <=> worker'[a] \in {"evict", "purge"}
        /\ worker'[a] # "sync"
        /\ \A b \in Agents \ {a} : worker'[b] = worker[b] /\ removals'[b] = removals[b]
        /\ worker[a] = "evict" => \A j \in removals[a] : j = k \/ j \in removals'[a]
        /\ worker'[a] = worker[a] \/ removals'[a] = {}
    <3>1. CASE RemoveOne(a, k)
      <4>1. removals' = [removals EXCEPT ![a] = removals[a] \ {k}] /\ UNCHANGED seen
        BY <3>1 DEF RemoveOne, resolver
      <4>2. worker' =
                [worker EXCEPT ![a] = IF removals'[a] = {} THEN "idle" ELSE worker[a]]
        BY <1>1, <3>1 DEF RemoveOne, Becomes
      <4>3. QED
        BY <1>1, <2>3, <4>1, <4>2 DEF WorkerStates
    <3>2. CASE a = "caller" /\ PurgeOne(k)
      <4>1. \E left \in SUBSET removals[a] : removals' = [removals EXCEPT ![a] = left]
        BY <1>1, <3>2 DEF PurgeOne
      <4>2. worker' =
                [worker EXCEPT ![a] = IF removals'[a] = {} THEN "idle" ELSE worker[a]]
            /\ worker[a] = "purge" /\ seen' \subseteq seen
        BY <1>1, <3>2 DEF PurgeOne, Becomes
      <4>3. QED
        BY <1>1, <4>1, <4>2 DEF WorkerStates
    <3>3. QED
      BY <2>1, <3>1, <3>2
  <2> HIDE DEF gone
  <2>6. ThreatTypeOK'
    <3>1. overlooked' \subseteq Ips
      BY <1>1, <2>2, <2>3
    <3>2. QED
      BY <1>1, <2>3, <2>4, <2>5, <3>1 DEF ThreatTypeOK, WorkerStates, Lives
  <2>7. ASSUME NEW ip \in blocklist' \ (manual' \cup abandoned')
        PROVE  Justified(ip)'
    <3>1. ip \in blocklist \ (manual \cup abandoned) /\ ip # gone
      BY <2>3
    <3>2. CASE ip \in Tracked(ttlMap) \cup stuck
      BY <2>3, <2>4, <3>1, <3>2 DEF Justified
    <3>3. CASE \E b \in Agents, f \in Feeds : worker[b] = "evict"
               /\ <<ip, f>> \in removals[b]
      <4>1. PICK b \in Agents, f \in Feeds : worker[b] = "evict"
                 /\ <<ip, f>> \in removals[b]
        BY <3>3
      <4>2. <<ip, f>> # k
        BY <3>1 DEF gone
      <4>3. worker'[b] = "evict" /\ <<ip, f>> \in removals'[b]
        BY <2>5, <4>1, <4>2
      <4>4. QED
        BY <4>3 DEF Justified
    <3>4. QED
      BY <1>2, <3>1, <3>2, <3>3 DEF Justified
  <2>8. ASSUME NEW ip \in Tracked(ttlMap') \cup seen' PROVE Followed(ip)'
    <3>1. ip \in Tracked(ttlMap) \cup seen
      BY <2>4, <2>5
    <3>2. CASE ip = gone
      BY <2>3, <2>5, <3>2 DEF Followed
    <3>3. CASE ip # gone /\ ip \in blocklist \cup unsynced \cup overlooked
      BY <2>3, <3>3 DEF Followed
    <3>4. CASE \E b \in Agents : ip \in batch[b]
      BY <2>3, <3>4 DEF Followed
    <3>5. QED
      BY <1>2, <3>1, <3>2, <3>3, <3>4 DEF Followed
  <2>9. \A ip \in Excluded : KeptOut(ip)'
    BY <1>2, <2>3 DEF KeptOut
  <2>10. QED
    BY <2>6, <2>7, <2>8, <2>9 DEF FeedsInv
<1>12. CASE Restart
  <2>1. /\ ttlMap' = [k \in FeedKeys |-> Absent] /\ seen' = {}
        /\ worker' = [a \in Agents |-> "idle"]
        /\ batch' = [a \in Agents |-> {}] /\ removals' = [a \in Agents |-> {}]
        /\ unsynced' = {} /\ stuck' = {} /\ overlooked' = {}
        /\ blocklist' = blocklist /\ manual' = manual
        /\ abandoned' = blocklist \ manual
    BY <1>12 DEF Restart
  <2>2. ttlMap' \in [FeedKeys -> Lives] /\ Tracked(ttlMap') = {}
    BY <2>1 DEF Lives, Tracked, FeedKeys
  <2>3. ThreatTypeOK'
    BY <1>1, <2>1, <2>2 DEF ThreatTypeOK, Lives
  <2>4. \A ip \in Excluded : KeptOut(ip)'
    BY <2>1 DEF KeptOut
  <2>5. blocklist' \ (manual' \cup abandoned') = {}
    BY <2>1
  <2>6. QED
    BY <2>1, <2>2, <2>3, <2>4, <2>5 DEF FeedsInv
<1>13. QED
  <2>1. PurgeBegins \/ (\E k \in FeedKeys : PurgeOne(k)) => "caller" \in Agents
    BY DEF PurgeBegins, PurgeOne
  <2>2. QED
    BY <1>3, <1>4, <1>5, <1>6, <1>7, <1>8, <1>9, <1>10, <1>11, <1>12,
       <2>1 DEF ThreatNext

\* Between two restarts nothing stays blocked by accident: what is blocked and
\* was not put there by an operator has a key or is about to go, but for what a
\* removal or a restart has left; and nothing tracked stays out of the
\* blocklist by accident (IPResolver, ThreatIntelScheduler).
THEOREM BlocklistAlwaysFollows == ThreatSpec => []BlocklistFollowsFeeds
<1>1. FeedsInv => BlocklistFollowsFeeds
  BY DEF FeedsInv, BlocklistFollowsFeeds, Justified, KeptOut, Followed
<1>2. QED
  BY <1>1, FeedsInvInit, FeedsInvStep, PTL DEF ThreatSpec

-----------------------------------------------------------------------------
(* The audit log *)

Line == [prev : Seq(Nat), entry : Nat, chain : Seq(Nat)]

\* The types that the proofs rest on; a changed line holds Forged.
LogTyped ==
    /\ rotationSize \in Nat
    /\ chainHash \in Seq(Nat)
    /\ waiting \in Seq(Line)
    /\ ~asyncWrite => waiting = <<>>
    /\ logFile \in Seq(Line)
    /\ backups \in [1..LastBackup -> Seq(Line)]
    /\ entries \in Nat
    /\ written \in Seq(Nat)
    /\ gaps \in Nat
    /\ tampered \in BOOLEAN

\* A chain of lines, all from entries up to n, that goes on with the hash h.
\* The entries in G follow a gap: the link to what is before them is broken.
Chained(s, h, n, G) ==
    /\ \A i \in 1..Len(s) :
           /\ s[i].chain = Append(s[i].prev, s[i].entry)
           /\ s[i].entry \in 1..n
           /\ \/ s[i].entry \in G
              \/ s[i].prev = IF i = 1 THEN Genesis ELSE s[i - 1].chain
    /\ \A i, j \in 1..Len(s) : i < j => s[i].entry < s[j].entry
    /\ n + 1 \in G \/ h = IF Len(s) = 0 THEN Genesis ELSE s[Len(s)].chain

\* No more than g entries follow a gap.
FewGaps(s, h, n, g) ==
    \E G \in SUBSET (1..n + 1) : Cardinality(G) <= g /\ Chained(s, h, n, G)

\* The lines of the file and those that wait are one chain.
GapsCounted ==
    ~tampered =>
        \E s, h, n, g : /\ s = logFile \o waiting /\ h = chainHash
                        /\ n = entries /\ g = gaps
                        /\ FewGaps(s, h, n, g)

\* The hash of the first n entries.
Upto(n) == [i \in 1..n |-> i]

\* What the lines of a log without gaps have been since they were written: the
\* hash of a line tells which it was, and the last is still there.
Evident(f, w, changed) ==
    /\ Len(f) <= w
    /\ \A i \in 1..Len(f) :
           \E m \in 1..w : /\ f[i].prev = Upto(m - 1) /\ f[i].chain = Upto(m)
                           /\ f[i].entry \in {m, Forged}
    /\ \A i, j \in 1..Len(f) : i < j => Len(f[i].chain) < Len(f[j].chain)
    /\ w > 0 => Len(f) > 0 /\ Len(f[Len(f)].chain) = w
    /\ changed => Len(f) < w \/ \E i \in 1..Len(f) : f[i].entry = Forged

ChangesEvident ==
    gaps = 0 =>
        /\ chainHash = Upto(entries)
        /\ Len(written) + Len(waiting) = entries
        /\ \A i \in 1..Len(waiting) :
               waiting[i] = Linked(Upto(Len(written) + i - 1), Len(written) + i)
        /\ \E f, w, changed : /\ f = logFile /\ w = Len(written)
                              /\ changed = tampered
                              /\ Evident(f, w, changed)

\* One more element adds at most one to a set of entries.
LEMMA OneGapMore ==
    ASSUME NEW n \in Nat, NEW G \in SUBSET (1..n + 1), NEW e
    PROVE  /\ Cardinality(G) \in Nat
           /\ Cardinality(G \cup {e}) <= Cardinality(G) + 1
<1>1. IsFiniteSet(1..n + 1)
  BY FS_Interval
<1>2. IsFiniteSet(G)
  BY <1>1, FS_Subset
<1>3. Cardinality(G) \in Nat
  BY <1>2, FS_CardinalityType
<1>4. Cardinality(G \cup {e}) = IF e \in G THEN Cardinality(G) ELSE Cardinality(G) + 1
  BY <1>2, FS_AddElement
<1>5. QED
  BY <1>3, <1>4

\* A new entry goes to the end of the chain.
LEMMA ChainGrows ==
    ASSUME NEW s \in Seq(Line), NEW h \in Seq(Nat), NEW n \in Nat,
           NEW G \in SUBSET (1..n + 1), Chained(s, h, n, G),
           NEW t \in Seq(Line), Len(t) = Len(s) + 1,
           \A i \in 1..Len(s) : t[i] = s[i],
           t[Len(s) + 1] = Linked(h, n + 1)
    PROVE  G \in SUBSET (1..n + 1 + 1) /\ Chained(t, Append(h, n + 1), n + 1, G)
<1> DEFINE l == Linked(h, n + 1)
<1>1. Len(s) \in Nat /\ Len(t) \in Nat
  BY LenProperties
<1>2. l.prev = h /\ l.entry = n + 1 /\ l.chain = Append(h, n + 1)
  BY DEF Linked
<1> HIDE DEF l
<1>3. t[Len(s) + 1] = l
  BY DEF l
<1>4. ASSUME NEW i \in 1..Len(t)
      PROVE  /\ t[i].chain = Append(t[i].prev, t[i].entry)
             /\ t[i].entry \in 1..n + 1
             /\ \/ t[i].entry \in G
                \/ t[i].prev = IF i = 1 THEN Genesis ELSE t[i - 1].chain
  <2>1. CASE i \in 1..Len(s)
    <3>1. /\ s[i].chain = Append(s[i].prev, s[i].entry)
          /\ s[i].entry \in 1..n
          /\ \/ s[i].entry \in G
             \/ s[i].prev = IF i = 1 THEN Genesis ELSE s[i - 1].chain
      BY <2>1 DEF Chained
    <3>2. t[i] = s[i] /\ (i # 1 => t[i - 1] = s[i - 1])
      <4>1. t[i] = s[i]
        BY <2>1
      <4>2. i # 1 => i - 1 \in 1..Len(s)
        BY ONLY <1>1, <2>1
      <4>3. QED
        BY <4>1, <4>2
    <3>3. QED
      BY <3>1, <3>2
  <2>2. CASE i = Len(s) + 1
    <3>1. n + 1 \in G \/ h = IF Len(s) = 0 THEN Genesis ELSE s[Len(s)].chain
      BY DEF Chained
    <3>2. t[i] = l /\ (i # 1 => t[i - 1] = s[Len(s)]) /\ (i = 1 <=> Len(s) = 0)
      <4>1. t[i] = l /\ (i = 1 <=> Len(s) = 0)
        BY <1>1, <1>3, <2>2
      <4>2. i # 1 => i - 1 = Len(s) /\ Len(s) \in 1..Len(s)
        BY <1>1, <2>2
      <4>3. QED
        BY <4>1, <4>2
    <3>3. t[i].chain = Append(t[i].prev, t[i].entry) /\ t[i].entry \in 1..n + 1
      <4>1. t[i].entry = n + 1 /\ t[i].prev = h /\ t[i].chain = Append(h, n + 1)
        BY <1>2, <3>2
      <4>2. n + 1 \in 1..n + 1
        OBVIOUS
      <4>3. QED
        BY ONLY <4>1, <4>2
    <3>4. CASE i = 1
      BY <1>2, <3>1, <3>2, <3>3, <3>4
    <3>5. CASE i # 1
      BY <1>2, <3>1, <3>2, <3>3, <3>5
    <3>6. QED
      BY <3>4, <3>5
  <2>3. QED
    BY <1>1, <2>1, <2>2
<1>5. ASSUME NEW i \in 1..Len(t), NEW j \in 1..Len(t), i < j
      PROVE  t[i].entry < t[j].entry
  <2>1. i \in 1..Len(s) /\ t[i] = s[i] /\ s[i].entry \in 1..n
    BY <1>1, <1>5 DEF Chained
  <2>2. CASE j \in 1..Len(s)
    BY <1>5, <2>1, <2>2 DEF Chained
  <2>3. CASE j = Len(s) + 1
    BY <1>2, <1>3, <2>1, <2>3
  <2>4. QED
    BY <1>1, <2>2, <2>3
<1>6. Append(h, n + 1) = IF Len(t) = 0 THEN Genesis ELSE t[Len(t)].chain
  BY <1>1, <1>2, <1>3
<1>7. QED
  BY <1>4, <1>5, <1>6 DEF Chained

\* An entry that never becomes a line leaves a gap before the next.
LEMMA ChainSkips ==
    ASSUME NEW s, NEW h, NEW k, NEW n \in Nat, NEW G, Chained(s, h, n, G)
    PROVE  Chained(s, k, n + 1, G \cup {n + 1 + 1})
BY DEF Chained

\* A chain without one of its lines: the gap is before what comes next.
LEMMA ChainLoses ==
    ASSUME NEW s \in Seq(Line), NEW h, NEW n \in Nat,
           NEW G \in SUBSET (1..n + 1), Chained(s, h, n, G), NEW k \in 1..Len(s),
           NEW t \in Seq(Line), Len(t) = Len(s) - 1,
           \A j \in 1..Len(s) - 1 : t[j] = IF j < k THEN s[j] ELSE s[j + 1]
    PROVE  \E e \in 1..n + 1 : Chained(t, h, n, G \cup {e})
<1>1. Len(s) \in Nat /\ Len(t) \in Nat /\ k \in Nat /\ 1 <= k /\ k <= Len(s)
  BY LenProperties
<1> DEFINE e == IF k = Len(s) THEN n + 1 ELSE s[k + 1].entry
           H == G \cup {e}
<1>2. e \in 1..n + 1
  <2>1. CASE k = Len(s)
    BY <2>1
  <2>2. CASE k # Len(s)
    <3>1. k + 1 \in 1..Len(s)
      BY <1>1, <2>2
    <3>2. s[k + 1].entry \in 1..n
      BY <3>1 DEF Chained
    <3>3. QED
      BY <2>2, <3>2
  <2>3. QED
    BY <2>1, <2>2
<1>3. k < Len(s) => s[k + 1].entry \in H
  BY <1>1
<1>4. k = Len(s) => n + 1 \in H
  OBVIOUS
<1>5. G \subseteq H
  OBVIOUS
<1> HIDE DEF e, H
<1>6. ASSUME NEW i \in 1..Len(t)
      PROVE  /\ t[i].chain = Append(t[i].prev, t[i].entry)
             /\ t[i].entry \in 1..n
             /\ \/ t[i].entry \in H
                \/ t[i].prev = IF i = 1 THEN Genesis ELSE t[i - 1].chain
  <2>1. CASE i < k
    <3>1. /\ i \in 1..Len(s) /\ i \in 1..Len(s) - 1
          /\ i # 1 => i - 1 < k /\ i - 1 \in 1..Len(s) - 1
      BY <1>1, <2>1
    <3>2. t[i] = s[i] /\ (i # 1 => t[i - 1] = s[i - 1])
      BY <2>1, <3>1
    <3>3. QED
      BY <1>5, <3>1, <3>2 DEF Chained
  <2>2. CASE i = k
    <3>1. i + 1 \in 1..Len(s) /\ t[i] = s[i + 1] /\ k < Len(s)
      BY <1>1, <2>2
    <3>2. QED
      BY <1>3, <2>2, <3>1 DEF Chained
  <2>3. CASE k < i
    <3>1. /\ i + 1 \in 1..Len(s) /\ t[i] = s[i + 1]
          /\ i # 1 /\ t[i - 1] = s[i] /\ i + 1 # 1 /\ i + 1 - 1 = i
      BY <1>1, <2>3
    <3>2. QED
      BY <1>5, <3>1 DEF Chained
  <2>4. QED
    BY <1>1, <2>1, <2>2, <2>3
<1>7. ASSUME NEW i \in 1..Len(t), NEW j \in 1..Len(t), i < j
      PROVE  t[i].entry < t[j].entry
  <2> DEFINE a == IF i < k THEN i ELSE i + 1
             b == IF j < k THEN j ELSE j + 1
  <2>1. a \in 1..Len(s) /\ b \in 1..Len(s) /\ a < b
    BY <1>1, <1>7
  <2>2. t[i] = s[a] /\ t[j] = s[b]
    BY <1>1
  <2> HIDE DEF a, b
  <2>3. QED
    BY <2>1, <2>2 DEF Chained
<1>8. n + 1 \in H \/ h = IF Len(t) = 0 THEN Genesis ELSE t[Len(t)].chain
  <2>1. CASE k = Len(s)
    BY <1>4, <2>1
  <2>2. CASE k < Len(s)
    <3>1. Len(s) # 0 /\ Len(t) # 0 /\ Len(t) \in 1..Len(s) - 1 /\ ~(Len(t) < k)
      BY <1>1, <2>2
    <3>2. t[Len(t)] = s[Len(s)]
      BY <1>1, <3>1
    <3>3. QED
      BY <1>5, <3>1, <3>2 DEF Chained
  <2>3. QED
    BY <1>1, <2>1, <2>2
<1>9. Chained(t, h, n, H)
  BY <1>6, <1>7, <1>8 DEF Chained
<1>10. QED
  BY <1>2, <1>9 DEF H

\* What s holds after its first k elements.
IsEndOf(t, s, k) ==
    /\ k \in 0..Len(s) - 1 /\ Len(t) = Len(s) - k
    /\ \A j \in 1..Len(t) : t[j] = s[k + j]

\* The end of a chain is one too.
LEMMA ChainRotates ==
    ASSUME NEW s \in Seq(Line), NEW h, NEW n \in Nat,
           NEW G \in SUBSET (1..n + 1), Chained(s, h, n, G),
           NEW t \in Seq(Line), NEW k, IsEndOf(t, s, k)
    PROVE  \E e \in 1..n + 1 : Chained(t, h, n, G \cup {e})
<1>1. Len(s) \in Nat /\ Len(t) \in Nat /\ k \in Nat /\ k < Len(s)
  BY LenProperties DEF IsEndOf
<1>2. /\ Len(t) = Len(s) - k
      /\ \A j \in 1..Len(t) : t[j] = s[k + j]
  BY DEF IsEndOf
<1>3. k + 1 \in 1..Len(s) /\ t[1] = s[k + 1] /\ s[k + 1].entry \in 1..n
  BY <1>1, <1>2 DEF Chained
<1> DEFINE H == G \cup {s[k + 1].entry}
<1>4. ASSUME NEW i \in 1..Len(t)
      PROVE  /\ t[i].chain = Append(t[i].prev, t[i].entry)
             /\ t[i].entry \in 1..n
             /\ \/ t[i].entry \in H
                \/ t[i].prev = IF i = 1 THEN Genesis ELSE t[i - 1].chain
  <2>1. k + i \in 1..Len(s) /\ t[i] = s[k + i]
    BY <1>1, <1>2
  <2>2. /\ s[k + i].chain = Append(s[k + i].prev, s[k + i].entry)
        /\ s[k + i].entry \in 1..n
        /\ \/ s[k + i].entry \in G
           \/ s[k + i].prev = IF k + i = 1 THEN Genesis ELSE s[k + i - 1].chain
    <3> DEFINE Links(m) ==
                   /\ s[m].chain = Append(s[m].prev, s[m].entry)
                   /\ s[m].entry \in 1..n
                   /\ \/ s[m].entry \in G
                      \/ s[m].prev = IF m = 1 THEN Genesis ELSE s[m - 1].chain
    <3>1. \A m \in 1..Len(s) : Links(m)
      BY DEF Chained
    <3> HIDE DEF Links
    <3>2. Links(k + i)
      BY ONLY <2>1, <3>1
    <3>3. k \in Int /\ i \in Int /\ (k + i) - 1 = k + i - 1
      BY <1>1
    <3>4. QED
      BY ONLY <3>2, <3>3 DEF Links
  <2>3. CASE i = 1
    BY <1>1, <1>3, <2>1, <2>2, <2>3
  <2>4. CASE i # 1
    <3>1. k + i # 1 /\ t[i - 1] = s[k + i - 1]
      <4>1. i - 1 \in 1..Len(t) /\ k + (i - 1) = k + i - 1 /\ k + i # 1
        BY <1>1, <2>4
      <4>2. QED
        BY <1>2, <4>1
    <3>2. QED
      BY <2>1, <2>2, <2>4, <3>1
  <2>5. QED
    BY <2>3, <2>4
<1>5. ASSUME NEW i \in 1..Len(t), NEW j \in 1..Len(t), i < j
      PROVE  t[i].entry < t[j].entry
  <2>1. k + i \in 1..Len(s) /\ k + j \in 1..Len(s) /\ k + i < k + j
    BY <1>1, <1>2, <1>5
  <2>2. QED
    BY <1>1, <1>2, <2>1 DEF Chained
<1>6. n + 1 \in G \/ h = IF Len(t) = 0 THEN Genesis ELSE t[Len(t)].chain
  <2>1. Len(s) # 0 /\ Len(t) # 0 /\ Len(t) \in 1..Len(t) /\ k + Len(t) = Len(s)
    BY <1>1, <1>2
  <2>2. t[Len(t)] = s[Len(s)]
    BY <1>2, <2>1
  <2>3. QED
    BY <2>1, <2>2 DEF Chained
<1>7. Chained(t, h, n, H)
  BY <1>4, <1>5, <1>6 DEF Chained
<1>8. s[k + 1].entry \in 1..n + 1
  BY <1>3
<1>9. QED
  BY <1>7, <1>8 DEF H

\* The beginning of a chain, after which the logger starts at genesis again.
LEMMA ChainRestarts ==
    ASSUME NEW s \in Seq(Line), NEW h, NEW n \in Nat, NEW G, Chained(s, h, n, G),
           NEW t \in Seq(Line), Len(t) <= Len(s),
           \A j \in 1..Len(t) : t[j] = s[j]
    PROVE  Chained(t, Genesis, n, G \cup {n + 1})
<1>1. Len(s) \in Nat /\ Len(t) \in Nat
  BY LenProperties
<1>2. ASSUME NEW i \in 1..Len(t)
      PROVE  /\ t[i].chain = Append(t[i].prev, t[i].entry)
             /\ t[i].entry \in 1..n
             /\ \/ t[i].entry \in G
                \/ t[i].prev = IF i = 1 THEN Genesis ELSE t[i - 1].chain
  <2>1. i \in 1..Len(s) /\ t[i] = s[i] /\ (i # 1 => t[i - 1] = s[i - 1])
    BY <1>1
  <2>2. QED
    BY <2>1 DEF Chained
<1>3. ASSUME NEW i \in 1..Len(t), NEW j \in 1..Len(t), i < j
      PROVE  t[i].entry < t[j].entry
  <2>1. i \in 1..Len(s) /\ j \in 1..Len(s)
    BY <1>1
  <2>2. QED
    BY <1>3, <2>1 DEF Chained
<1>4. QED
  BY <1>2, <1>3 DEF Chained

-----------------------------------------------------------------------------
(* Types of the audit log *)

LEMMA LinkedTyped ==
    ASSUME NEW h \in Seq(Nat), NEW n \in Nat
    PROVE  /\ Linked(h, n) \in Line /\ Linked(h, n).prev = h
           /\ Linked(h, n).entry = n /\ Linked(h, n).chain = Append(h, n)
<1>1. Append(h, n) \in Seq(Nat)
  BY AppendProperties
<1>2. QED
  BY <1>1 DEF Linked, Line

LEMMA LogTypedInit == AuditInit => LogTyped
<1> SUFFICES ASSUME AuditInit PROVE LogTyped
  OBVIOUS
<1>1. <<>> \in Seq(Nat) /\ <<>> \in Seq(Line)
  BY EmptySeq
<1>2. QED
  BY <1>1, AuditAssumption DEF AuditInit, LogTyped, Genesis

\* What writing a line leaves in the file, in all three ways of getting there.
LEMMA WriteTyped ==
    ASSUME LogTyped, NEW l \in Line, WriteLine(l)
    PROVE  /\ logFile' \in Seq(Line) /\ backups' \in [1..LastBackup -> Seq(Line)]
           /\ written' \in Seq(Nat) /\ gaps' \in Nat
<1>1. /\ <<l>> \in Seq(Line) /\ Append(logFile, l) \in Seq(Line)
  BY AppendProperties DEF LogTyped
<1>2. l.entry \in Nat
  BY DEF Line
<1>3. Append(written, l.entry) \in Seq(Nat)
  BY <1>2, AppendProperties DEF LogTyped
<1>4. Shifted \in [1..LastBackup -> Seq(Line)]
  <2>1. ASSUME NEW i \in 1..LastBackup
        PROVE  (IF i = 1 THEN logFile ELSE backups[i - 1]) \in Seq(Line)
    <3>1. LastBackup \in Nat
      BY AuditAssumption DEF LastBackup
    <3>2. i # 1 => i - 1 \in 1..LastBackup
      BY <3>1
    <3>3. QED
      BY <3>2 DEF LogTyped
  <2>2. QED
    BY <2>1 DEF Shifted
<1>5. gaps \in Nat /\ gaps + 1 \in Nat /\ backups \in [1..LastBackup -> Seq(Line)]
  BY DEF LogTyped
<1>6. written' = Append(written, l.entry)
  BY DEF WriteLine
<1>7. CASE Rotates
  BY <1>1, <1>3, <1>4, <1>5, <1>6, <1>7 DEF WriteLine
<1>8. CASE ~Rotates
  BY <1>1, <1>3, <1>5, <1>6, <1>8 DEF WriteLine
<1>9. QED
  BY <1>7, <1>8

LEMMA LogTypedStep == LogTyped /\ [AuditNext]_auditVars => LogTyped'
<1> SUFFICES ASSUME LogTyped, [AuditNext]_auditVars
             PROVE  LogTyped'
  OBVIOUS
<1>1. CASE UNCHANGED auditVars
  BY <1>1 DEF auditVars, options, memory, disk, LogTyped
<1>2. CASE LogEntry
  <2> DEFINE l == Linked(chainHash, entries + 1)
  <2>1. l \in Line /\ l.chain \in Seq(Nat)
    <3>1. chainHash \in Seq(Nat) /\ entries + 1 \in Nat
      BY DEF LogTyped
    <3>2. l \in Line
      BY <3>1, LinkedTyped
    <3>3. QED
      BY <3>2 DEF Line
  <2>2. CASE asyncWrite
    <3>1. /\ UNCHANGED <<rotationSize, asyncWrite, logFile, backups, written, gaps,
                         tampered>>
          /\ chainHash' = l.chain /\ entries' = entries + 1
          /\ waiting' = Append(waiting, l)
      BY <1>2, <2>2 DEF LogEntry, options, disk
    <3> HIDE DEF l
    <3>2. Append(waiting, l) \in Seq(Line)
      BY <2>1, AppendProperties DEF LogTyped
    <3>3. QED
      BY <2>1, <2>2, <3>1, <3>2 DEF LogTyped
  <2>3. CASE ~asyncWrite
    <3>1. /\ UNCHANGED <<rotationSize, asyncWrite, waiting, tampered>>
          /\ chainHash' = l.chain /\ entries' = entries + 1
          /\ WriteLine(l)
      BY <1>2, <2>3 DEF LogEntry, options
    <3> HIDE DEF l
    <3>2. QED
      BY <2>1, <3>1, WriteTyped DEF LogTyped
  <2>4. QED
    BY <2>2, <2>3
<1>3. CASE LogFails
  <2>1. Append(chainHash, entries + 1) \in Seq(Nat)
    BY AppendProperties DEF LogTyped
  <2>2. QED
    BY <1>3, <2>1 DEF LogFails, options, disk, LogTyped
<1>4. CASE WriteAsync
  <2>1. /\ waiting # <<>> /\ WriteLine(Head(waiting)) /\ waiting' = Tail(waiting)
        /\ UNCHANGED <<rotationSize, asyncWrite, chainHash, entries, tampered>>
    BY <1>4 DEF WriteAsync, options
  <2>2. Head(waiting) \in Line /\ Tail(waiting) \in Seq(Line)
    BY <2>1, HeadTailProperties DEF LogTyped
  <2>3. QED
    BY <2>1, <2>2, WriteTyped DEF LogTyped
<1>5. CASE LoseLine
  <2>1. PICK i \in 1..Len(waiting) : waiting' = RemoveAt(waiting, i)
    BY <1>5 DEF LoseLine
  <2>2. waiting' \in Seq(Line)
    <3>1. RemoveAt(waiting, i) = WithoutAt(waiting, i)
      BY DEF RemoveAt, WithoutAt
    <3>2. QED
      BY <2>1, <3>1, RemovedOne DEF LogTyped
  <2>3. asyncWrite
    <3>1. waiting # <<>>
      BY <2>1
    <3>2. QED
      BY <3>1 DEF LogTyped
  <2>4. QED
    BY <1>5, <2>2, <2>3 DEF LoseLine, options, disk, LogTyped
<1>6. CASE RestartLogger
  <2>1. <<>> \in Seq(Nat) /\ <<>> \in Seq(Line)
    BY EmptySeq
  <2>2. QED
    BY <1>6, <2>1 DEF RestartLogger, options, disk, LogTyped, Genesis
<1>7. CASE Tamper
  <2>1. PICK i \in 1..Len(logFile) :
            \/ logFile' = [logFile EXCEPT ![i].entry = Forged]
            \/ i < Len(logFile) /\ logFile' = RemoveAt(logFile, i)
    BY <1>7 DEF Tamper
  <2>2. logFile' \in Seq(Line)
    <3>1. RemoveAt(logFile, i) \in Seq(Line)
      <4>1. RemoveAt(logFile, i) = WithoutAt(logFile, i)
        BY DEF RemoveAt, WithoutAt
      <4>2. QED
        BY <4>1, RemovedOne DEF LogTyped
    <3>2. logFile[i] \in Line
      BY ElementOfSeq DEF LogTyped
    <3>3. [logFile[i] EXCEPT !.entry = Forged] \in Line
      BY <3>2 DEF Line, Forged
    <3>4. [logFile EXCEPT ![i] = [logFile[i] EXCEPT !.entry = Forged]] \in Seq(Line)
      BY <3>3, ExceptSeq DEF LogTyped
    <3>5. QED
      BY <2>1, <3>1, <3>4
  <2>3. QED
    BY <1>7, <2>2 DEF Tamper, options, memory, LogTyped
<1>8. QED
  BY <1>1, <1>2, <1>3, <1>4, <1>5, <1>6, <1>7 DEF AuditNext

\* The bounds of the model: its entries, its restarts, and the size that a file
\* keeps because it is looked at before each line.
AuditBounded ==
    /\ rotationSize \in RotationSizes
    /\ asyncWrite \in BOOLEAN
    /\ chainHash \in Seq(1..MaxEntries)
    /\ \A i \in 1..Len(waiting) : waiting[i].entry \in 1..entries
    /\ entries <= MaxEntries
    /\ rotationSize > 0 => Len(logFile) <= rotationSize
    /\ restarts \in 0..MaxRestarts

AuditInv == LogTyped /\ AuditBounded

LEMMA FileBounded ==
    ASSUME AuditInv, NEW l, WriteLine(l), UNCHANGED rotationSize
    PROVE  rotationSize' > 0 => Len(logFile') <= rotationSize'
<1>1. rotationSize \in Nat /\ logFile \in Seq(Line)
  BY DEF AuditInv, LogTyped
<1>2. CASE Rotates
  <2>1. Len(logFile') = 1
    BY <1>2 DEF WriteLine
  <2>2. QED
    BY <1>1, <2>1
<1>3. CASE ~Rotates
  <2>1. logFile' = Append(logFile, l)
    BY <1>3 DEF WriteLine
  <2>2. Len(logFile') = Len(logFile) + 1 /\ Len(logFile) \in Nat
    BY <1>1, <2>1
  <2>3. rotationSize > 0 => Len(logFile) < rotationSize
    BY <1>1, <1>3, <2>2 DEF Rotates
  <2>4. QED
    BY <1>1, <2>2, <2>3
<1>4. QED
  BY <1>2, <1>3

LEMMA AuditInvInit == AuditInit => AuditInv
<1> SUFFICES ASSUME AuditInit PROVE AuditInv
  OBVIOUS
<1>1. <<>> \in Seq(1..MaxEntries)
  OBVIOUS
<1>2. /\ chainHash \in Seq(1..MaxEntries) /\ entries = 0 /\ restarts = 0
      /\ rotationSize \in RotationSizes /\ asyncWrite \in BOOLEAN
      /\ waiting = <<>> /\ logFile = <<>>
  BY <1>1 DEF AuditInit, Genesis
<1>3. Len(waiting) = 0 /\ Len(logFile) = 0
  BY <1>2
<1>4. /\ MaxEntries \in Nat /\ MaxRestarts \in Nat /\ rotationSize \in Nat
      /\ 1..Len(waiting) = {}
  BY <1>2, <1>3, AuditAssumption
<1>5. AuditBounded
  BY <1>2, <1>3, <1>4 DEF AuditBounded
<1>6. QED
  BY <1>5, LogTypedInit DEF AuditInv

LEMMA AuditInvStep == AuditInv /\ [AuditNext]_auditVars => AuditInv'
<1> SUFFICES ASSUME AuditInv, [AuditNext]_auditVars
             PROVE  AuditInv'
  OBVIOUS
<1>1. LogTyped'
  BY LogTypedStep DEF AuditInv
<1>2. /\ LogTyped /\ AuditBounded
      /\ waiting \in Seq(Line) /\ Len(waiting) \in Nat /\ logFile \in Seq(Line)
      /\ entries \in Nat /\ rotationSize \in Nat /\ Len(logFile) \in Nat
      /\ MaxEntries \in Nat /\ MaxRestarts \in Nat
  BY AuditAssumption DEF AuditInv, LogTyped
<1>3. CASE UNCHANGED auditVars
  BY <1>1, <1>2, <1>3 DEF auditVars, options, memory, disk, AuditInv, AuditBounded
<1>4. ASSUME entries < MaxEntries, entries' = entries + 1
      PROVE  /\ Append(chainHash, entries + 1) \in Seq(1..MaxEntries)
             /\ entries' <= MaxEntries
             /\ \A i \in 1..Len(waiting) : waiting[i].entry \in 1..entries'
  <2>1. entries + 1 \in 1..MaxEntries
    BY <1>2, <1>4
  <2>2. Append(chainHash, entries + 1) \in Seq(1..MaxEntries)
    BY <1>2, <2>1, AppendProperties DEF AuditBounded
  <2>3. 1..entries \subseteq 1..entries'
    BY <1>2, <1>4
  <2>4. QED
    BY <1>2, <1>4, <2>1, <2>2, <2>3 DEF AuditBounded
<1>5. CASE LogEntry
  <2> DEFINE l == Linked(chainHash, entries + 1)
  <2>1. l.entry = entries + 1 /\ l.chain = Append(chainHash, entries + 1)
    BY DEF Linked
  <2>2. /\ entries < MaxEntries /\ entries' = entries + 1 /\ chainHash' = l.chain
        /\ UNCHANGED <<rotationSize, asyncWrite, restarts>>
        /\ IF asyncWrite
           THEN waiting' = Append(waiting, l) /\ UNCHANGED logFile
           ELSE WriteLine(l) /\ UNCHANGED waiting
    BY <1>5 DEF LogEntry, options, disk
  <2> HIDE DEF l
  <2>3. rotationSize' > 0 => Len(logFile') <= rotationSize'
    BY <1>2, <2>2, FileBounded DEF AuditInv, AuditBounded
  <2>4. \A i \in 1..Len(waiting') : waiting'[i].entry \in 1..entries'
    <3>1. CASE asyncWrite
      <4> TAKE i \in 1..Len(waiting')
      <4>1. waiting' = Append(waiting, l)
        BY <2>2, <3>1
      <4>2. Len(waiting') = Len(waiting) + 1
        BY <1>2, <4>1
      <4>3. CASE i = Len(waiting) + 1
        <5>1. waiting'[i] = l
          BY <1>2, <4>1, <4>3
        <5>2. QED
          BY <1>2, <2>1, <2>2, <5>1
      <4>4. CASE i # Len(waiting) + 1
        <5>1. i \in 1..Len(waiting)
          BY <1>2, <4>2, <4>4
        <5>2. waiting'[i] = waiting[i]
          BY <1>2, <4>1, <5>1
        <5>3. QED
          BY <1>4, <2>2, <5>1, <5>2
      <4>5. QED
        BY <4>3, <4>4
    <3>2. CASE ~asyncWrite
      BY <1>4, <2>2, <3>2
    <3>3. QED
      BY <3>1, <3>2
  <2>5. chainHash' \in Seq(1..MaxEntries) /\ entries' <= MaxEntries
    BY <1>4, <2>1, <2>2
  <2>6. QED
    BY <1>1, <1>2, <2>2, <2>3, <2>4, <2>5 DEF AuditInv, AuditBounded
<1>6. CASE LogFails
  <2>1. /\ entries < MaxEntries /\ entries' = entries + 1
        /\ chainHash' = Append(chainHash, entries + 1)
        /\ UNCHANGED <<rotationSize, asyncWrite, restarts, waiting, logFile>>
    BY <1>6 DEF LogFails, options, disk
  <2>2. QED
    BY <1>1, <1>2, <1>4, <2>1 DEF AuditInv, AuditBounded
<1>7. CASE WriteAsync
  <2>1. /\ waiting # <<>> /\ WriteLine(Head(waiting)) /\ waiting' = Tail(waiting)
        /\ UNCHANGED <<rotationSize, asyncWrite, chainHash, entries, restarts>>
    BY <1>7 DEF WriteAsync, options
  <2>2. rotationSize' > 0 => Len(logFile') <= rotationSize'
    BY <2>1, FileBounded
  <2>3. \A i \in 1..Len(waiting') : waiting'[i].entry \in 1..entries'
    <3> TAKE i \in 1..Len(waiting')
    <3>1. /\ Len(waiting') = Len(waiting) - 1
          /\ i + 1 \in 1..Len(waiting) /\ waiting'[i] = waiting[i + 1]
      BY <1>2, <2>1
    <3>2. QED
      BY <1>2, <2>1, <3>1 DEF AuditBounded
  <2>4. QED
    BY <1>1, <1>2, <2>1, <2>2, <2>3 DEF AuditInv, AuditBounded
<1>8. CASE LoseLine
  <2>1. PICK i \in 1..Len(waiting) : waiting' = RemoveAt(waiting, i)
    BY <1>8 DEF LoseLine
  <2>2. UNCHANGED <<rotationSize, asyncWrite, chainHash, logFile, entries, restarts>>
    BY <1>8 DEF LoseLine, options, disk
  <2>3. waiting' = WithoutAt(waiting, i)
    BY <2>1 DEF RemoveAt, WithoutAt
  <2>4. \A j \in 1..Len(waiting') : waiting'[j].entry \in 1..entries'
    <3> TAKE j \in 1..Len(waiting')
    <3>1. /\ Len(waiting') = Len(waiting) - 1
          /\ waiting'[j] = IF j < i THEN waiting[j] ELSE waiting[j + 1]
      <4>1. /\ Len(WithoutAt(waiting, i)) = Len(waiting) - 1
            /\ \A k \in 1..Len(waiting) - 1 :
                   WithoutAt(waiting, i)[k] =
                       IF k < i THEN waiting[k] ELSE waiting[k + 1]
        BY ONLY <1>2, <2>1, RemovedOne
      <4>2. QED
        BY <2>3, <4>1
    <3>2. PICK k \in 1..Len(waiting) : waiting'[j] = waiting[k]
      <4>1. j \in 1..Len(waiting) /\ (~(j < i) => j + 1 \in 1..Len(waiting))
        BY <1>2, <3>1
      <4>2. QED
        BY <3>1, <4>1
    <3>3. QED
      BY <1>2, <2>2, <3>2 DEF AuditBounded
  <2>5. QED
    BY <1>1, <1>2, <2>2, <2>4 DEF AuditInv, AuditBounded
<1>9. CASE RestartLogger
  <2>1. /\ restarts < MaxRestarts /\ restarts' = restarts + 1
        /\ chainHash' = <<>> /\ waiting' = <<>>
        /\ UNCHANGED <<rotationSize, asyncWrite, logFile, entries>>
    BY <1>9 DEF RestartLogger, options, disk, Genesis
  <2>2. /\ restarts' \in 0..MaxRestarts /\ Len(waiting') = 0
        /\ chainHash' \in Seq(1..MaxEntries)
    BY <1>2, <2>1 DEF AuditBounded
  <2>3. QED
    BY <1>1, <1>2, <2>1, <2>2 DEF AuditInv, AuditBounded
<1>10. CASE Tamper
  <2>1. PICK i \in 1..Len(logFile) :
            \/ logFile' = [logFile EXCEPT ![i].entry = Forged]
            \/ i < Len(logFile) /\ logFile' = RemoveAt(logFile, i)
    BY <1>10 DEF Tamper
  <2>2. UNCHANGED <<rotationSize, asyncWrite, chainHash, waiting, entries, restarts>>
    BY <1>10 DEF Tamper, options, memory
  <2>3. Len(logFile') <= Len(logFile) /\ Len(logFile') \in Nat
    <3>1. CASE logFile' = RemoveAt(logFile, i)
      <4>1. logFile' = WithoutAt(logFile, i)
        BY <3>1 DEF RemoveAt, WithoutAt
      <4>2. QED
        BY <1>2, <4>1, RemovedOne
    <3>2. CASE logFile' = [logFile EXCEPT ![i].entry = Forged]
      <4>1. Len(logFile') = Len(logFile)
        BY <1>1, <1>2, <3>2 DEF LogTyped
      <4>2. QED
        BY <1>2, <4>1
    <3>3. QED
      BY <2>1, <3>1, <3>2
  <2>4. QED
    BY <1>1, <1>2, <2>2, <2>3 DEF AuditInv, AuditBounded
<1>11. QED
  BY <1>3, <1>5, <1>6, <1>7, <1>8, <1>9, <1>10 DEF AuditNext

LEMMA AuditInvTypes == AuditInv => AuditTypeOK
BY AuditAssumption DEF AuditInv, LogTyped, AuditBounded, AuditTypeOK

-----------------------------------------------------------------------------
(* What verify_integrity() reports of a file nobody touched *)

\* The line at the head of the queue goes from there to the end of the file.
LEMMA HeadWritten ==
    ASSUME NEW f \in Seq(Line), NEW w \in Seq(Line), w # <<>>
    PROVE  /\ Head(w) \in Line /\ Tail(w) \in Seq(Line)
           /\ Append(f, Head(w)) \o Tail(w) = f \o w
           /\ <<Head(w)>> \o Tail(w) = w
<1>1. /\ Head(w) \in Line /\ Tail(w) \in Seq(Line) /\ <<Head(w)>> \in Seq(Line)
      /\ Len(Tail(w)) = Len(w) - 1 /\ Len(w) \in Nat
      /\ \A i \in 1..Len(Tail(w)) : Tail(w)[i] = w[i + 1]
  BY HeadTailProperties, LenProperties
<1>2. <<Head(w)>> \o Tail(w) = w
  <2> DEFINE l == <<Head(w)>>
             r == Tail(w)
  <2>1. l \in Seq(Line) /\ Len(l) = 1 /\ l[1] = w[1]
    BY <1>1
  <2>2. /\ l \o r \in Seq(Line) /\ Len(l \o r) = Len(l) + Len(r)
        /\ \A i \in 1..Len(l) + Len(r) :
               (l \o r)[i] = IF i <= Len(l) THEN l[i] ELSE r[i - Len(l)]
    BY <1>1, ConcatProperties
  <2>3. \A i \in 1..Len(r) : r[i] = w[i + 1]
    BY <1>1
  <2>4. Len(r) = Len(w) - 1 /\ Len(w) \in Nat
    BY <1>1
  <2> HIDE DEF l, r
  <2>5. Len(l \o r) = Len(w)
    BY <2>1, <2>2, <2>4
  <2>6. \A i \in 1..Len(w) : (l \o r)[i] = w[i]
    <3> SUFFICES ASSUME NEW i \in 1..Len(w) PROVE (l \o r)[i] = w[i]
      OBVIOUS
    <3>1. (l \o r)[i] = IF i <= 1 THEN l[i] ELSE r[i - 1]
      BY <2>1, <2>2, <2>4
    <3>2. CASE i = 1
      BY <2>1, <3>1, <3>2
    <3>3. CASE i # 1
      <4>1. i - 1 \in 1..Len(r) /\ i - 1 + 1 = i /\ ~(i <= 1)
        BY <2>4, <3>3
      <4>2. QED
        BY <2>3, <3>1, <4>1
    <3>4. QED
      BY <3>2, <3>3
  <2>7. l \o r = w
    BY <2>2, <2>5, <2>6, SeqEqual
  <2>8. QED
    BY <2>7 DEF l, r
<1>3. Append(f, Head(w)) = f \o <<Head(w)>>
  BY <1>1, AppendIsConcat
<1>4. (f \o <<Head(w)>>) \o Tail(w) = f \o (<<Head(w)>> \o Tail(w))
  BY <1>1, ConcatAssociative
<1>5. QED
  BY <1>1, <1>2, <1>3, <1>4

\* A new line goes to the end of the lines, in the file or in the queue.
LEMMA LineAdded ==
    ASSUME NEW f \in Seq(Line), NEW w \in Seq(Line), NEW l \in Line
    PROVE  /\ f \o w \in Seq(Line) /\ f \o Append(w, l) = Append(f \o w, l)
           /\ Append(f \o w, l) \in Seq(Line)
           /\ Len(Append(f \o w, l)) = Len(f \o w) + 1
           /\ \A i \in 1..Len(f \o w) : Append(f \o w, l)[i] = (f \o w)[i]
           /\ Append(f \o w, l)[Len(f \o w) + 1] = l
<1>1. f \o w \in Seq(Line) /\ <<l>> \in Seq(Line)
  BY ConcatProperties
<1>2. Append(w, l) = w \o <<l>> /\ Append(f \o w, l) = (f \o w) \o <<l>>
  BY <1>1, AppendIsConcat
<1>3. (f \o w) \o <<l>> = f \o (w \o <<l>>)
  BY <1>1, ConcatAssociative
<1>4. QED
  BY <1>1, <1>2, <1>3, AppendProperties

\* Each of the entries of a report follows a gap of its own.
LEMMA ReportsAreGaps ==
    ASSUME NEW f \in Seq(Line), NEW w \in Seq(Line), NEW h, NEW n \in Nat,
           NEW g \in Nat, FewGaps(f \o w, h, n, g)
    PROVE  Cardinality(Violations(f)) <= g
<1>1. PICK G \in SUBSET (1..n + 1) : Cardinality(G) <= g /\ Chained(f \o w, h, n, G)
  BY DEF FewGaps
<1>2. Len(f) \in Nat /\ Len(w) \in Nat
  BY LenProperties
<1>3. /\ Len(f \o w) = Len(f) + Len(w)
      /\ \A i \in 1..Len(f) : (f \o w)[i] = f[i]
  <2>1. \A i \in 1..Len(f) + Len(w) :
            (f \o w)[i] = IF i <= Len(f) THEN f[i] ELSE w[i - Len(f)]
    BY ConcatProperties
  <2>2. QED
    BY <1>2, <2>1, ConcatProperties
<1>4. ASSUME NEW i \in Violations(f) PROVE i \in 1..Len(f) /\ f[i].entry \in G
  <2>1. i \in 1..Len(f)
    BY DEF Violations
  <2>2. i \in 1..Len(f \o w) /\ (f \o w)[i] = f[i]
    BY <1>2, <1>3, <2>1
  <2>3. i # 1 => (f \o w)[i - 1] = f[i - 1]
    BY <1>2, <1>3, <2>1
  <2>4. /\ f[i].chain = Append(f[i].prev, f[i].entry)
        /\ f[i].entry \in G \/ f[i].prev = IF i = 1 THEN Genesis ELSE f[i - 1].chain
    BY <1>1, <2>2, <2>3 DEF Chained
  <2>5. QED
    BY <2>1, <2>4 DEF Violations, Linked
<1>5. ASSUME NEW i \in Violations(f), NEW j \in Violations(f), f[i].entry = f[j].entry
      PROVE  i = j
  <2>1. /\ i \in 1..Len(f \o w) /\ j \in 1..Len(f \o w)
        /\ (f \o w)[i] = f[i] /\ (f \o w)[j] = f[j]
    BY <1>2, <1>3, <1>4
  <2>2. /\ i < j => f[i].entry < f[j].entry
        /\ j < i => f[j].entry < f[i].entry
    BY <1>1, <2>1 DEF Chained
  <2>3. f[i].entry \in Nat
    BY <1>1, <2>1 DEF Chained
  <2>4. i \in Nat /\ j \in Nat
    BY <1>2, <1>4
  <2>5. QED
    BY <1>5, <2>2, <2>3, <2>4
<1> DEFINE number == [i \in Violations(f) |-> f[i].entry]
<1>6. number \in Injection(Violations(f), G)
  BY <1>4, <1>5 DEF Injection, IsInjective
<1>7. IsFiniteSet(G)
  <2>1. IsFiniteSet(1..n + 1)
    BY FS_Interval
  <2>2. QED
    BY <2>1, FS_Subset
<1>8. IsFiniteSet(Violations(f)) /\ Cardinality(Violations(f)) <= Cardinality(G)
  BY <1>6, <1>7, FS_Injection
<1>9. Cardinality(G) \in Nat /\ Cardinality(Violations(f)) \in Nat
  BY <1>7, <1>8, FS_CardinalityType
<1>10. QED
  BY <1>1, <1>8, <1>9

\* The chain of a state, for the steps that follow.
LEMMA ChainNow ==
    ASSUME LogTyped, GapsCounted, ~tampered
    PROVE  \E G \in SUBSET (1..entries + 1) :
               /\ Cardinality(G) <= gaps /\ Cardinality(G) \in Nat
               /\ Chained(logFile \o waiting, chainHash, entries, G)
<1>1. FewGaps(logFile \o waiting, chainHash, entries, gaps)
  BY DEF GapsCounted
<1>2. PICK G \in SUBSET (1..entries + 1) :
          Cardinality(G) <= gaps /\ Chained(logFile \o waiting, chainHash, entries, G)
  BY <1>1 DEF FewGaps
<1>3. Cardinality(G) \in Nat
  BY OneGapMore DEF LogTyped
<1>4. QED
  BY <1>2, <1>3

\* A step that adds an entry to those that follow a gap counts a gap.
LEMMA GapCounted ==
    ASSUME NEW s, NEW h, NEW n \in Nat, NEW g \in Nat,
           NEW G \in SUBSET (1..n + 1), Cardinality(G) <= g,
           NEW e \in 1..n + 1, Chained(s, h, n, G \cup {e})
    PROVE  FewGaps(s, h, n, g + 1)
<1>1. G \cup {e} \in SUBSET (1..n + 1)
  OBVIOUS
<1>2. Cardinality(G \cup {e}) \in Nat /\ Cardinality(G) \in Nat
  BY <1>1, OneGapMore
<1>3. Cardinality(G \cup {e}) <= Cardinality(G) + 1
  BY OneGapMore
<1> DEFINE a == Cardinality(G)
           b == Cardinality(G \cup {e})
<1>4. b <= g + 1
  <2>1. a \in Nat /\ b \in Nat /\ a <= g /\ b <= a + 1
    BY <1>2, <1>3
  <2> HIDE DEF a, b
  <2>2. QED
    BY <2>1
<1>5. QED
  BY <1>1, <1>4 DEF FewGaps

\* What WriteLine makes of the file when the line is the next of a chain, with
\* the lines r still to come.
LEMMA NextWritten ==
    ASSUME LogTyped, NEW l \in Line, WriteLine(l), NEW r \in Seq(Line),
           NEW h, NEW n \in Nat, NEW G \in SUBSET (1..n + 1), Cardinality(G) <= gaps,
           Chained(Append(logFile, l) \o r, h, n, G)
    PROVE  FewGaps(logFile' \o r, h, n, gaps')
<1> DEFINE s == Append(logFile, l) \o r
<1>1. /\ logFile \in Seq(Line) /\ Len(logFile) \in Nat /\ Len(r) \in Nat /\ gaps \in Nat
  BY LenProperties DEF LogTyped
<1>2. /\ Append(logFile, l) \in Seq(Line) /\ <<l>> \in Seq(Line)
      /\ Len(Append(logFile, l)) = Len(logFile) + 1 /\ Len(<<l>>) = 1
  BY <1>1, AppendProperties
<1>3. CASE ~Rotates
  <2>1. logFile' = Append(logFile, l) /\ gaps' = gaps
    BY <1>3 DEF WriteLine
  <2>2. QED
    BY <2>1 DEF FewGaps
<1>4. CASE Rotates
  <2> DEFINE t == <<l>> \o r
  <2>1. logFile' = <<l>> /\ gaps' = gaps + 1
    BY <1>4 DEF WriteLine
  <2>2. /\ s \in Seq(Line) /\ Len(s) = Len(logFile) + 1 + Len(r)
        /\ \A i \in 1..Len(logFile) + 1 + Len(r) :
               s[i] = IF i <= Len(logFile) + 1 THEN Append(logFile, l)[i]
                      ELSE r[i - (Len(logFile) + 1)]
    BY <1>2, ConcatProperties
  <2>3. /\ t \in Seq(Line) /\ Len(t) = 1 + Len(r)
        /\ \A i \in 1..1 + Len(r) : t[i] = IF i <= 1 THEN <<l>>[i] ELSE r[i - 1]
    BY <1>2, ConcatProperties
  <2>4. Append(logFile, l)[Len(logFile) + 1] = l /\ <<l>>[1] = l
    BY <1>1, AppendProperties
  <2> HIDE DEF s, t
  <2>5. \A j \in 1..Len(t) : t[j] = s[Len(logFile) + j]
    <3> SUFFICES ASSUME NEW j \in 1..Len(t) PROVE t[j] = s[Len(logFile) + j]
      OBVIOUS
    <3>1. CASE j = 1
      <4>1. t[j] = l
        BY <1>1, <2>3, <2>4, <3>1
      <4>2. s[Len(logFile) + 1] = l
        BY <1>1, <2>2, <2>4
      <4>3. QED
        BY <3>1, <4>1, <4>2
    <3>2. CASE j # 1
      <4>1. /\ Len(logFile) + j \in 1..Len(logFile) + 1 + Len(r)
            /\ ~(Len(logFile) + j <= Len(logFile) + 1) /\ ~(j <= 1)
            /\ Len(logFile) + j - (Len(logFile) + 1) = j - 1
        BY <1>1, <2>3, <3>2
      <4>2. t[j] = r[j - 1]
        BY <2>3, <4>1
      <4>3. s[Len(logFile) + j] = r[j - 1]
        BY <2>2, <4>1
      <4>4. QED
        BY <4>2, <4>3
    <3>3. QED
      BY <3>1, <3>2
  <2>6. Len(logFile) \in 0..Len(s) - 1 /\ Len(t) = Len(s) - Len(logFile)
    BY <1>1, <2>2, <2>3
  <2>7. Chained(s, h, n, G)
    BY DEF s
  <2>8. PICK e \in 1..n + 1 : Chained(t, h, n, G \cup {e})
    <3>1. s \in Seq(Line) /\ t \in Seq(Line)
      BY <2>2, <2>3
    <3>2. IsEndOf(t, s, Len(logFile))
      BY <2>5, <2>6 DEF IsEndOf
    <3>3. QED
      BY <2>7, <3>1, <3>2, ChainRotates
  <2>9. FewGaps(t, h, n, gaps + 1)
    BY <1>1, <2>8, GapCounted
  <2>10. QED
    BY <2>1, <2>9 DEF t
<1>5. QED
  BY <1>3, <1>4

LEMMA GapsInit == AuditInit => GapsCounted
<1> SUFFICES ASSUME AuditInit PROVE GapsCounted
  OBVIOUS
<1>1. Chained(<<>>, Genesis, 0, {})
  BY EmptySeq DEF Chained
<1>2. {} \in SUBSET (1..0 + 1) /\ Cardinality({}) <= 0
  BY FS_EmptySet
<1>3. FewGaps(<<>>, Genesis, 0, 0)
  BY <1>1, <1>2 DEF FewGaps
<1>4. <<>> \in Seq(Line) /\ <<>> \o <<>> = <<>>
  BY EmptySeq, ConcatEmptySeq
<1>5. logFile \o waiting = <<>> /\ chainHash = Genesis /\ entries = 0 /\ gaps = 0
  BY <1>4 DEF AuditInit
<1>6. QED
  BY <1>3, <1>5 DEF GapsCounted

LEMMA GapsStep ==
    ASSUME LogTyped, LogTyped', GapsCounted, [AuditNext]_auditVars
    PROVE  GapsCounted'
<1> SUFFICES ASSUME ~tampered'
             PROVE  FewGaps(logFile' \o waiting', chainHash', entries', gaps')
  BY DEF GapsCounted
<1>1. CASE UNCHANGED auditVars
  BY <1>1 DEF auditVars, options, memory, disk, GapsCounted
<1>2. CASE AuditNext
  <2>1. ~tampered
    BY <1>2 DEF AuditNext, LogEntry, LogFails, WriteAsync, LoseLine, RestartLogger,
                Tamper
  <2>2. PICK G \in SUBSET (1..entries + 1) :
            /\ Cardinality(G) <= gaps /\ Cardinality(G) \in Nat
            /\ Chained(logFile \o waiting, chainHash, entries, G)
    BY <2>1, ChainNow
  <2>3. /\ logFile \in Seq(Line) /\ waiting \in Seq(Line) /\ chainHash \in Seq(Nat)
        /\ entries \in Nat /\ entries + 1 \in Nat /\ gaps \in Nat
        /\ ~asyncWrite => waiting = <<>>
    BY DEF LogTyped
  <2> DEFINE s == logFile \o waiting
  <2>4. s \in Seq(Line) /\ Len(s) = Len(logFile) + Len(waiting)
    BY <2>3, ConcatProperties
  <2>5. CASE LogEntry
    <3> DEFINE l == Linked(chainHash, entries + 1)
               h == Append(chainHash, entries + 1)
    <3>1. l \in Line /\ l.chain = h
      BY <2>3, LinkedTyped
    <3>2. Append(s, l) = logFile \o Append(waiting, l)
      BY <2>3, <3>1, LineAdded
    <3>3. /\ G \in SUBSET (1..entries + 1 + 1)
          /\ Chained(Append(s, l), h, entries + 1, G)
      <4>1. /\ Append(s, l) \in Seq(Line) /\ Len(Append(s, l)) = Len(s) + 1
            /\ \A i \in 1..Len(s) : Append(s, l)[i] = s[i]
            /\ Append(s, l)[Len(s) + 1] = l
        BY <2>3, <3>1, LineAdded
      <4> DEFINE t == Append(s, l)
      <4>2. Chained(s, chainHash, entries, G)
        BY <2>2
      <4>3. t[Len(s) + 1] = Linked(chainHash, entries + 1)
        BY <4>1
      <4>4. /\ t \in Seq(Line) /\ Len(t) = Len(s) + 1
            /\ \A i \in 1..Len(s) : t[i] = s[i]
        BY <4>1
      <4> HIDE DEF s, t
      <4>5. G \in SUBSET (1..entries + 1 + 1) /\ Chained(t, h, entries + 1, G)
        BY <2>3, <2>4, <4>2, <4>3, <4>4, ChainGrows
      <4>6. QED
        BY <4>5 DEF t
    <3>4. CASE asyncWrite
      <4>1. /\ logFile' = logFile /\ waiting' = Append(waiting, l)
            /\ chainHash' = l.chain /\ entries' = entries + 1 /\ gaps' = gaps
        BY <2>5, <3>4 DEF LogEntry, disk
      <4>2. logFile' \o waiting' = Append(s, l)
        BY <3>2, <4>1
      <4> HIDE DEF s, l, h
      <4>3. FewGaps(Append(s, l), h, entries + 1, gaps)
        BY <2>2, <3>3 DEF FewGaps
      <4>4. QED
        BY <3>1, <4>1, <4>2, <4>3
    <3>5. CASE ~asyncWrite
      <4>1. /\ WriteLine(l) /\ waiting' = waiting
            /\ chainHash' = l.chain /\ entries' = entries + 1
        BY <2>5, <3>5 DEF LogEntry
      <4>2. waiting = <<>> /\ <<>> \in Seq(Line)
        BY <2>3, <3>5
      <4>3. s = logFile /\ Append(logFile, l) \in Seq(Line)
        BY <2>3, <3>1, <4>2, ConcatEmptySeq, AppendProperties
      <4>4. Append(logFile, l) \o <<>> = Append(s, l)
        BY <4>3, ConcatEmptySeq
      <4> HIDE DEF s, l, h
      <4>5. Chained(Append(logFile, l) \o <<>>, h, entries + 1, G)
        BY <3>3, <4>4
      <4>6. FewGaps(logFile' \o <<>>, h, entries + 1, gaps')
        BY <2>2, <2>3, <3>1, <3>3, <4>1, <4>2, <4>5, NextWritten
      <4>7. QED
        BY <3>1, <4>1, <4>2, <4>6
    <3>6. QED
      BY <3>4, <3>5
  <2>6. CASE LogFails
    <3>1. /\ UNCHANGED <<logFile, waiting>> /\ entries' = entries + 1
          /\ chainHash' = Append(chainHash, entries + 1) /\ gaps' = gaps + 1
      BY <2>6 DEF LogFails, disk
    <3>2. Chained(s, Append(chainHash, entries + 1), entries + 1,
                  G \cup {entries + 1 + 1})
      BY <2>2, <2>3, ChainSkips
    <3>3. G \in SUBSET (1..entries + 1 + 1) /\ entries + 1 + 1 \in 1..entries + 1 + 1
      BY <2>3
    <3> HIDE DEF s
    <3>4. FewGaps(s, Append(chainHash, entries + 1), entries + 1, gaps + 1)
      BY <2>2, <2>3, <3>2, <3>3, GapCounted
    <3>5. QED
      BY <3>1, <3>4 DEF s
  <2>7. CASE WriteAsync
    <3>1. /\ waiting # <<>> /\ WriteLine(Head(waiting)) /\ waiting' = Tail(waiting)
          /\ UNCHANGED <<chainHash, entries>>
      BY <2>7 DEF WriteAsync
    <3>2. /\ Head(waiting) \in Line /\ Tail(waiting) \in Seq(Line)
          /\ Append(logFile, Head(waiting)) \o Tail(waiting) = s
      BY <2>3, <3>1, HeadWritten
    <3> HIDE DEF s
    <3>3. Chained(Append(logFile, Head(waiting)) \o Tail(waiting), chainHash,
                  entries, G)
      BY <2>2, <3>2 DEF s
    <3>4. FewGaps(logFile' \o Tail(waiting), chainHash, entries, gaps')
      BY <2>2, <2>3, <3>1, <3>2, <3>3, NextWritten
    <3>5. QED
      BY <3>1, <3>4
  <2>8. CASE LoseLine
    <3>1. PICK i \in 1..Len(waiting) : waiting' = RemoveAt(waiting, i)
      BY <2>8 DEF LoseLine
    <3>2. gaps' = gaps + 1 /\ UNCHANGED <<logFile, chainHash, entries>>
      BY <2>8 DEF LoseLine, disk
    <3>3. /\ waiting' \in Seq(Line) /\ Len(waiting') = Len(waiting) - 1
          /\ \A j \in 1..Len(waiting) - 1 :
                 waiting'[j] = IF j < i THEN waiting[j] ELSE waiting[j + 1]
      <4>1. waiting' = WithoutAt(waiting, i)
        BY <3>1 DEF RemoveAt, WithoutAt
      <4>2. QED
        BY <2>3, <4>1, RemovedOne
    <3> DEFINE t == logFile \o waiting'
               k == Len(logFile) + i
    <3>4. Len(logFile) \in Nat /\ Len(waiting) \in Nat /\ k \in 1..Len(s)
      BY <2>3, <2>4, LenProperties
    <3>5. t \in Seq(Line) /\ Len(t) = Len(s) - 1
      <4>1. t \in Seq(Line) /\ Len(t) = Len(logFile) + Len(waiting')
        BY <2>3, <3>3, ConcatProperties
      <4> HIDE DEF s, t
      <4>2. QED
        BY <2>4, <3>3, <3>4, <4>1
    <3>6. \A j \in 1..Len(s) - 1 : t[j] = IF j < k THEN s[j] ELSE s[j + 1]
      <4> SUFFICES ASSUME NEW j \in 1..Len(s) - 1
                   PROVE  t[j] = IF j < k THEN s[j] ELSE s[j + 1]
        OBVIOUS
      <4>1. \A m \in 1..Len(logFile) + Len(waiting) :
                s[m] = IF m <= Len(logFile) THEN logFile[m]
                       ELSE waiting[m - Len(logFile)]
        BY <2>3, ConcatProperties
      <4>2. \A m \in 1..Len(logFile) + Len(waiting') :
                t[m] = IF m <= Len(logFile) THEN logFile[m]
                       ELSE waiting'[m - Len(logFile)]
        BY <2>3, <3>3, ConcatProperties
      <4> HIDE DEF s, t
      <4>3. CASE j <= Len(logFile)
        <5>1. j < k /\ t[j] = logFile[j] /\ s[j] = logFile[j]
          BY <2>4, <3>3, <3>4, <4>1, <4>2, <4>3
        <5>2. QED
          BY <5>1
      <4>4. CASE ~(j <= Len(logFile))
        <5> DEFINE m == j - Len(logFile)
        <5>1. /\ m \in 1..Len(waiting) - 1 /\ j \in 1..Len(logFile) + Len(waiting)
              /\ j \in 1..Len(logFile) + Len(waiting')
              /\ j + 1 \in 1..Len(logFile) + Len(waiting)
              /\ ~(j + 1 <= Len(logFile)) /\ j + 1 - Len(logFile) = m + 1
              /\ (j < k <=> m < i)
          BY <2>4, <3>3, <3>4, <4>4
        <5>2. s[j] = waiting[m] /\ s[j + 1] = waiting[m + 1] /\ t[j] = waiting'[m]
          BY <4>1, <4>2, <4>4, <5>1
        <5> HIDE DEF m
        <5>3. waiting'[m] = IF m < i THEN waiting[m] ELSE waiting[m + 1]
          BY <3>3, <5>1
        <5>4. QED
          BY <5>1, <5>2, <5>3
      <4>5. QED
        BY <4>3, <4>4
    <3>7. Chained(s, chainHash, entries, G)
      BY <2>2
    <3> HIDE DEF s, t, k
    <3>8. PICK e \in 1..entries + 1 : Chained(t, chainHash, entries, G \cup {e})
      BY <2>3, <2>4, <3>4, <3>5, <3>6, <3>7, ChainLoses
    <3>9. FewGaps(t, chainHash, entries, gaps + 1)
      BY <2>2, <2>3, <3>8, GapCounted
    <3>10. QED
      BY <3>2, <3>9 DEF t
  <2>9. CASE RestartLogger
    <3>1. /\ chainHash' = Genesis /\ waiting' = <<>> /\ gaps' = gaps + 1
          /\ UNCHANGED <<logFile, entries>>
      BY <2>9 DEF RestartLogger, disk
    <3>2. logFile \o <<>> = logFile
      BY <2>3, ConcatEmptySeq
    <3>3. /\ Len(logFile) <= Len(s) /\ \A j \in 1..Len(logFile) : logFile[j] = s[j]
      <4>1. Len(logFile) \in Nat /\ Len(waiting) \in Nat
        BY <2>3, LenProperties
      <4>2. \A j \in 1..Len(logFile) + Len(waiting) :
                s[j] = IF j <= Len(logFile) THEN logFile[j]
                       ELSE waiting[j - Len(logFile)]
        BY <2>3, ConcatProperties
      <4> HIDE DEF s
      <4>3. QED
        BY <2>4, <4>1, <4>2
    <3>4. Chained(s, chainHash, entries, G)
      BY <2>2
    <3> HIDE DEF s
    <3>5. Chained(logFile, Genesis, entries, G \cup {entries + 1})
      BY <2>3, <2>4, <3>3, <3>4, ChainRestarts
    <3>6. entries + 1 \in 1..entries + 1
      BY <2>3
    <3>7. FewGaps(logFile, Genesis, entries, gaps + 1)
      BY <2>2, <2>3, <3>5, <3>6, GapCounted
    <3>8. QED
      BY <3>1, <3>2, <3>7
  <2>10. CASE Tamper
    BY <2>10 DEF Tamper
  <2>11. QED
    BY <1>2, <2>5, <2>6, <2>7, <2>8, <2>9, <2>10 DEF AuditNext
<1>3. QED
  BY <1>1, <1>2

-----------------------------------------------------------------------------
(* What verify_integrity() reports of a changed file *)

LEMMA UptoFacts ==
    ASSUME NEW n \in Nat
    PROVE  /\ Upto(n) \in Seq(Nat) /\ Len(Upto(n)) = n
           /\ Append(Upto(n), n + 1) = Upto(n + 1)
           /\ \A i \in 1..n : Upto(n)[i] = i
<1>1. \A m \in Nat : /\ Upto(m) \in Seq(Nat) /\ Len(Upto(m)) = m
                     /\ \A i \in 1..m : Upto(m)[i] = i
  BY DEF Upto
<1> DEFINE s == Upto(n)
           t == Append(s, n + 1)
           u == Upto(n + 1)
<1>2. /\ s \in Seq(Nat) /\ Len(s) = n /\ \A i \in 1..n : s[i] = i
      /\ u \in Seq(Nat) /\ Len(u) = n + 1 /\ \A i \in 1..n + 1 : u[i] = i
  BY <1>1
<1> HIDE DEF s, u
<1>3. /\ t \in Seq(Nat) /\ Len(t) = n + 1 /\ t[n + 1] = n + 1
      /\ \A i \in 1..n : t[i] = s[i]
  BY <1>2, AppendProperties
<1> HIDE DEF t
<1>4. \A i \in 1..n + 1 : t[i] = u[i]
  BY <1>2, <1>3
<1>5. t = u
  BY <1>2, <1>3, <1>4, SeqEqual
<1>6. QED
  BY <1>1, <1>5 DEF s, t, u

\* The next line goes to the end of the file.
LEMMA EvidentGrows ==
    ASSUME NEW f \in Seq(Line), NEW w \in Nat, NEW changed \in BOOLEAN,
           Evident(f, w, changed)
    PROVE  Evident(Append(f, Linked(Upto(w), w + 1)), w + 1, changed)
<1> DEFINE l == Linked(Upto(w), w + 1)
           t == Append(f, l)
<1>1. /\ l \in Line /\ l.prev = Upto(w) /\ l.entry = w + 1 /\ l.chain = Upto(w + 1)
      /\ Len(l.chain) = w + 1
  <2>1. Upto(w) \in Seq(Nat) /\ w + 1 \in Nat
    BY UptoFacts
  <2>2. /\ l \in Line /\ l.prev = Upto(w) /\ l.entry = w + 1
        /\ l.chain = Append(Upto(w), w + 1)
    BY <2>1, LinkedTyped
  <2>3. Append(Upto(w), w + 1) = Upto(w + 1) /\ Len(Upto(w + 1)) = w + 1
    BY <2>1, UptoFacts
  <2>4. QED
    BY <2>2, <2>3
<1> HIDE DEF l
<1>2. /\ Len(f) \in Nat /\ Len(t) = Len(f) + 1 /\ t[Len(f) + 1] = l
      /\ \A i \in 1..Len(f) : t[i] = f[i]
  BY <1>1, LenProperties, AppendProperties
<1> HIDE DEF t
<1>3. ASSUME NEW i \in 1..Len(t)
      PROVE  \E m \in 1..w + 1 : /\ t[i].prev = Upto(m - 1) /\ t[i].chain = Upto(m)
                                 /\ t[i].entry \in {m, Forged}
  <2>1. CASE i \in 1..Len(f)
    <3>1. PICK m \in 1..w : /\ f[i].prev = Upto(m - 1) /\ f[i].chain = Upto(m)
                            /\ f[i].entry \in {m, Forged}
      BY <2>1 DEF Evident
    <3>2. m \in 1..w + 1 /\ t[i] = f[i]
      BY <1>2, <2>1
    <3>3. QED
      BY <3>1, <3>2
  <2>2. CASE i = Len(f) + 1
    <3>1. w + 1 \in 1..w + 1 /\ w + 1 - 1 = w /\ t[i] = l
      BY <1>2, <2>2
    <3>2. t[i].prev = Upto(w + 1 - 1)
      BY <1>1, <3>1
    <3>3. QED
      BY <1>1, <3>1, <3>2
  <2>3. QED
    BY <1>2, <2>1, <2>2
<1>4. ASSUME NEW i \in 1..Len(t), NEW j \in 1..Len(t), i < j
      PROVE  Len(t[i].chain) < Len(t[j].chain)
  <2>1. i \in 1..Len(f) /\ t[i] = f[i]
    BY <1>2, <1>4
  <2>2. CASE j \in 1..Len(f)
    BY <1>2, <1>4, <2>1, <2>2 DEF Evident
  <2>3. CASE j = Len(f) + 1
    <3>1. PICK m \in 1..w : f[i].chain = Upto(m)
      BY <2>1 DEF Evident
    <3>2. Len(f[i].chain) = m
      BY <3>1, UptoFacts
    <3>3. QED
      BY <1>1, <1>2, <2>1, <2>3, <3>2
  <2>4. QED
    BY <1>2, <2>2, <2>3
<1>5. Len(t) <= w + 1
  BY <1>2 DEF Evident
<1>6. Len(t) > 0 /\ Len(t[Len(t)].chain) = w + 1
  BY <1>1, <1>2
<1>7. changed => Len(t) < w + 1 \/ \E i \in 1..Len(t) : t[i].entry = Forged
  <2> SUFFICES ASSUME changed
               PROVE  Len(t) < w + 1 \/ \E i \in 1..Len(t) : t[i].entry = Forged
    OBVIOUS
  <2>1. CASE Len(f) < w
    BY <1>2, <2>1
  <2>2. CASE \E i \in 1..Len(f) : f[i].entry = Forged
    <3>1. PICK i \in 1..Len(f) : f[i].entry = Forged
      BY <2>2
    <3>2. i \in 1..Len(t) /\ t[i] = f[i]
      BY <1>2
    <3>3. QED
      BY <3>1, <3>2
  <2>3. QED
    BY <2>1, <2>2 DEF Evident
<1>8. Evident(t, w + 1, changed)
  BY <1>3, <1>4, <1>5, <1>6, <1>7 DEF Evident
<1>9. QED
  BY <1>8 DEF t, l

\* Somebody changes a line.
LEMMA EvidentForged ==
    ASSUME NEW f \in Seq(Line), NEW w \in Nat, NEW changed, Evident(f, w, changed),
           NEW k \in 1..Len(f), NEW t \in Seq(Line), Len(t) = Len(f),
           \A i \in 1..Len(f) : t[i] = IF i = k THEN [f[i] EXCEPT !.entry = Forged]
                                       ELSE f[i]
    PROVE  Evident(t, w, TRUE)
<1>1. ASSUME NEW i \in 1..Len(f)
      PROVE  /\ t[i].prev = f[i].prev /\ t[i].chain = f[i].chain
             /\ t[i].entry = f[i].entry \/ t[i].entry = Forged
             /\ i = k => t[i].entry = Forged
  <2>1. f[i] \in Line
    BY ElementOfSeq
  <2>2. QED
    BY <2>1 DEF Line
<1>2. Len(f) \in Nat /\ (Len(f) > 0 => Len(f) \in 1..Len(f))
  BY LenProperties
<1>3. \E i \in 1..Len(t) : t[i].entry = Forged
  BY <1>1
<1>4. ASSUME NEW i \in 1..Len(t)
      PROVE  \E m \in 1..w : /\ t[i].prev = Upto(m - 1) /\ t[i].chain = Upto(m)
                             /\ t[i].entry \in {m, Forged}
  <2>1. PICK m \in 1..w : /\ f[i].prev = Upto(m - 1) /\ f[i].chain = Upto(m)
                          /\ f[i].entry \in {m, Forged}
    BY DEF Evident
  <2>2. QED
    BY <1>1, <2>1
<1>5. QED
  BY <1>1, <1>2, <1>3, <1>4 DEF Evident

\* Somebody removes a line that is not the last.
LEMMA EvidentRemoved ==
    ASSUME NEW f \in Seq(Line), NEW w \in Nat, NEW changed, Evident(f, w, changed),
           NEW k \in 1..Len(f), k < Len(f),
           NEW t \in Seq(Line), Len(t) = Len(f) - 1,
           \A i \in 1..Len(f) - 1 : t[i] = IF i < k THEN f[i] ELSE f[i + 1]
    PROVE  Evident(t, w, TRUE)
<1>1. Len(f) \in Nat /\ Len(t) \in Nat /\ Len(t) > 0
  BY LenProperties
<1> DEFINE kept(i) == IF i < k THEN i ELSE i + 1
<1>2. \A i \in 1..Len(t) : kept(i) \in 1..Len(f) /\ t[i] = f[kept(i)]
  BY <1>1
<1>3. \A i, j \in 1..Len(t) : i < j => kept(i) < kept(j)
  BY <1>1
<1>4. kept(Len(t)) = Len(f)
  BY <1>1
<1> HIDE DEF kept
<1>5. ASSUME NEW i \in 1..Len(t)
      PROVE  \E m \in 1..w : /\ t[i].prev = Upto(m - 1) /\ t[i].chain = Upto(m)
                             /\ t[i].entry \in {m, Forged}
  <2>1. kept(i) \in 1..Len(f) /\ t[i] = f[kept(i)]
    BY <1>2
  <2>2. PICK m \in 1..w :
            /\ f[kept(i)].prev = Upto(m - 1) /\ f[kept(i)].chain = Upto(m)
            /\ f[kept(i)].entry \in {m, Forged}
    BY <2>1 DEF Evident
  <2>3. QED
    BY <2>1, <2>2
<1>6. ASSUME NEW i \in 1..Len(t), NEW j \in 1..Len(t), i < j
      PROVE  Len(t[i].chain) < Len(t[j].chain)
  BY <1>2, <1>3, <1>6 DEF Evident
<1>7. w > 0 => Len(t[Len(t)].chain) = w
  <2>1. t[Len(t)] = f[Len(f)]
    BY <1>1, <1>2, <1>4
  <2>2. QED
    BY <2>1 DEF Evident
<1>8. Len(t) < w
  BY <1>1 DEF Evident
<1>9. QED
  BY <1>1, <1>5, <1>6, <1>7, <1>8 DEF Evident

\* A changed file without a line to report would hold every line written, each
\* with the entry that was in it.
LEMMA ChangeReported ==
    ASSUME NEW f \in Seq(Line), NEW w \in Nat, Evident(f, w, TRUE)
    PROVE  Violations(f) # {}
<1> SUFFICES ASSUME Violations(f) = {} PROVE FALSE
  OBVIOUS
<1>1. Len(f) \in Nat
  BY LenProperties
<1>2. ASSUME NEW i \in 1..Len(f)
      PROVE  /\ f[i].prev = IF i = 1 THEN Genesis ELSE f[i - 1].chain
             /\ f[i].chain = Append(f[i].prev, f[i].entry)
  BY DEF Violations, Linked
<1>3. ASSUME NEW i \in 1..Len(f)
      PROVE  /\ Len(f[i].chain) \in 1..w
             /\ Len(f[i].prev) = Len(f[i].chain) - 1
             /\ f[i].entry # Forged
  <2>1. PICK m \in 1..w : /\ f[i].prev = Upto(m - 1) /\ f[i].chain = Upto(m)
                          /\ f[i].entry \in {m, Forged}
    BY DEF Evident
  <2>2. m \in Nat /\ m - 1 \in Nat /\ m - 1 + 1 = m /\ m # Forged
    BY DEF Forged
  <2>3. Len(Upto(m)) = m /\ Len(Upto(m - 1)) = m - 1 /\ Upto(m)[m] = m
    <3>1. \A n \in Nat : Len(Upto(n)) = n /\ \A j \in 1..n : Upto(n)[j] = j
      BY UptoFacts
    <3>2. m \in 1..m
      BY <2>2
    <3>3. QED
      BY <2>2, <3>1, <3>2
  <2>4. Upto(m - 1) \in Seq(Nat) /\ f[i].entry \in Nat
    <3>1. Upto(m - 1) \in Seq(Nat)
      BY <2>2, UptoFacts
    <3>2. QED
      BY <2>1, <2>2, <3>1 DEF Forged
  <2>5. Append(Upto(m - 1), f[i].entry)[m] = f[i].entry
    <3>1. Append(Upto(m - 1), f[i].entry)[Len(Upto(m - 1)) + 1] = f[i].entry
      BY <2>4, AppendProperties
    <3>2. QED
      BY <2>2, <2>3, <3>1
  <2>6. f[i].entry = m
    BY <1>2, <2>1, <2>3, <2>5
  <2>7. QED
    BY <2>1, <2>2, <2>3, <2>6
<1> DEFINE Moved == {i \in 1..Len(f) : Len(f[i].chain) # i}
<1>4. Moved = {}
  <2> SUFFICES ASSUME Moved # {} PROVE FALSE
    OBVIOUS
  <2>1. Moved \in SUBSET Nat
    BY <1>1
  <2>2. PICK i \in Moved : \A j \in Moved : i <= j
    BY <2>1, LeastNumber
  <2>3. CASE i = 1
    <3>1. Len(f[i].prev) = 0
      BY <1>2, <2>3 DEF Genesis
    <3>2. Len(f[i].chain) \in 1..w /\ 0 = Len(f[i].chain) - 1
      BY <1>3, <3>1
    <3>3. Len(f[i].chain) = 1
      BY <3>2
    <3>4. QED
      BY <2>3, <3>3
  <2>4. CASE i # 1
    <3>1. i - 1 \in 1..Len(f) /\ ~(i <= i - 1)
      BY <1>1, <2>4
    <3>2. i - 1 \notin Moved
      BY <2>2, <3>1
    <3>3. Len(f[i - 1].chain) = i - 1
      BY <3>1, <3>2
    <3>4. Len(f[i].prev) = i - 1
      BY <1>2, <2>4, <3>3
    <3>5. QED
      BY <1>1, <1>3, <3>4
  <2>5. QED
    BY <2>3, <2>4
<1>5. Len(f) < w
  BY <1>3 DEF Evident
<1>6. Len(f) > 0 /\ Len(f[Len(f)].chain) = w
  BY <1>1, <1>5 DEF Evident
<1>7. Len(f[Len(f)].chain) = Len(f)
  BY <1>1, <1>4, <1>6
<1>8. QED
  BY <1>1, <1>5, <1>6, <1>7

LEMMA ChangesInit == AuditInit => ChangesEvident
<1> SUFFICES ASSUME AuditInit PROVE ChangesEvident
  OBVIOUS
<1>1. Upto(0) = Genesis /\ Len(<<>>) = 0
  BY DEF Upto, Genesis
<1>2. /\ chainHash = Genesis /\ waiting = <<>> /\ logFile = <<>> /\ entries = 0
      /\ written = <<>> /\ tampered = FALSE
  BY DEF AuditInit
<1>3. Evident(<<>>, 0, FALSE)
  BY <1>1 DEF Evident
<1>4. Evident(logFile, Len(written), tampered)
  BY <1>1, <1>2, <1>3
<1>5. /\ chainHash = Upto(entries) /\ Len(written) + Len(waiting) = entries
      /\ Len(waiting) = 0
  BY <1>1, <1>2
<1>6. QED
  BY <1>4, <1>5 DEF ChangesEvident

\* Without rotation the next line goes to the end of the file.
LEMMA EvidentWritten ==
    ASSUME LogTyped, Evident(logFile, Len(written), tampered), gaps' = 0,
           NEW l \in Line, l = Linked(Upto(Len(written)), Len(written) + 1),
           WriteLine(l)
    PROVE  /\ gaps = 0 /\ Len(written') = Len(written) + 1
           /\ Evident(logFile', Len(written'), tampered)
<1>1. logFile \in Seq(Line) /\ written \in Seq(Nat) /\ Len(written) \in Nat
      /\ gaps \in Nat /\ tampered \in BOOLEAN
  BY LenProperties DEF LogTyped
<1>2. ~Rotates
  <2>1. Rotates => gaps' = gaps + 1
    BY DEF WriteLine
  <2>2. QED
    BY <1>1, <2>1
<1>3. /\ logFile' = Append(logFile, l) /\ gaps' = gaps
      /\ written' = Append(written, l.entry)
  BY <1>2 DEF WriteLine
<1>4. Len(written') = Len(written) + 1
  <2>1. l.entry \in Nat
    BY DEF Line
  <2>2. QED
    BY <1>1, <1>3, <2>1, AppendProperties
<1>5. Evident(Append(logFile, l), Len(written) + 1, tampered)
  BY <1>1, EvidentGrows
<1>6. QED
  BY <1>3, <1>4, <1>5

LEMMA ChangesStep ==
    ASSUME LogTyped, LogTyped', ChangesEvident, [AuditNext]_auditVars
    PROVE  ChangesEvident'
<1>1. CASE UNCHANGED auditVars
  BY <1>1 DEF auditVars, options, memory, disk, ChangesEvident
<1>2. CASE AuditNext
  <2> SUFFICES ASSUME gaps' = 0
               PROVE  ChangesEvident'
    BY DEF ChangesEvident
  <2> DEFINE w == Len(written)
  <2>1. /\ logFile \in Seq(Line) /\ waiting \in Seq(Line) /\ chainHash \in Seq(Nat)
        /\ entries \in Nat /\ gaps \in Nat /\ tampered \in BOOLEAN
        /\ ~asyncWrite => waiting = <<>>
        /\ w \in Nat /\ Len(waiting) \in Nat
    BY LenProperties DEF LogTyped
  <2> DEFINE Now == /\ chainHash = Upto(entries) /\ w + Len(waiting) = entries
                    /\ \A i \in 1..Len(waiting) :
                           waiting[i] = Linked(Upto(w + i - 1), w + i)
                    /\ Evident(logFile, w, tampered)
  <2>2. gaps = 0 => Now
    BY DEF ChangesEvident
  <2>3. SUFFICES /\ chainHash' = Upto(entries')
                 /\ Len(written') + Len(waiting') = entries'
                 /\ \A i \in 1..Len(waiting') :
                        waiting'[i] = Linked(Upto(Len(written') + i - 1),
                                             Len(written') + i)
                 /\ Evident(logFile', Len(written'), tampered')
    BY DEF ChangesEvident
  <2>4. CASE LogEntry
    <3> DEFINE l == Linked(chainHash, entries + 1)
    <3>1. l \in Line /\ l.chain = Append(chainHash, entries + 1)
      <4>1. entries + 1 \in Nat
        BY <2>1
      <4>2. QED
        BY <2>1, <4>1, LinkedTyped
    <3>2. /\ chainHash' = l.chain /\ entries' = entries + 1 /\ tampered' = tampered
      BY <2>4 DEF LogEntry
    <3>3. CASE asyncWrite
      <4>1. waiting' = Append(waiting, l) /\ UNCHANGED <<logFile, written, gaps>>
        BY <2>4, <3>3 DEF LogEntry, disk
      <4>2. Now
        BY <2>2, <4>1
      <4>3. chainHash' = Upto(entries')
        BY <2>1, <3>1, <3>2, <4>2, UptoFacts
      <4> HIDE DEF l
      <4>4. /\ Len(waiting') = Len(waiting) + 1 /\ waiting'[Len(waiting) + 1] = l
            /\ \A i \in 1..Len(waiting) : waiting'[i] = waiting[i]
        BY <2>1, <3>1, <4>1, AppendProperties
      <4>5. l = Linked(Upto(w + (Len(waiting) + 1) - 1), w + (Len(waiting) + 1))
        <5> DEFINE n == Len(waiting)
        <5>1. w \in Nat /\ n \in Nat /\ w + n = entries
          BY <2>1, <4>2
        <5>2. w + (n + 1) = entries + 1 /\ w + (n + 1) - 1 = entries
          <6> HIDE DEF w, n
          <6> QED
            BY ONLY <5>1
        <5>3. QED
          BY <4>2, <5>2 DEF l
      <4>6. ASSUME NEW i \in 1..Len(waiting')
            PROVE  waiting'[i] = Linked(Upto(w + i - 1), w + i)
        <5>1. CASE i \in 1..Len(waiting)
          BY <4>2, <4>4, <5>1
        <5>2. CASE i = Len(waiting) + 1
          BY <4>4, <4>5, <5>2
        <5>3. QED
          BY <2>1, <4>4, <5>1, <5>2
      <4>7. w + Len(waiting') = entries'
        <5> DEFINE n == Len(waiting)
                   m == Len(waiting')
        <5>1. w \in Nat /\ n \in Nat /\ w + n = entries /\ m = n + 1
          BY <2>1, <4>2, <4>4
        <5>2. w + m = entries + 1
          <6> HIDE DEF w, n, m
          <6> QED
            BY ONLY <5>1
        <5>3. QED
          BY <3>2, <5>2
      <4>8. Evident(logFile', Len(written'), tampered')
        BY <3>2, <4>1, <4>2
      <4>9. QED
        BY <4>1, <4>3, <4>6, <4>7, <4>8
    <3>4. CASE ~asyncWrite
      <4>1. WriteLine(l) /\ waiting' = waiting
        BY <2>4, <3>4 DEF LogEntry
      <4>2. gaps = 0
        BY <2>1, <4>1 DEF WriteLine
      <4>3. Now
        BY <2>2, <4>2
      <4>4. waiting = <<>> /\ Len(waiting) = 0 /\ w = entries
        BY <2>1, <3>4, <4>3
      <4>5. l = Linked(Upto(w), w + 1)
        BY <4>3, <4>4
      <4> HIDE DEF l
      <4>6. /\ Len(written') = w + 1 /\ Evident(logFile', Len(written'), tampered)
        BY <3>1, <4>1, <4>3, <4>5, EvidentWritten
      <4>7. chainHash' = Upto(entries')
        BY <2>1, <3>1, <3>2, <4>3, UptoFacts
      <4>8. Len(waiting') = 0
        BY <4>1, <4>4
      <4>9. Len(written') + Len(waiting') = entries'
        BY <2>1, <3>2, <4>4, <4>6, <4>8
      <4>10. Evident(logFile', Len(written'), tampered')
        BY <3>2, <4>6
      <4>11. QED
        BY <4>7, <4>8, <4>9, <4>10
    <3>5. QED
      BY <3>3, <3>4
  <2>5. CASE LogFails
    BY <2>1, <2>5 DEF LogFails
  <2>6. CASE WriteAsync
    <3> DEFINE l == Head(waiting)
    <3>1. /\ waiting # <<>> /\ WriteLine(l) /\ waiting' = Tail(waiting)
          /\ UNCHANGED <<chainHash, entries, tampered>>
      BY <2>6 DEF WriteAsync
    <3>2. gaps = 0
      BY <2>1, <3>1 DEF WriteLine
    <3>3. Now
      BY <2>2, <3>2
    <3>4. /\ l \in Line /\ l = waiting[1] /\ 1 \in 1..Len(waiting)
          /\ Len(waiting') = Len(waiting) - 1
          /\ \A i \in 1..Len(waiting') : waiting'[i] = waiting[i + 1]
      BY <2>1, <3>1, HeadTailProperties
    <3>5. l = Linked(Upto(w), w + 1)
      <4>1. waiting[1] = Linked(Upto(w + 1 - 1), w + 1) /\ w + 1 - 1 = w
        BY <2>1, <3>3, <3>4
      <4>2. QED
        BY <3>4, <4>1
    <3> HIDE DEF l
    <3>6. Len(written') = w + 1 /\ Evident(logFile', Len(written'), tampered)
      BY <3>1, <3>3, <3>4, <3>5, EvidentWritten
    <3>7. ASSUME NEW i \in 1..Len(waiting')
          PROVE  waiting'[i] = Linked(Upto(Len(written') + i - 1), Len(written') + i)
      <4>1. i + 1 \in 1..Len(waiting)
        BY <2>1, <3>4
      <4>2. waiting'[i] = Linked(Upto(w + (i + 1) - 1), w + (i + 1))
        BY <3>3, <3>4, <4>1
      <4>3. w + (i + 1) = Len(written') + i
        BY <2>1, <3>6
      <4>4. QED
        BY <4>2, <4>3
    <3>8. Len(written') + Len(waiting') = entries'
      BY <2>1, <3>1, <3>3, <3>4, <3>6
    <3>9. chainHash' = Upto(entries') /\ Evident(logFile', Len(written'), tampered')
      BY <3>1, <3>3, <3>6
    <3>10. QED
      BY <3>7, <3>8, <3>9
  <2>7. CASE LoseLine
    BY <2>1, <2>7 DEF LoseLine
  <2>8. CASE RestartLogger
    BY <2>1, <2>8 DEF RestartLogger
  <2>9. CASE Tamper
    <3>1. /\ tampered' = TRUE
          /\ UNCHANGED <<chainHash, waiting, written, entries, gaps>>
      BY <2>9 DEF Tamper, memory
    <3>2. Now
      BY <2>2, <3>1
    <3>3. PICK k \in 1..Len(logFile) :
              \/ logFile' = [logFile EXCEPT ![k].entry = Forged]
              \/ k < Len(logFile) /\ logFile' = RemoveAt(logFile, k)
      BY <2>9 DEF Tamper
    <3>4. logFile' \in Seq(Line)
      BY DEF LogTyped
    <3>5. Evident(logFile', w, TRUE)
      <4>1. CASE logFile' = [logFile EXCEPT ![k].entry = Forged]
        <5>1. DOMAIN logFile = 1..Len(logFile) /\ Len(logFile') = Len(logFile)
          BY <2>1, <3>4, <4>1, LenProperties
        <5>2. \A i \in 1..Len(logFile) :
                  logFile'[i] = IF i = k THEN [logFile[i] EXCEPT !.entry = Forged]
                                ELSE logFile[i]
          BY <4>1, <5>1
        <5>3. QED
          BY <2>1, <3>2, <3>4, <5>1, <5>2, EvidentForged
      <4>2. CASE k < Len(logFile) /\ logFile' = RemoveAt(logFile, k)
        <5>1. logFile' = WithoutAt(logFile, k)
          BY <4>2 DEF RemoveAt, WithoutAt
        <5>2. /\ Len(logFile') = Len(logFile) - 1
              /\ \A i \in 1..Len(logFile) - 1 :
                     logFile'[i] = IF i < k THEN logFile[i] ELSE logFile[i + 1]
          BY <2>1, <5>1, RemovedOne
        <5>3. QED
          BY <2>1, <3>2, <3>4, <4>2, <5>2, EvidentRemoved
      <4>3. QED
        BY <3>3, <4>1, <4>2
    <3>6. QED
      BY <3>1, <3>2, <3>5
  <2>10. QED
    BY <1>2, <2>4, <2>5, <2>6, <2>7, <2>8, <2>9 DEF AuditNext
<1>3. QED
  BY <1>1, <1>2

-----------------------------------------------------------------------------
(* The rotated files *)

\* The lines are those written after the first start of them, up to the end-th.
Holds(lines, start, end, numbers) ==
    /\ start + Len(lines) = end
    /\ \A j \in 1..Len(lines) : lines[j].entry = numbers[start + j]

\* RotationKeepsTail with a name for what each file holds.
LEMMA TailIsHeld ==
    RotationKeepsTail <=>
        (~tampered =>
             \E before \in [0..LastBackup -> 0..Len(written)] :
                 \A i \in 0..LastBackup :
                     Holds(File(i), before[i],
                           IF i = 0 THEN Len(written) ELSE before[i - 1], written))
BY DEF RotationKeepsTail, Holds

\* What a file holds stays where it is in what is written.
LEMMA HoldsOn ==
    ASSUME NEW lines \in Seq(Line), NEW numbers \in Seq(Nat), NEW number \in Nat,
           NEW start \in Nat, NEW end \in 0..Len(numbers),
           Holds(lines, start, end, numbers)
    PROVE  Holds(lines, start, end, Append(numbers, number))
<1>1. Len(lines) \in Nat /\ Len(numbers) \in Nat
  BY LenProperties
<1>2. \A j \in 1..Len(numbers) : Append(numbers, number)[j] = numbers[j]
  BY AppendProperties
<1>3. ASSUME NEW j \in 1..Len(lines)
      PROVE  lines[j].entry = Append(numbers, number)[start + j]
  <2>1. start + Len(lines) = end
    BY DEF Holds
  <2>2. start + j \in 1..Len(numbers)
    BY <1>1, <2>1
  <2>3. QED
    BY <1>2, <2>2 DEF Holds
<1>4. QED
  BY <1>3 DEF Holds

\* The line that is written last is at the end of the file.
LEMMA HoldsLast ==
    ASSUME NEW lines \in Seq(Line), NEW numbers \in Seq(Nat), NEW l \in Line,
           NEW start \in Nat, Holds(lines, start, Len(numbers), numbers)
    PROVE  /\ Holds(Append(lines, l), start, Len(numbers) + 1,
                    Append(numbers, l.entry))
           /\ Holds(<<l>>, Len(numbers), Len(numbers) + 1, Append(numbers, l.entry))
<1> DEFINE more == Append(lines, l)
           now == Append(numbers, l.entry)
           w == Len(numbers)
           n == Len(lines)
<1>1. n \in Nat /\ w \in Nat /\ l.entry \in Nat /\ start + n = w
  BY LenProperties DEF Line, Holds
<1>2. /\ Len(more) = n + 1 /\ more[n + 1] = l
      /\ \A j \in 1..n : more[j] = lines[j]
  BY AppendProperties
<1>3. now[w + 1] = l.entry
  BY <1>1, AppendProperties
<1>4. \A j \in 1..n : lines[j].entry = now[start + j]
  <2>1. Holds(lines, start, w, now)
    BY <1>1, HoldsOn
  <2>2. QED
    BY <2>1 DEF Holds
<1> HIDE DEF more, now, w, n
<1>5. start + (n + 1) = w + 1
  BY <1>1
<1>6. \A j \in 1..n + 1 : more[j].entry = now[start + j]
  <2> SUFFICES ASSUME NEW j \in 1..n + 1
               PROVE  more[j].entry = now[start + j]
    OBVIOUS
  <2>1. CASE j \in 1..n
    BY <1>2, <1>4, <2>1
  <2>2. CASE j = n + 1
    <3>1. start + j = w + 1
      BY <1>5, <2>2
    <3>2. QED
      BY <1>2, <1>3, <2>2, <3>1
  <2>3. QED
    BY <1>1, <2>1, <2>2
<1>7. Holds(more, start, w + 1, now)
  BY <1>2, <1>5, <1>6 DEF Holds
<1>8. Holds(<<l>>, w, w + 1, now)
  BY <1>1, <1>3 DEF Holds
<1>9. QED
  BY <1>7, <1>8 DEF more, now, w

LEMMA TailKeptInit == AuditInit => RotationKeepsTail
<1> SUFFICES ASSUME AuditInit PROVE RotationKeepsTail
  OBVIOUS
<1> DEFINE none == [i \in 0..LastBackup |-> 0]
<1>1. /\ Len(written) = 0 /\ LastBackup \in Nat
      /\ \A i \in 0..LastBackup : File(i) = <<>>
  BY AuditAssumption DEF AuditInit, File, LastBackup
<1>2. none \in [0..LastBackup -> 0..Len(written)]
  BY <1>1
<1>3. ASSUME NEW i \in 0..LastBackup
      PROVE  Holds(File(i), none[i], IF i = 0 THEN Len(written) ELSE none[i - 1],
                   written)
  <2>1. none[i] = 0 /\ (i # 0 => none[i - 1] = 0)
    BY <1>1
  <2> HIDE DEF none
  <2>2. Holds(<<>>, 0, 0, written)
    BY DEF Holds
  <2>3. QED
    BY <1>1, <2>1, <2>2
<1>4. QED
  BY <1>2, <1>3, TailIsHeld

\* One more line, and a rotation before it, leave the files the end of what was
\* written.
LEMMA TailKeptWritten ==
    ASSUME LogTyped, RotationKeepsTail, ~tampered, ~tampered',
           NEW l \in Line, WriteLine(l)
    PROVE  RotationKeepsTail'
<1> DEFINE w == Len(written)
           now == Append(written, l.entry)
           newFile(i) == IF i = 0 THEN logFile' ELSE backups'[i]
<1>1. PICK before \in [0..LastBackup -> 0..w] :
          \A i \in 0..LastBackup :
              Holds(File(i), before[i], IF i = 0 THEN w ELSE before[i - 1], written)
  BY TailIsHeld
<1>2. /\ logFile \in Seq(Line) /\ written \in Seq(Nat)
      /\ backups \in [1..LastBackup -> Seq(Line)]
      /\ l.entry \in Nat /\ w \in Nat /\ LastBackup \in Nat \ {0}
  BY LenProperties, AuditAssumption DEF LogTyped, Line, LastBackup
<1>3. written' = now /\ Len(now) = w + 1
  BY <1>2, AppendProperties DEF WriteLine
<1>4. SUFFICES \E after \in [0..LastBackup -> 0..w + 1] :
                   \A i \in 0..LastBackup :
                       Holds(newFile(i), after[i],
                             IF i = 0 THEN w + 1 ELSE after[i - 1], now)
  <2>1. ASSUME NEW after \in [0..LastBackup -> 0..w + 1],
               \A i \in 0..LastBackup :
                   Holds(newFile(i), after[i],
                         IF i = 0 THEN w + 1 ELSE after[i - 1], now)
        PROVE  RotationKeepsTail'
    <3>1. after \in [0..LastBackup -> 0..Len(written')]
      BY <1>3
    <3>2. ASSUME NEW i \in 0..LastBackup
          PROVE  /\ after[i] + Len(newFile(i)) =
                        IF i = 0 THEN Len(written') ELSE after[i - 1]
                 /\ \A j \in 1..Len(newFile(i)) :
                        newFile(i)[j].entry = written'[after[i] + j]
      <4>1. Holds(newFile(i), after[i], IF i = 0 THEN w + 1 ELSE after[i - 1], now)
        BY <2>1
      <4> HIDE DEF newFile, now, w
      <4>2. QED
        BY <1>3, <4>1 DEF Holds
    <3>3. QED
      BY <3>1, <3>2 DEF RotationKeepsTail, File
  <2>2. QED
    BY <2>1
<1> HIDE DEF w, now
<1>5. /\ 0 \in 0..LastBackup /\ \A i \in 0..LastBackup : before[i] \in 0..w
      /\ \A i \in 1..LastBackup : i - 1 \in 0..LastBackup /\ i \in 0..LastBackup
      /\ \A i \in 0..LastBackup : i = 0 \/ i \in 1..LastBackup
  BY <1>2
<1>6. Holds(logFile, before[0], w, written)
  <2>1. File(0) = logFile
    BY DEF File
  <2>2. QED
    BY <1>1, <1>5, <2>1
<1>7. /\ Holds(Append(logFile, l), before[0], w + 1, now)
      /\ Holds(<<l>>, w, w + 1, now)
  BY <1>2, <1>5, <1>6, HoldsLast DEF w, now
<1>8. ASSUME NEW i \in 0..LastBackup
      PROVE  Holds(File(i), before[i], IF i = 0 THEN w ELSE before[i - 1], now)
  <2> DEFINE end == IF i = 0 THEN w ELSE before[i - 1]
  <2>1. end \in 0..w
    BY <1>2, <1>5
  <2>2. Holds(File(i), before[i], end, written)
    BY <1>1
  <2> HIDE DEF end
  <2>3. File(i) \in Seq(Line) /\ before[i] \in Nat
    BY <1>2, <1>5 DEF File
  <2>4. Holds(File(i), before[i], end, now)
    BY <1>2, <2>1, <2>2, <2>3, HoldsOn DEF w, now
  <2>5. QED
    BY <2>4 DEF end
<1>9. CASE ~Rotates
  <2>1. logFile' = Append(logFile, l) /\ backups' = backups
    BY <1>9 DEF WriteLine
  <2>2. before \in [0..LastBackup -> 0..w + 1]
    BY <1>2, <1>5
  <2>3. newFile(0) = Append(logFile, l)
    BY <2>1
  <2>4. \A i \in 1..LastBackup : newFile(i) = File(i)
    BY <2>1, <1>2 DEF File
  <2> HIDE DEF newFile
  <2>5. ASSUME NEW i \in 1..LastBackup
        PROVE  Holds(newFile(i), before[i], before[i - 1], now)
    <3>1. i # 0 /\ i \in 0..LastBackup
      BY <1>2
    <3>2. QED
      BY <1>8, <2>4, <3>1
  <2>6. ASSUME NEW i \in 0..LastBackup
        PROVE  Holds(newFile(i), before[i], IF i = 0 THEN w + 1 ELSE before[i - 1],
                     now)
    <3>1. CASE i = 0
      BY <1>7, <2>3, <3>1
    <3>2. CASE i # 0
      BY <1>5, <2>5, <3>2
    <3>3. QED
      BY <3>1, <3>2
  <2>7. QED
    BY <2>2, <2>6
<1>10. CASE Rotates
  <2> DEFINE after == [i \in 0..LastBackup |-> IF i = 0 THEN w ELSE before[i - 1]]
  <2>1. logFile' = <<l>> /\ backups' = Shifted
    BY <1>10 DEF WriteLine
  <2>2. \A i \in 1..LastBackup : newFile(i) = File(i - 1)
    BY <1>2, <2>1 DEF Shifted, File
  <2>3. newFile(0) = <<l>>
    BY <2>1
  <2>4. after \in [0..LastBackup -> 0..w + 1]
    BY <1>2, <1>5
  <2>5. after[0] = w /\ \A i \in 1..LastBackup : after[i] = before[i - 1]
    BY <1>2, <1>5
  <2>6. \A i \in 0..LastBackup : after[i] = IF i = 0 THEN w ELSE before[i - 1]
    OBVIOUS
  <2> HIDE DEF newFile, after
  <2>7. ASSUME NEW i \in 1..LastBackup
        PROVE  Holds(newFile(i), after[i], after[i - 1], now)
    <3> DEFINE k == i - 1
    <3>1. k \in 0..LastBackup /\ newFile(i) = File(k) /\ after[i] = before[k]
      BY <1>5, <2>2, <2>5
    <3> HIDE DEF k
    <3>2. Holds(File(k), before[k], after[k], now)
      BY <1>8, <2>6, <3>1
    <3>3. QED
      BY <3>1, <3>2 DEF k
  <2>8. ASSUME NEW i \in 0..LastBackup
        PROVE  Holds(newFile(i), after[i], IF i = 0 THEN w + 1 ELSE after[i - 1], now)
    <3>1. CASE i = 0
      BY <1>7, <2>3, <2>5, <3>1
    <3>2. CASE i # 0
      BY <1>5, <2>7, <3>2
    <3>3. QED
      BY <3>1, <3>2
  <2>9. QED
    BY <2>4, <2>8
<1>11. QED
  BY <1>9, <1>10

LEMMA TailKeptStep ==
    ASSUME LogTyped, RotationKeepsTail, [AuditNext]_auditVars
    PROVE  RotationKeepsTail'
<1>1. CASE UNCHANGED <<logFile, backups, written, tampered>>
  BY <1>1 DEF RotationKeepsTail, File
<1>2. CASE AuditNext
  <2>1. CASE LogEntry
    <3>1. CASE asyncWrite
      BY <1>1, <2>1, <3>1 DEF LogEntry, disk
    <3>2. CASE ~asyncWrite
      <4> DEFINE l == Linked(chainHash, entries + 1)
      <4>1. WriteLine(l) /\ tampered' = tampered
        BY <2>1, <3>2 DEF LogEntry
      <4>2. chainHash \in Seq(Nat) /\ entries + 1 \in Nat
        BY DEF LogTyped
      <4>3. l \in Line
        BY <4>2, LinkedTyped
      <4> HIDE DEF l
      <4>4. CASE tampered
        BY <4>1, <4>4 DEF RotationKeepsTail
      <4>5. CASE ~tampered
        BY <4>1, <4>3, <4>5, TailKeptWritten
      <4>6. QED
        BY <4>4, <4>5
    <3>3. QED
      BY <3>1, <3>2
  <2>2. CASE WriteAsync
    <3>1. /\ waiting # <<>> /\ WriteLine(Head(waiting)) /\ tampered' = tampered
      BY <2>2 DEF WriteAsync
    <3>2. Head(waiting) \in Line
      BY <3>1, HeadTailProperties DEF LogTyped
    <3>3. CASE tampered
      BY <3>1, <3>3 DEF RotationKeepsTail
    <3>4. CASE ~tampered
      BY <3>1, <3>2, <3>4, TailKeptWritten
    <3>5. QED
      BY <3>3, <3>4
  <2>3. CASE Tamper
    BY <2>3 DEF Tamper, RotationKeepsTail
  <2>4. CASE LogFails \/ LoseLine \/ RestartLogger
    BY <1>1, <2>4 DEF LogFails, LoseLine, RestartLogger, disk
  <2>5. QED
    BY <1>2, <2>1, <2>2, <2>3, <2>4 DEF AuditNext
<1>3. CASE UNCHANGED auditVars
  BY <1>1, <1>3 DEF auditVars, disk
<1>4. QED
  BY <1>2, <1>3

\* What verify_integrity() reports of a file that nobody touched is one line for
\* each restart, rotation and lost line at most; in a log without them no change
\* of a line, nor a line removed before the last, escapes it; and rotation loses
\* nothing but the oldest backups.
THEOREM LogAlwaysTrusted == AuditSpec => []LogTrusted
<1> DEFINE Inv == LogTyped /\ GapsCounted /\ ChangesEvident /\ RotationKeepsTail
<1>1. AuditInit => Inv
  BY LogTypedInit, GapsInit, ChangesInit, TailKeptInit
<1>2. Inv /\ [AuditNext]_auditVars => Inv'
  BY LogTypedStep, GapsStep, ChangesStep, TailKeptStep
<1>3. Inv => LogTrusted
  <2> SUFFICES ASSUME Inv PROVE LogTrusted
    OBVIOUS
  <2>1. /\ logFile \in Seq(Line) /\ waiting \in Seq(Line)
        /\ entries \in Nat /\ gaps \in Nat /\ Len(written) \in Nat
    BY LenProperties DEF LogTyped
  <2>2. GenuineReports
    BY <2>1, ReportsAreGaps DEF GenuineReports, GapsCounted
  <2>3. TamperEvident
    <3> SUFFICES ASSUME tampered, gaps = 0 PROVE Violations(logFile) # {}
      BY DEF TamperEvident
    <3>1. Evident(logFile, Len(written), TRUE)
      <4>1. tampered = TRUE
        BY DEF LogTyped
      <4>2. QED
        BY <4>1 DEF ChangesEvident
    <3>2. QED
      BY <2>1, <3>1, ChangeReported
  <2>4. QED
    BY <2>2, <2>3 DEF LogTrusted
<1>4. QED
  BY <1>1, <1>2, <1>3, PTL DEF AuditSpec

-----------------------------------------------------------------------------
(* Escalation to the WAF *)

StrikeEvents == [address : Addresses, at : Nat]

\* The events of an address within a window that begins with the first-th.
Counted(p, a, first) ==
    {i \in DOMAIN log[p] :
        /\ log[p][i].address = a
        /\ log[p][i].at - log[p][first].at \in 0..StrikeWindow}

WafTyped ==
    /\ second \in Nat
    /\ log \in [WafProcesses -> Seq(StrikeEvents)]
    /\ strikes \in [WafProcesses -> [Addresses -> SUBSET Nat]]
    /\ DOMAIN escalation = WafProcesses

\* A process logs events in the order of their times.
InOrder(p) ==
    \A i, j \in 1..Len(log[p]) :
        i <= j => log[p][i].at <= log[p][j].at /\ log[p][j].at <= second

\* The strikes of an address are events of its own.
OwnStrikes(p, a) ==
    /\ strikes[p][a] \subseteq 1..Len(log[p])
    /\ \A i \in strikes[p][a] : log[p][i].address = a

\* An escalation is of an address that has earned it, and one that holds the
\* current token has read the current set.
EscalationOK(p) ==
    \/ escalation[p] = NoEscalation
    \/ /\ escalation[p].at \in {"get", "update"}
       /\ \E a \in Addresses : escalation[p].address = a /\ Earned(a)
       /\ escalation[p].at = "update" =>
              /\ escalation[p].token \in Nat
              /\ escalation[p].token <= lockToken
              /\ escalation[p].token = lockToken =>
                     /\ escalation[p].addresses = ipSet
                     /\ escalation[p].address \notin ipSet

\* Every update has added one address.
SetCounted == ipSet \subseteq Addresses /\ lockToken = Cardinality(ipSet)

WafInv ==
    /\ WafTyped
    /\ \A p \in WafProcesses : InOrder(p) /\ EscalationOK(p)
    /\ \A p \in WafProcesses, a \in Addresses : OwnStrikes(p, a)
    /\ SetCounted

LEMMA WafInvInit == WafInit => WafInv
<1> SUFFICES ASSUME WafInit PROVE WafInv
  OBVIOUS
<1> USE DEF WafInit
<1>1. WafTyped
  BY DEF WafTyped
<1>2. \A p \in WafProcesses : InOrder(p) /\ EscalationOK(p)
  BY DEF InOrder, EscalationOK
<1>3. \A p \in WafProcesses, a \in Addresses : OwnStrikes(p, a)
  BY DEF OwnStrikes
<1>4. SetCounted
  BY FS_EmptySet DEF SetCounted
<1>5. QED
  BY <1>1, <1>2, <1>3, <1>4 DEF WafInv

\* What an address has earned stays earned while the logs grow.
LEMMA EarnedGrows ==
    ASSUME WafTyped,
           \A p \in WafProcesses :
               /\ Len(log'[p]) \in Nat /\ DOMAIN log'[p] = 1..Len(log'[p])
               /\ Len(log[p]) <= Len(log'[p])
               /\ \A i \in 1..Len(log[p]) : log'[p][i] = log[p][i],
           NEW a, Earned(a)
    PROVE  Earned(a)'
<1>1. PICK p \in WafProcesses : \E first \in DOMAIN log[p] :
          Cardinality(Counted(p, a, first)) >= StrikeCount
  BY DEF Earned, Counted
<1>2. PICK first \in DOMAIN log[p] : Cardinality(Counted(p, a, first)) >= StrikeCount
  BY <1>1
<1>3. DOMAIN log[p] = 1..Len(log[p]) /\ Len(log[p]) \in Nat
  BY DEF WafTyped
<1>4. DOMAIN log[p] \subseteq DOMAIN log'[p]
  BY <1>3
<1>5. Counted(p, a, first) \subseteq Counted(p, a, first)'
  BY <1>3, <1>4 DEF Counted
<1>6. IsFiniteSet(Counted(p, a, first)')
  <2>1. IsFiniteSet(DOMAIN log'[p])
    BY FS_Interval
  <2>2. QED
    BY <2>1, FS_Subset DEF Counted
<1>7. /\ Cardinality(Counted(p, a, first)) <= Cardinality(Counted(p, a, first)')
      /\ Cardinality(Counted(p, a, first)) \in Nat
      /\ Cardinality(Counted(p, a, first)') \in Nat
  BY <1>5, <1>6, FS_Subset, FS_CardinalityType
<1>8. Cardinality(Counted(p, a, first)') >= StrikeCount
  BY <1>2, <1>7, WafAssumption
<1>9. QED
  BY <1>4, <1>8, <1>2 DEF Earned, Counted

LEMMA WafInvStep == WafInv /\ [WafNext]_wafVars => WafInv'
<1> SUFFICES ASSUME WafInv, [WafNext]_wafVars
             PROVE  WafInv'
  OBVIOUS
<1>1. /\ WafTyped /\ SetCounted
      /\ \A p \in WafProcesses : InOrder(p) /\ EscalationOK(p)
      /\ \A p \in WafProcesses, a \in Addresses : OwnStrikes(p, a)
  BY DEF WafInv
<1>2. /\ \A p \in WafProcesses :
             log[p] \in Seq(StrikeEvents) /\ Len(log[p]) \in Nat
             /\ DOMAIN log[p] = 1..Len(log[p])
      /\ second \in Nat
  BY <1>1 DEF WafTyped
<1>3. ASSUME UNCHANGED log, NEW a, Earned(a)
      PROVE  Earned(a)'
  BY <1>3 DEF Earned
<1>4. CASE StrikeTime
  <2>1. second' = second + 1 /\ UNCHANGED <<strikes, escalation, ipSet, lockToken, log>>
    BY <1>4 DEF StrikeTime
  <2>2. WafTyped' /\ SetCounted'
    BY <1>1, <2>1 DEF WafTyped, SetCounted
  <2>3. ASSUME NEW p \in WafProcesses
        PROVE  InOrder(p)' /\ EscalationOK(p)'
    <3>1. ASSUME NEW j \in 1..Len(log[p])
          PROVE  log[p][j].at \in Nat
      <4>1. log[p][j] \in StrikeEvents
        BY <1>2
      <4>2. QED
        BY <4>1 DEF StrikeEvents
    <3>2. InOrder(p) /\ EscalationOK(p)
      BY <1>1
    <3>3. InOrder(p)'
      BY <1>2, <2>1, <3>1, <3>2 DEF InOrder
    <3>4. EscalationOK(p)'
      BY <1>3, <2>1, <3>2 DEF EscalationOK
    <3>5. QED
      BY <3>3, <3>4
  <2>4. \A p \in WafProcesses, a \in Addresses : OwnStrikes(p, a)'
    BY <1>1, <2>1 DEF OwnStrikes
  <2>5. QED
    BY <2>2, <2>3, <2>4 DEF WafInv
<1>5. ASSUME NEW p \in WafProcesses, NEW a \in Addresses, Strike(p, a)
      PROVE  WafInv'
  <2> DEFINE n == Len(log[p])
             listed == Recent(p, a) \cup {n + 1}
             struck == [address |-> a, at |-> second]
  <2>1. /\ escalation[p] = NoEscalation
        /\ strikes' = [strikes EXCEPT ![p][a] = listed]
        /\ log' = [log EXCEPT ![p] = Append(log[p], struck)]
        /\ escalation' = IF Cardinality(listed) >= StrikeCount
                         THEN [escalation EXCEPT ![p] = [at |-> "get", address |-> a]]
                         ELSE escalation
        /\ UNCHANGED <<second, ipSet, lockToken>>
    BY <1>5 DEF Strike
  <2>2. struck \in StrikeEvents /\ n \in Nat
    BY <1>2 DEF StrikeEvents
  <2>3. /\ Append(log[p], struck) \in Seq(StrikeEvents)
        /\ Len(Append(log[p], struck)) = n + 1
        /\ \A i \in 1..n : Append(log[p], struck)[i] = log[p][i]
        /\ Append(log[p], struck)[n + 1] = struck
    <3> HIDE DEF struck
    <3> QED
      BY <1>2, <2>2
  <2>4. /\ log'[p] \in Seq(StrikeEvents) /\ Len(log'[p]) = n + 1
        /\ DOMAIN log'[p] = 1..n + 1
        /\ \A i \in 1..n : log'[p][i] = log[p][i]
        /\ log'[p][n + 1].address = a /\ log'[p][n + 1].at = second
        /\ \A q \in WafProcesses \ {p} : log'[q] = log[q]
    <3>1. log'[p] = Append(log[p], struck)
          /\ \A q \in WafProcesses \ {p} : log'[q] = log[q]
      BY <1>1, <2>1 DEF WafTyped
    <3>2. QED
      BY <2>2, <2>3, <3>1
  <2>5. /\ strikes'[p][a] = listed
        /\ \A q \in WafProcesses, b \in Addresses :
               q # p \/ b # a => strikes'[q][b] = strikes[q][b]
    BY <1>1, <2>1 DEF WafTyped
  <2>6. OwnStrikes(p, a) /\ InOrder(p)
    BY <1>1
  <2>7. Recent(p, a) \subseteq 1..n
    BY <2>6 DEF Recent, OwnStrikes
  <2>8. listed \subseteq 1..n + 1 /\ listed \in SUBSET Nat
    BY <2>2, <2>7
  <2>9. WafTyped'
    <3>1. log' \in [WafProcesses -> Seq(StrikeEvents)]
      BY <1>1, <2>1, <2>3 DEF WafTyped
    <3>2. strikes' \in [WafProcesses -> [Addresses -> SUBSET Nat]]
      <4> HIDE DEF listed
      <4> QED
        BY <1>1, <2>1, <2>8 DEF WafTyped
    <3>3. QED
      BY <1>1, <2>1, <3>1, <3>2 DEF WafTyped
  <2>10. SetCounted'
    BY <1>1, <2>1 DEF SetCounted
  <2>11. ASSUME NEW i \in 1..n + 1
         PROVE  log'[p][i].at \in Nat
    <3>1. log'[p][i] \in StrikeEvents
      BY <2>4
    <3>2. QED
      BY <3>1 DEF StrikeEvents
  <2>12. InOrder(p)'
    <3> SUFFICES ASSUME NEW i \in 1..n + 1, NEW j \in 1..n + 1, i <= j
                 PROVE  log'[p][i].at <= log'[p][j].at /\ log'[p][j].at <= second
      BY <2>1, <2>4 DEF InOrder
    <3>1. CASE j \in 1..n
      <4>1. i \in 1..n
        BY <2>2, <3>1
      <4>2. QED
        BY <2>4, <2>6, <3>1, <4>1 DEF InOrder
    <3>2. CASE j = n + 1
      <4>1. CASE i \in 1..n
        <5>1. log'[p][i] = log[p][i] /\ i <= i
          BY <2>4, <4>1
        <5>2. log[p][i].at <= second
          BY <2>6, <4>1, <5>1 DEF InOrder
        <5>3. log'[p][j].at = second
          BY <2>4, <3>2
        <5>4. QED
          BY <1>2, <5>1, <5>2, <5>3
      <4>2. CASE i = n + 1
        BY <1>2, <2>4, <3>2, <4>2
      <4>3. QED
        BY <2>2, <4>1, <4>2
    <3>3. QED
      BY <2>2, <3>1, <3>2
  <2>13. ASSUME NEW q \in WafProcesses, NEW b \in Addresses
         PROVE  OwnStrikes(q, b)'
    <3>1. CASE q = p /\ b = a
      <4>1. \A i \in listed : log'[p][i].address = a
        <5> SUFFICES ASSUME NEW i \in listed PROVE log'[p][i].address = a
          OBVIOUS
        <5>1. CASE i = n + 1
          BY <2>4, <5>1
        <5>2. CASE i \in Recent(p, a)
          <6>1. i \in 1..n /\ i \in strikes[p][a]
            BY <2>7, <5>2 DEF Recent
          <6>2. QED
            BY <2>4, <2>6, <6>1 DEF OwnStrikes
        <5>3. QED
          BY <5>1, <5>2
      <4>2. QED
        BY <2>4, <2>5, <2>8, <3>1, <4>1 DEF OwnStrikes
    <3>2. CASE q # p \/ b # a
      <4>1. OwnStrikes(q, b) /\ strikes'[q][b] = strikes[q][b]
        BY <1>1, <2>5, <3>2
      <4>2. /\ Len(log[q]) <= Len(log'[q])
            /\ \A i \in 1..Len(log[q]) : log'[q][i] = log[q][i]
            /\ Len(log[q]) \in Nat /\ Len(log'[q]) \in Nat
        <5>1. CASE q = p
          BY <2>2, <2>4, <5>1
        <5>2. CASE q # p
          BY <1>2, <2>4, <5>2
        <5>3. QED
          BY <5>1, <5>2
      <4>3. 1..Len(log[q]) \subseteq 1..Len(log'[q])
        BY <4>2
      <4>4. QED
        BY <4>1, <4>2, <4>3 DEF OwnStrikes
    <3>3. QED
      BY <3>1, <3>2
  <2>14. ASSUME NEW b, Earned(b)
         PROVE  Earned(b)'
    <3>1. \A q \in WafProcesses :
               /\ Len(log'[q]) \in Nat /\ DOMAIN log'[q] = 1..Len(log'[q])
               /\ Len(log[q]) <= Len(log'[q])
               /\ \A i \in 1..Len(log[q]) : log'[q][i] = log[q][i]
      <4> SUFFICES ASSUME NEW q \in WafProcesses
                   PROVE  /\ Len(log'[q]) \in Nat /\ DOMAIN log'[q] = 1..Len(log'[q])
                          /\ Len(log[q]) <= Len(log'[q])
                          /\ \A i \in 1..Len(log[q]) : log'[q][i] = log[q][i]
        OBVIOUS
      <4>1. CASE q = p
        BY <2>2, <2>4, <4>1
      <4>2. CASE q # p
        BY <1>2, <2>4, <4>2
      <4>3. QED
        BY <4>1, <4>2
    <3>2. QED
      BY <1>1, <2>14, <3>1, EarnedGrows
  <2>15. ASSUME Cardinality(listed) >= StrikeCount
         PROVE  Earned(a)'
    <3>1. PICK first \in listed : \A i \in listed : first <= i
      BY <2>8, LeastNumber
    <3>2. first \in 1..n + 1
      BY <2>8, <3>1
    <3>3. ASSUME NEW i \in listed
          PROVE  i \in Counted(p, a, first)'
      <4>1. first <= i /\ i \in 1..n + 1
        BY <2>8, <3>1
      <4>2. log'[p][first].at <= log'[p][i].at /\ log'[p][i].at <= second
        BY <2>1, <2>4, <2>12, <3>2, <4>1 DEF InOrder
      <4>3. second - log'[p][first].at <= StrikeWindow
        <5>1. CASE first = n + 1
          BY <1>2, <2>4, <5>1, WafAssumption
        <5>2. CASE first \in Recent(p, a)
          <6>1. first \in 1..n
            BY <2>7, <5>2
          <6>2. QED
            BY <2>4, <5>2, <6>1 DEF Recent
        <5>3. QED
          BY <3>1, <5>1, <5>2
      <4>4. log'[p][i].address = a
        BY <2>5, <2>13, <3>3 DEF OwnStrikes
      <4>5. log'[p][first].at \in Nat /\ log'[p][i].at \in Nat
        BY <2>11, <3>2, <4>1
      <4>6. log'[p][i].at - log'[p][first].at \in 0..StrikeWindow
        BY <1>2, <4>2, <4>3, <4>5, WafAssumption
      <4>7. QED
        BY <2>4, <4>1, <4>4, <4>6 DEF Counted
    <3>4. listed \subseteq Counted(p, a, first)'
      BY <3>3
    <3>5. IsFiniteSet(Counted(p, a, first)')
      <4>1. IsFiniteSet(1..n + 1)
        BY <2>2, FS_Interval
      <4>2. Counted(p, a, first)' \subseteq 1..n + 1
        BY <2>4 DEF Counted
      <4>3. QED
        BY <4>1, <4>2, FS_Subset
    <3>6. /\ Cardinality(listed) <= Cardinality(Counted(p, a, first)')
          /\ Cardinality(listed) \in Nat
          /\ Cardinality(Counted(p, a, first)') \in Nat
      BY <3>4, <3>5, FS_Subset, FS_CardinalityType
    <3>7. Cardinality(Counted(p, a, first)') >= StrikeCount
      <4> HIDE DEF listed
      <4> QED
        BY <2>15, <3>6, WafAssumption
    <3>8. QED
      BY <2>4, <3>2, <3>7 DEF Earned, Counted
  <2> HIDE DEF listed
  <2>16. ASSUME NEW q \in WafProcesses
         PROVE  EscalationOK(q)'
    <3>1. CASE q = p /\ Cardinality(listed) >= StrikeCount
      <4>1. escalation'[q] = [at |-> "get", address |-> a]
        BY <1>1, <2>1, <3>1 DEF WafTyped
      <4>2. QED
        BY <2>15, <3>1, <4>1 DEF EscalationOK
    <3>2. CASE ~(q = p /\ Cardinality(listed) >= StrikeCount)
      <4>1. escalation'[q] = escalation[q] /\ EscalationOK(q)
        BY <1>1, <2>1, <3>2 DEF WafTyped
      <4>2. QED
        BY <2>1, <2>14, <4>1 DEF EscalationOK
    <3>3. QED
      BY <3>1, <3>2
  <2>17. ASSUME NEW q \in WafProcesses
         PROVE  InOrder(q)'
    <3>1. CASE q # p
      <4>1. log'[q] = log[q] /\ InOrder(q)
        BY <1>1, <2>4, <3>1
      <4>2. QED
        BY <2>1, <4>1 DEF InOrder
    <3>2. QED
      BY <2>12, <3>1
  <2>18. QED
    BY <2>9, <2>10, <2>13, <2>16, <2>17 DEF WafInv
\* The other steps leave the logs and the strikes alone.
<1>6. ASSUME NEW p \in WafProcesses, UNCHANGED <<second, strikes, log>>,
             DOMAIN escalation' = WafProcesses, SetCounted',
             \A q \in WafProcesses : EscalationOK(q)'
      PROVE  WafInv'
  <2>1. WafTyped'
    BY <1>1, <1>6 DEF WafTyped
  <2>2. \A q \in WafProcesses : InOrder(q)'
    BY <1>1, <1>6 DEF InOrder
  <2>3. \A q \in WafProcesses, a \in Addresses : OwnStrikes(q, a)'
    BY <1>1, <1>6 DEF OwnStrikes
  <2>4. QED
    BY <1>6, <2>1, <2>2, <2>3 DEF WafInv
<1>7. ASSUME NEW p \in WafProcesses, GetIpSet(p)
      PROVE  WafInv'
  <2> DEFINE e == escalation[p]
             read == [at |-> "update", address |-> e.address, addresses |-> ipSet,
                      token |-> lockToken]
  <2>1. /\ e.at = "get"
        /\ escalation' = [escalation EXCEPT ![p] =
                              IF e.address \in ipSet THEN NoEscalation ELSE read]
        /\ UNCHANGED <<second, strikes, ipSet, lockToken, log>>
    BY <1>7 DEF GetIpSet
  <2>2. EscalationOK(p) /\ e # NoEscalation
    BY <1>1, <2>1 DEF NoEscalation
  <2>3. lockToken \in Nat
    BY <1>1, FS_Subset, FS_CardinalityType, WafAssumption DEF SetCounted
  <2>4. SetCounted' /\ DOMAIN escalation' = WafProcesses
    BY <1>1, <2>1 DEF SetCounted, WafTyped
  <2>5. ASSUME NEW q \in WafProcesses
        PROVE  EscalationOK(q)'
    <3>1. CASE q # p
      <4>1. EscalationOK(q) /\ escalation'[q] = escalation[q]
        BY <1>1, <2>1, <3>1 DEF WafTyped
      <4>2. QED
        BY <1>3, <2>1, <4>1 DEF EscalationOK
    <3>2. CASE q = p
      <4>1. escalation'[p] = IF e.address \in ipSet THEN NoEscalation ELSE read
        BY <1>1, <2>1 DEF WafTyped
      <4>2. PICK a \in Addresses : e.address = a /\ Earned(a)
        BY <2>1, <2>2 DEF EscalationOK
      <4>3. Earned(a)'
        BY <1>3, <2>1, <4>2
      <4>4. CASE e.address \in ipSet
        BY <3>2, <4>1, <4>4 DEF EscalationOK
      <4>5. CASE e.address \notin ipSet
        <5>1. /\ escalation'[p].at = "update" /\ escalation'[p].address = e.address
              /\ escalation'[p].addresses = ipSet /\ escalation'[p].token = lockToken
          BY <4>1, <4>5
        <5>2. QED
          BY <2>1, <2>3, <3>2, <4>2, <4>3, <4>5, <5>1 DEF EscalationOK
      <4>6. QED
        BY <4>4, <4>5
    <3>3. QED
      BY <3>1, <3>2
  <2>6. QED
    BY <1>6, <2>1, <2>4, <2>5
<1>8. ASSUME NEW p \in WafProcesses, UpdateIpSet(p)
      PROVE  WafInv'
  <2> DEFINE e == escalation[p]
  <2>1. /\ e.at = "update"
        /\ escalation' = [escalation EXCEPT ![p] = NoEscalation]
        /\ UNCHANGED <<second, strikes, log>>
        /\ IF e.token = lockToken
           THEN ipSet' = e.addresses \cup {e.address} /\ lockToken' = lockToken + 1
           ELSE UNCHANGED <<ipSet, lockToken>>
    BY <1>8 DEF UpdateIpSet, UpdateToken
  <2>2. EscalationOK(p) /\ e # NoEscalation
    BY <1>1, <2>1 DEF NoEscalation
  <2>3. lockToken \in Nat /\ IsFiniteSet(ipSet)
    BY <1>1, FS_Subset, FS_CardinalityType, WafAssumption DEF SetCounted
  <2>4. SetCounted' /\ lockToken' >= lockToken
        /\ (lockToken' = lockToken => ipSet' = ipSet)
    <3>1. CASE e.token = lockToken
      <4>1. ipSet' = ipSet \cup {e.address} /\ e.address \notin ipSet
            /\ e.address \in Addresses
        BY <2>1, <2>2, <3>1 DEF EscalationOK
      <4>2. Cardinality(ipSet \cup {e.address}) = Cardinality(ipSet) + 1
        BY <2>3, <4>1, FS_AddElement
      <4>3. QED
        BY <1>1, <2>1, <2>3, <3>1, <4>1, <4>2 DEF SetCounted
    <3>2. CASE e.token # lockToken
      BY <1>1, <2>1, <2>3, <3>2 DEF SetCounted
    <3>3. QED
      BY <3>1, <3>2
  <2>5. lockToken' \in Nat
    BY <2>1, <2>3
  <2>6. ASSUME NEW q \in WafProcesses
        PROVE  EscalationOK(q)'
    <3>1. CASE q # p
      <4>1. EscalationOK(q) /\ escalation'[q] = escalation[q]
        BY <1>1, <2>1, <3>1 DEF WafTyped
      <4>2. CASE escalation[q] = NoEscalation
        BY <4>1, <4>2 DEF EscalationOK
      <4>3. CASE escalation[q] # NoEscalation
        <5>1. PICK a \in Addresses : escalation[q].address = a /\ Earned(a)
          BY <4>1, <4>3 DEF EscalationOK
        <5>2. Earned(a)' /\ escalation[q].at \in {"get", "update"}
          BY <1>3, <2>1, <4>1, <4>3, <5>1 DEF EscalationOK
        <5>3. escalation[q].at = "update" =>
                  /\ escalation[q].token \in Nat
                  /\ escalation[q].token <= lockToken'
                  /\ escalation[q].token = lockToken' =>
                         /\ escalation[q].addresses = ipSet'
                         /\ escalation[q].address \notin ipSet'
          BY <2>3, <2>4, <2>5, <4>1, <4>3 DEF EscalationOK
        <5>4. QED
          BY <4>1, <5>1, <5>2, <5>3 DEF EscalationOK
      <4>4. QED
        BY <4>2, <4>3
    <3>2. CASE q = p
      BY <1>1, <2>1, <3>2 DEF WafTyped, EscalationOK
    <3>3. QED
      BY <3>1, <3>2
  <2>7. DOMAIN escalation' = WafProcesses
    BY <1>1, <2>1 DEF WafTyped
  <2>8. QED
    BY <1>6, <2>1, <2>4, <2>6, <2>7
<1>9. ASSUME NEW p \in WafProcesses, WafCallFails(p)
      PROVE  WafInv'
  <2>1. /\ escalation' = [escalation EXCEPT ![p] = NoEscalation]
        /\ UNCHANGED <<second, strikes, ipSet, lockToken, log>>
    BY <1>9 DEF WafCallFails
  <2>2. SetCounted' /\ DOMAIN escalation' = WafProcesses
    BY <1>1, <2>1 DEF SetCounted, WafTyped
  <2>3. ASSUME NEW q \in WafProcesses
        PROVE  EscalationOK(q)'
    <3>1. EscalationOK(q)
          /\ (escalation'[q] = escalation[q] \/ escalation'[q] = NoEscalation)
      BY <1>1, <2>1 DEF WafTyped
    <3>2. QED
      BY <1>3, <2>1, <3>1 DEF EscalationOK
  <2>4. QED
    BY <1>6, <2>1, <2>2, <2>3
<1>10. CASE UNCHANGED wafVars
  <2>1. UNCHANGED <<second, strikes, escalation, ipSet, lockToken, log>>
    BY <1>10 DEF wafVars
  <2>2. WafTyped' /\ SetCounted'
    BY <1>1, <2>1 DEF WafTyped, SetCounted
  <2>3. ASSUME NEW p \in WafProcesses
        PROVE  InOrder(p)' /\ EscalationOK(p)'
    <3>1. InOrder(p)'
      BY <1>1, <2>1 DEF InOrder
    <3>2. EscalationOK(p)'
      BY <1>1, <1>3, <2>1 DEF EscalationOK
    <3>3. QED
      BY <3>1, <3>2
  <2>4. \A p \in WafProcesses, a \in Addresses : OwnStrikes(p, a)'
    BY <1>1, <2>1 DEF OwnStrikes
  <2>5. QED
    BY <2>2, <2>3, <2>4 DEF WafInv
<1>11. QED
  BY <1>4, <1>5, <1>7, <1>8, <1>9, <1>10 DEF WafNext

\* The clock stops at its bound.
ClockBounded == second \in 0..MaxStrikeTime

LEMMA ClockStaysBounded ==
    /\ WafInit => ClockBounded
    /\ ClockBounded /\ [WafNext]_wafVars => ClockBounded'
<1>1. WafInit => ClockBounded
  BY WafAssumption DEF WafInit, ClockBounded
<1>2. ASSUME ClockBounded, StrikeTime PROVE ClockBounded'
  BY <1>2, WafAssumption DEF StrikeTime, ClockBounded
<1>3. ASSUME ClockBounded, UNCHANGED second PROVE ClockBounded'
  BY <1>3 DEF ClockBounded
<1>4. ASSUME NEW p \in WafProcesses,
             \/ \E a \in Addresses : Strike(p, a)
             \/ GetIpSet(p) \/ UpdateIpSet(p) \/ WafCallFails(p)
      PROVE  UNCHANGED second
  BY <1>4 DEF Strike, GetIpSet, UpdateIpSet, WafCallFails
<1>5. UNCHANGED wafVars => UNCHANGED second
  BY DEF wafVars
<1>6. QED
  BY <1>1, <1>2, <1>3, <1>4, <1>5 DEF WafNext

LEMMA WafInvTypes == WafInv /\ ClockBounded => WafTypeOK
<1> SUFFICES ASSUME WafInv, ClockBounded PROVE WafTypeOK
  OBVIOUS
<1>1. lockToken \in 0..Cardinality(Addresses)
  <2>1. Cardinality(ipSet) <= Cardinality(Addresses) /\ Cardinality(ipSet) \in Nat
        /\ Cardinality(Addresses) \in Nat
    BY WafAssumption, FS_Subset, FS_CardinalityType DEF WafInv, SetCounted
  <2>2. QED
    BY <2>1 DEF WafInv, SetCounted
<1>2. \A p \in WafProcesses : escalation[p].at \in {"none", "get", "update"}
  BY DEF WafInv, EscalationOK, NoEscalation
<1>3. \A p \in WafProcesses, a \in Addresses : strikes[p][a] \subseteq 1..Len(log[p])
  BY DEF WafInv, OwnStrikes
<1>4. QED
  BY <1>1, <1>2, <1>3 DEF WafInv, WafTypeOK, SetCounted, ClockBounded

\* Whatever the processes add at the same time, no address is lost from the IP
\* set, and only one that a process has seen often enough is added.
THEOREM EscalationsAlwaysKept == WafSpec => EscalationsKept
<1>1. ASSUME WafInv, [WafNext]_wafVars
      PROVE  ipSet \subseteq ipSet' /\ \A a \in ipSet' \ ipSet : Earned(a)
  <2>1. CASE UNCHANGED ipSet
    BY <2>1
  <2>2. ASSUME NEW p \in WafProcesses, UpdateIpSet(p), ipSet' # ipSet
        PROVE  ipSet \subseteq ipSet' /\ \A a \in ipSet' \ ipSet : Earned(a)
    <3>1. /\ escalation[p].at = "update" /\ escalation[p].token = lockToken
          /\ ipSet' = escalation[p].addresses \cup {escalation[p].address}
      BY <2>2 DEF UpdateIpSet, UpdateToken
    <3>2. EscalationOK(p) /\ escalation[p] # NoEscalation
      BY <1>1, <3>1 DEF WafInv, NoEscalation
    <3>3. \E a \in Addresses : ipSet' = ipSet \cup {a} /\ Earned(a)
      BY <3>1, <3>2 DEF EscalationOK
    <3>4. QED
      BY <3>3
  <2>3. QED
    BY <1>1, <2>1, <2>2 DEF WafNext, StrikeTime, Strike, GetIpSet, WafCallFails, wafVars
<1>2. QED
  BY WafInvInit, WafInvStep, <1>1, PTL DEF WafSpec, EscalationsKept

-----------------------------------------------------------------------------
(* Delivery of webhooks *)

HolderSteps == {"posting", "sleeping", "queueing"}
TaskSteps == HolderSteps \cup {"none", "rejected", "waiting", "ended"}

\* The tasks in line wait, each once.
LineInv ==
    /\ line \in Seq(Deliveries)
    /\ \A i, j \in DOMAIN line : line[i] = line[j] => i = j

\* What the subscriber has not looked at has no task yet.
UnstartedInv ==
    /\ \A d \in Deliveries : d[1] > event => task[d] = "none"
    /\ \A h \in unchecked : event # 0 /\ task[<<event, h>>] = "none"

\* A retry sleeps for a delay that exists.
AttemptInv ==
    \A d \in Deliveries :
        /\ task[d] \in {"none", "rejected", "waiting"} => attempt[d] = 0
        /\ task[d] = "posting" => attempt[d] <= RetryDelays
        /\ task[d] = "sleeping" => attempt[d] < RetryDelays /\ attempt[d] < retryMax

\* What became of the tasks that ended.
OutcomeInv ==
    /\ \A d \in taken \cup deadLetters : task[d] = "ended"
    /\ taken \intersect deadLetters = {}
    /\ \A d \in Deliveries :
           task[d] = "ended" =>
               \/ d \in taken \cup deadLetters \cup troubled
               \/ ~hasDlq
               \/ retryMax > RetryDelays /\ attempt[d] = RetryDelays

\* The places under the semaphore.
PlacesInv == IsFiniteSet(Holders) /\ free + Cardinality(Holders) = MaxConcurrent

\* The inductive invariant.
DeliveryInv ==
    DeliveryTypeOK /\ LineInv /\ UnstartedInv /\ AttemptInv /\ OutcomeInv /\ PlacesInv

LEMMA DeliveryConstants ==
    /\ MaxEvents \in Nat \ {0} /\ RetryDelays \in Nat \ {0}
    /\ MaxConcurrent \in Nat \ {0}
    /\ RetryBudgets \subseteq Nat
BY DeliveryAssumption

\* A task that moves on changes the holders of a place accordingly.
LEMMA HoldersChange ==
    ASSUME task \in [Deliveries -> TaskSteps], IsFiniteSet(Holders),
           NEW d \in Deliveries, NEW s \in TaskSteps, task' = [task EXCEPT ![d] = s]
    PROVE  /\ IsFiniteSet(Holders')
           /\ Cardinality(Holders) \in Nat /\ Cardinality(Holders') \in Nat
           /\ Cardinality(Holders') =
                  Cardinality(Holders) + (IF s \in HolderSteps THEN 1 ELSE 0)
                                       - (IF task[d] \in HolderSteps THEN 1 ELSE 0)
<1>1. Holders = {e \in Deliveries : task[e] \in HolderSteps}
  BY DEF Holders, HolderSteps
<1>2. Holders' = {e \in Deliveries : task'[e] \in HolderSteps}
  BY DEF Holders, HolderSteps
<1>3. CASE s \in HolderSteps
  <2>1. Holders' = Holders \cup {d}
    BY <1>1, <1>2, <1>3
  <2>2. /\ IsFiniteSet(Holders')
        /\ Cardinality(Holders') = IF d \in Holders THEN Cardinality(Holders)
                                   ELSE Cardinality(Holders) + 1
    BY <2>1, FS_AddElement
  <2>3. Cardinality(Holders) \in Nat
    BY FS_CardinalityType
  <2>4. QED
    BY <1>1, <1>3, <2>2, <2>3
<1>4. CASE s \notin HolderSteps
  <2>1. Holders' = Holders \ {d}
    BY <1>1, <1>2, <1>4
  <2>2. /\ IsFiniteSet(Holders')
        /\ Cardinality(Holders') = IF d \in Holders THEN Cardinality(Holders) - 1
                                   ELSE Cardinality(Holders)
    BY <2>1, FS_RemoveElement
  <2>3. Cardinality(Holders) \in Nat /\ Cardinality(Holders') \in Nat
    BY <2>2, FS_CardinalityType
  <2>4. QED
    BY <1>1, <1>4, <2>2, <2>3
<1>5. QED
  BY <1>3, <1>4

LEMMA DeliveryInvInit == DeliveryInit => DeliveryInv
<1> SUFFICES ASSUME DeliveryInit PROVE DeliveryInv
  OBVIOUS
<1>1. Holders = {}
  BY DEF DeliveryInit, Holders
<1>2. PlacesInv
  BY <1>1, FS_EmptySet, DeliveryConstants DEF PlacesInv, DeliveryInit
<1>3. DeliveryTypeOK
  BY DeliveryConstants DEF DeliveryInit, DeliveryTypeOK
<1>4. QED
  BY <1>2, <1>3, DeliveryConstants
  DEF DeliveryInit, DeliveryInv, LineInv, UnstartedInv, AttemptInv, OutcomeInv

\* A step of a task that does not touch the line.
LEMMA TaskMoves ==
    ASSUME DeliveryInv, NEW d \in Deliveries,
           task[d] \in HolderSteps, NEW s \in HolderSteps \cup {"ended"},
           task' = [task EXCEPT ![d] = s],
           free' = IF s = "ended" THEN free + 1 ELSE free,
           attempt' \in [Deliveries -> 0..retryMax],
           \A e \in Deliveries : e # d => attempt'[e] = attempt[e],
           s = "posting" => attempt'[d] <= RetryDelays,
           s = "sleeping" => attempt'[d] < RetryDelays /\ attempt'[d] < retryMax,
           UNCHANGED <<deliveryConfig, event, unchecked, line>>
    PROVE  /\ task' \in [Deliveries -> TaskSteps]
           /\ \A i \in DOMAIN line' : task'[line'[i]] = "waiting"
           /\ free' \in 0..MaxConcurrent
           /\ LineInv' /\ UnstartedInv' /\ AttemptInv' /\ PlacesInv'
<1> USE DEF DeliveryInv
<1>1. /\ task \in [Deliveries -> TaskSteps] /\ s \in TaskSteps
      /\ free \in 0..MaxConcurrent /\ MaxConcurrent \in Nat
  BY DeliveryConstants DEF DeliveryTypeOK, TaskSteps, HolderSteps
<1>2. PlacesInv' /\ free' \in 0..MaxConcurrent
  <2>1. /\ IsFiniteSet(Holders')
        /\ Cardinality(Holders) \in Nat /\ Cardinality(Holders') \in Nat
        /\ Cardinality(Holders') =
               Cardinality(Holders) + (IF s \in HolderSteps THEN 1 ELSE 0) - 1
    BY <1>1, HoldersChange DEF PlacesInv
  <2>2. free' + Cardinality(Holders') = MaxConcurrent
    BY <1>1, <2>1 DEF PlacesInv, HolderSteps
  <2>3. QED
    BY <1>1, <2>1, <2>2 DEF PlacesInv
<1>3. \A i \in DOMAIN line' : line'[i] \in Deliveries /\ task'[line'[i]] = "waiting"
  BY <1>1 DEF LineInv, DeliveryTypeOK, HolderSteps
<1>4. UnstartedInv'
  <2>1. \A e \in Deliveries : task[e] = "none" => task'[e] = "none"
    BY <1>1 DEF HolderSteps
  <2>2. \A h \in unchecked : <<event, h>> \in Deliveries
    BY DeliveryConstants DEF UnstartedInv, DeliveryTypeOK, Deliveries
  <2>3. QED
    BY <2>1, <2>2 DEF UnstartedInv
<1>5. AttemptInv'
  <2> SUFFICES ASSUME NEW e \in Deliveries
               PROVE /\ task'[e] \in {"none", "rejected", "waiting"} => attempt'[e] = 0
                     /\ task'[e] = "posting" => attempt'[e] <= RetryDelays
                     /\ task'[e] = "sleeping" =>
                            attempt'[e] < RetryDelays /\ attempt'[e] < retryMax'
    BY DEF AttemptInv
  <2>1. CASE e = d
    BY <1>1, <2>1 DEF HolderSteps, deliveryConfig
  <2>2. CASE e # d
    BY <1>1, <2>2 DEF AttemptInv, deliveryConfig
  <2>3. QED
    BY <2>1, <2>2
<1>6. LineInv'
  BY DEF LineInv
<1>7. QED
  BY <1>1, <1>2, <1>3, <1>4, <1>5, <1>6

LEMMA DeliveryInvStep == DeliveryInv /\ [DeliveryNext]_deliveryVars => DeliveryInv'
<1> SUFFICES ASSUME DeliveryInv, [DeliveryNext]_deliveryVars PROVE DeliveryInv'
  OBVIOUS
<1> USE DeliveryConstants DEF DeliveryInv
<1>1. /\ task \in [Deliveries -> TaskSteps]
      /\ free \in 0..MaxConcurrent /\ event \in 0..MaxEvents /\ event \in Nat
      /\ retryMax \in Nat
      /\ attempt \in [Deliveries -> 0..retryMax]
  BY DEF DeliveryTypeOK, TaskSteps, HolderSteps
<1>2. CASE OnEvent
  <2>1. DeliveryTypeOK'
    BY <1>2 DEF OnEvent, DeliveryTypeOK, deliveryConfig
  <2>2. UnstartedInv'
    <3>1. \A h \in Hooks : <<event + 1, h>> \in Deliveries
      BY <1>1, <1>2 DEF OnEvent, Deliveries
    <3>2. \A d \in Deliveries : d[1] \in Nat
      BY DEF Deliveries
    <3>3. QED
      BY <1>1, <1>2, <3>1, <3>2 DEF OnEvent, UnstartedInv
  <2>3. Holders' = Holders
    BY <1>2 DEF OnEvent, Holders
  <2>4. QED
    BY <1>2, <2>1, <2>2, <2>3
    DEF OnEvent, deliveryConfig, LineInv, AttemptInv, OutcomeInv, PlacesInv
<1>3. ASSUME NEW h \in Hooks, CheckUrl(h) PROVE DeliveryInv'
  <2> DEFINE d == <<event, h>>
  <2>1. /\ d \in Deliveries /\ h \in unchecked /\ task[d] = "none" /\ attempt[d] = 0
        /\ unchecked' = unchecked \ {h}
        /\ UNCHANGED <<hasDlq, retryMax, event, attempt, free, deadLetters, taken,
                       troubled>>
    <3>1. d \in Deliveries
      BY <1>1, <1>3 DEF CheckUrl, UnstartedInv, Deliveries
    <3>2. QED
      BY <1>3, <3>1 DEF CheckUrl, UnstartedInv, AttemptInv, deliveryConfig
  <2>2. PICK s \in {"waiting", "rejected"} :
            /\ task' = [task EXCEPT ![d] = s]
            /\ line' = IF s = "waiting" THEN Append(line, d) ELSE line
    BY <1>3 DEF CheckUrl
  <2> HIDE DEF d
  <2>3. /\ task'[d] = s /\ \A e \in Deliveries : e # d => task'[e] = task[e]
        /\ task' \in [Deliveries -> TaskSteps]
    BY <1>1, <2>1, <2>2 DEF TaskSteps
  <2>4. \A i \in DOMAIN line : line[i] \in Deliveries /\ line[i] # d
    BY <2>1 DEF LineInv, DeliveryTypeOK
  <2>5. LineInv' /\ \A i \in DOMAIN line' : task'[line'[i]] = "waiting"
    <3>1. CASE s = "waiting"
      <4>1. /\ line' \in Seq(Deliveries) /\ DOMAIN line' = 1..(Len(line) + 1)
            /\ line'[Len(line) + 1] = d /\ DOMAIN line = 1..Len(line)
            /\ Len(line) \in Nat
            /\ \A i \in DOMAIN line : line'[i] = line[i]
        BY <2>1, <2>2, <3>1 DEF LineInv
      <4>2. \A i \in DOMAIN line' :
                (i \in DOMAIN line /\ line'[i] = line[i]) \/ line'[i] = d
        BY <4>1
      <4>3. \A i \in DOMAIN line' : task'[line'[i]] = "waiting"
        BY <2>3, <2>4, <3>1, <4>2 DEF DeliveryTypeOK
      <4>4. ASSUME NEW i \in DOMAIN line', NEW j \in DOMAIN line', line'[i] = line'[j]
            PROVE  i = j
        <5>1. CASE i \in DOMAIN line /\ j \in DOMAIN line
          BY <4>1, <4>4, <5>1 DEF LineInv
        <5>2. CASE i \notin DOMAIN line \/ j \notin DOMAIN line
          BY <2>4, <4>1, <4>2, <4>4, <5>2
        <5>3. QED
          BY <5>1, <5>2
      <4>5. QED
        BY <4>1, <4>3, <4>4 DEF LineInv
    <3>2. CASE s # "waiting"
      BY <2>2, <2>3, <2>4, <3>2 DEF LineInv, DeliveryTypeOK
    <3>3. QED
      BY <3>1, <3>2
  <2>6. DeliveryTypeOK'
    BY <1>1, <2>1, <2>3, <2>5 DEF DeliveryTypeOK, TaskSteps, HolderSteps
  <2>7. UnstartedInv'
    <3>1. ASSUME NEW e \in Deliveries, e[1] > event' PROVE task'[e] = "none"
      <4>1. d[1] = event
        BY DEF d
      <4>2. QED
        BY <1>1, <2>1, <2>3, <3>1, <4>1 DEF UnstartedInv
    <3>2. ASSUME NEW g \in unchecked' PROVE event' # 0 /\ task'[<<event', g>>] = "none"
      <4>1. g \in unchecked /\ g # h /\ g \in Hooks
        BY <2>1, <3>2 DEF DeliveryTypeOK
      <4>2. <<event, g>> # d /\ <<event, g>> \in Deliveries
        BY <1>1, <2>1, <4>1 DEF d, UnstartedInv, Deliveries
      <4>3. QED
        BY <2>1, <2>3, <4>1, <4>2 DEF UnstartedInv
    <3>3. QED
      BY <3>1, <3>2 DEF UnstartedInv
  <2>8. AttemptInv' /\ OutcomeInv'
    BY <2>1, <2>3 DEF AttemptInv, OutcomeInv, DeliveryTypeOK
  <2>9. PlacesInv'
    <3>1. Holders' = Holders
      BY <2>1, <2>3 DEF Holders
    <3>2. QED
      BY <2>1, <3>1 DEF PlacesInv
  <2>10. QED
    BY <2>5, <2>6, <2>7, <2>8, <2>9
<1>4. CASE Acquire
  <2> DEFINE d == Head(line)
  <2>1. /\ free > 0 /\ free' = free - 1 /\ line' = Tail(line)
        /\ task' = [task EXCEPT ![d] = "posting"] /\ line # <<>>
        /\ UNCHANGED <<hasDlq, retryMax, event, unchecked, attempt, deadLetters, taken,
                       troubled>>
    BY <1>4 DEF Acquire, deliveryConfig
  <2>2. /\ d = line[1] /\ 1 \in DOMAIN line /\ line \in Seq(Deliveries)
        /\ d \in Deliveries /\ task[d] = "waiting" /\ attempt[d] = 0
    BY <2>1 DEF LineInv, DeliveryTypeOK, AttemptInv
  <2>3. /\ line' \in Seq(Deliveries)
        /\ \A i \in DOMAIN line' : i + 1 \in DOMAIN line /\ line'[i] = line[i + 1]
                                   /\ i \in Nat /\ i # 0
    BY <2>1, <2>2
  <2> HIDE DEF d
  <2>4. /\ task'[d] = "posting" /\ \A e \in Deliveries : e # d => task'[e] = task[e]
        /\ task' \in [Deliveries -> TaskSteps]
    BY <1>1, <2>1, <2>2 DEF TaskSteps, HolderSteps
  <2>5. \A i \in DOMAIN line' : line'[i] \in Deliveries /\ line'[i] # d
    BY <2>2, <2>3 DEF LineInv
  <2>6. \A i \in DOMAIN line' : task'[line'[i]] = "waiting"
    BY <2>3, <2>4, <2>5 DEF DeliveryTypeOK
  <2>7. LineInv'
    BY <2>2, <2>3 DEF LineInv
  <2>8. DeliveryTypeOK'
    BY <1>1, <2>1, <2>4, <2>6 DEF DeliveryTypeOK, TaskSteps, HolderSteps
  <2>9. UnstartedInv' /\ AttemptInv' /\ OutcomeInv'
    <3>1. \A g \in unchecked : <<event, g>> \in Deliveries
      BY <1>1 DEF UnstartedInv, Deliveries, DeliveryTypeOK
    <3>2. UnstartedInv'
      BY <2>1, <2>2, <2>4, <3>1 DEF UnstartedInv
    <3>3. AttemptInv' /\ OutcomeInv'
      BY <1>1, <2>1, <2>2, <2>4 DEF AttemptInv, OutcomeInv, DeliveryTypeOK
    <3>4. QED
      BY <3>2, <3>3
  <2>10. PlacesInv'
    <3>1. /\ IsFiniteSet(Holders') /\ Cardinality(Holders) \in Nat
          /\ Cardinality(Holders') = Cardinality(Holders) + 1 - 0
      BY <1>1, <2>1, <2>2, HoldersChange DEF PlacesInv, TaskSteps, HolderSteps
    <3>2. QED
      BY <1>1, <2>1, <3>1 DEF PlacesInv
  <2>11. QED
    BY <2>7, <2>8, <2>9, <2>10
<1>5. ASSUME NEW d \in Deliveries, PostSucceeds(d) \/ PostRaises(d) \/ EnqueueDlq(d)
      PROVE DeliveryInv'
  <2>1. /\ task[d] \in {"posting", "queueing"} /\ EndsTask(d)
        /\ UNCHANGED <<hasDlq, retryMax, event, unchecked, attempt, line>>
        /\ \/ taken' = taken \cup {d} /\ UNCHANGED <<deadLetters, troubled>>
           \/ troubled' = troubled \cup {d} /\ UNCHANGED <<deadLetters, taken>>
           \/ deadLetters' = deadLetters \cup {d} /\ UNCHANGED <<taken, troubled>>
    BY <1>5 DEF PostSucceeds, PostRaises, EnqueueDlq, deliveryConfig
  <2>2. /\ task' \in [Deliveries -> TaskSteps]
        /\ \A i \in DOMAIN line' : task'[line'[i]] = "waiting"
        /\ free' \in 0..MaxConcurrent
        /\ LineInv' /\ UnstartedInv' /\ AttemptInv' /\ PlacesInv'
    BY <1>1, <2>1, TaskMoves DEF EndsTask, HolderSteps, deliveryConfig
  <2>3. DeliveryTypeOK'
    BY <2>1, <2>2 DEF DeliveryTypeOK, TaskSteps, HolderSteps
  <2>4. /\ task'[d] = "ended" /\ d \notin taken \cup deadLetters
        /\ \A e \in Deliveries : e # d => task'[e] = task[e]
    BY <1>1, <2>1 DEF EndsTask, OutcomeInv
  <2>5. OutcomeInv'
    BY <2>1, <2>4 DEF OutcomeInv, DeliveryTypeOK
  <2>6. QED
    BY <2>2, <2>3, <2>5
<1>6. ASSUME NEW d \in Deliveries, NEW responded \in BOOLEAN, PostFails(d, responded)
      PROVE DeliveryInv'
  <2>1. /\ task[d] = "posting" /\ attempt[d] <= RetryDelays
           /\ attempt[d] \in 0..retryMax
        /\ UNCHANGED <<deliveryConfig, hasDlq, retryMax, event, unchecked, attempt,
                       line, deadLetters, taken, troubled>>
    BY <1>1, <1>6 DEF PostFails, deliveryConfig, AttemptInv
  <2>2. PICK s \in HolderSteps \cup {"ended"} :
            /\ task' = [task EXCEPT ![d] = s]
            /\ free' = IF s = "ended" THEN free + 1 ELSE free
            /\ s # "posting"
            /\ s = "sleeping" => attempt[d] < RetryDelays /\ attempt[d] < retryMax
            /\ s = "ended" => \/ ~hasDlq
                              \/ retryMax > RetryDelays /\ attempt[d] = RetryDelays
    <3>1. CASE attempt[d] = retryMax
      <4>1. Exhausted(d, responded)
        BY <1>1, <1>6, <2>1, <3>1 DEF PostFails
      <4>2. QED
        BY <4>1 DEF Exhausted, EndsTask, HolderSteps
    <3>2. CASE attempt[d] < retryMax /\ attempt[d] < RetryDelays
      <4>1. task' = [task EXCEPT ![d] = "sleeping"] /\ UNCHANGED free
        BY <1>1, <1>6, <2>1, <3>2 DEF PostFails
      <4>2. QED
        BY <3>2, <4>1 DEF HolderSteps
    <3>3. CASE attempt[d] < retryMax /\ attempt[d] >= RetryDelays
      <4>1. EndsTask(d)
        BY <1>1, <1>6, <2>1, <3>3 DEF PostFails
      <4>2. attempt[d] = RetryDelays
        BY <2>1, <3>3
      <4>3. QED
        BY <3>3, <4>1, <4>2 DEF EndsTask
    <3>4. QED
      BY <1>1, <2>1, <3>1, <3>2, <3>3
  <2>3. /\ task' \in [Deliveries -> TaskSteps]
        /\ \A i \in DOMAIN line' : task'[line'[i]] = "waiting"
        /\ free' \in 0..MaxConcurrent
        /\ LineInv' /\ UnstartedInv' /\ AttemptInv' /\ PlacesInv'
    <3>1. task[d] \in HolderSteps
      BY <2>1 DEF HolderSteps
    <3>2. QED
      BY <1>1, <2>1, <2>2, <3>1, TaskMoves
  <2>4. DeliveryTypeOK'
    BY <2>1, <2>3 DEF DeliveryTypeOK, TaskSteps, HolderSteps
  <2>5. /\ task'[d] = s /\ d \notin taken \cup deadLetters
        /\ \A e \in Deliveries : e # d => task'[e] = task[e]
    BY <1>1, <2>1, <2>2 DEF OutcomeInv
  <2>6. OutcomeInv'
    BY <2>1, <2>2, <2>5 DEF OutcomeInv, DeliveryTypeOK
  <2>7. QED
    BY <2>3, <2>4, <2>6
<1>7. ASSUME NEW d \in Deliveries, Wakes(d) PROVE DeliveryInv'
  <2>1. /\ task[d] = "sleeping" /\ attempt[d] < RetryDelays /\ attempt[d] < retryMax
        /\ task' = [task EXCEPT ![d] = "posting"]
        /\ attempt' = [attempt EXCEPT ![d] = attempt[d] + 1]
        /\ UNCHANGED <<deliveryConfig, hasDlq, retryMax, event, unchecked, line, free,
                       deadLetters, taken, troubled>>
    BY <1>7 DEF Wakes, AttemptInv, deliveryConfig
  <2>2. /\ attempt' \in [Deliveries -> 0..retryMax] /\ attempt'[d] <= RetryDelays
        /\ \A e \in Deliveries : e # d => attempt'[e] = attempt[e]
    BY <1>1, <2>1
  <2>3. /\ task' \in [Deliveries -> TaskSteps]
        /\ \A i \in DOMAIN line' : task'[line'[i]] = "waiting"
        /\ free' \in 0..MaxConcurrent
        /\ LineInv' /\ UnstartedInv' /\ AttemptInv' /\ PlacesInv'
    <3>1. task[d] \in HolderSteps /\ "posting" \in HolderSteps
      BY <2>1 DEF HolderSteps
    <3>2. QED
      BY <1>1, <2>1, <2>2, <3>1, TaskMoves
  <2>4. DeliveryTypeOK'
    BY <2>1, <2>2, <2>3 DEF DeliveryTypeOK, TaskSteps, HolderSteps
  <2>5. OutcomeInv'
    <3>1. \A e \in Deliveries : task'[e] = "ended" <=> task[e] = "ended"
      BY <1>1, <2>1
    <3>2. QED
      BY <1>1, <2>1, <2>2, <3>1 DEF OutcomeInv, DeliveryTypeOK
  <2>6. QED
    BY <2>3, <2>4, <2>5
<1>8. CASE ProcessStops
  <2> DEFINE underWay == Holders \cup {d \in Deliveries : task[d] = "waiting"}
  <2>1. /\ troubled' = troubled \cup underWay
        /\ task' = [d \in Deliveries |-> IF d \in underWay THEN "ended" ELSE task[d]]
        /\ line' = <<>> /\ free' = MaxConcurrent /\ unchecked' = {}
        /\ UNCHANGED <<hasDlq, retryMax, event, attempt, deadLetters, taken>>
    BY <1>8 DEF ProcessStops, deliveryConfig
  <2>2. underWay \subseteq Deliveries
    BY DEF Holders
  <2>3. \A d \in Deliveries : task'[d] \in {"none", "rejected", "ended"}
    BY <1>1, <2>1 DEF Holders, TaskSteps, HolderSteps
  <2>4. Holders' = {}
    BY <2>3 DEF Holders
  <2>5. PlacesInv'
    BY <2>1, <2>4, FS_EmptySet DEF PlacesInv
  <2>6. DeliveryTypeOK'
    BY <1>1, <2>1, <2>2, <2>3 DEF DeliveryTypeOK
  <2>7. \A d \in Deliveries : /\ task[d] = "none" => task'[d] = "none"
                              /\ task'[d] \in {"none", "rejected"} => task'[d] = task[d]
                              /\ task[d] = "ended" => task'[d] = "ended"
                              /\ task'[d] = "ended" =>
                                     task[d] = "ended" \/ d \in underWay
    BY <1>1, <2>1 DEF Holders
  <2> HIDE DEF underWay
  <2>8. LineInv' /\ UnstartedInv' /\ AttemptInv'
    BY <2>1, <2>3, <2>7 DEF LineInv, UnstartedInv, AttemptInv
  <2>9. OutcomeInv'
    BY <2>1, <2>7 DEF OutcomeInv, DeliveryTypeOK
  <2>10. QED
    BY <2>5, <2>6, <2>8, <2>9
<1>9. CASE UNCHANGED deliveryVars
  <2>1. Holders' = Holders
    BY <1>9 DEF deliveryVars, Holders
  <2>2. QED
    BY <1>9, <2>1 DEF deliveryVars, deliveryConfig, DeliveryTypeOK, LineInv,
       UnstartedInv, AttemptInv, OutcomeInv, PlacesInv
<1>10. QED
  BY <1>2, <1>3, <1>4, <1>5, <1>6, <1>7, <1>8, <1>9 DEF DeliveryNext

\* A task that ends has delivered its event or accounts for it, and gives back its
\* place (WebhookDelivery._deliver_guarded(), _deliver_with_retry()).
THEOREM DeliveryAlwaysAccounted == DeliverySpec => []DeliveryAccounted
<1>1. DeliveryInv => DeliveryAccounted
  BY DEF DeliveryInv, OutcomeInv, PlacesInv, DeliveryAccounted
<1>2. QED
  BY <1>1, DeliveryInvInit, DeliveryInvStep, PTL DEF DeliverySpec

-----------------------------------------------------------------------------
(* All parts *)

\* Every variable of the parts that run beside the requests keeps its type.
THEOREM BackgroundTyped == MCSpec => []MCTypeOK
<1> DEFINE allVars == <<part, poolVars, rotationVars, threatVars, auditVars,
                        deliveryVars, wafVars, shieldVars>>
           Inv == /\ PoolInv /\ RotationInv /\ FeedsInv /\ AuditInv /\ DeliveryInv
                  /\ WafInv /\ ClockBounded /\ ShieldInv
<1>1. MCInit => Inv
  BY PoolInvInit, RotationInit0, FeedsInvInit, AuditInvInit, DeliveryInvInit,
     WafInvInit, ClockStaysBounded, ShieldInvInit DEF MCInit
<1>2. ASSUME Inv, [MCNext]_allVars
      PROVE  Inv'
  <2>1. /\ [PoolNext]_poolVars /\ [RotationNext]_rotationVars
        /\ [ThreatNext]_threatVars /\ [AuditNext]_auditVars
        /\ [DeliveryNext]_deliveryVars /\ [WafNext]_wafVars
        /\ [ShieldNext]_shieldVars
    BY <1>2 DEF MCNext
  <2>2. QED
    BY <1>2, <2>1, PoolInvStep, RotationInvStep, FeedsInvStep, AuditInvStep,
       DeliveryInvStep, WafInvStep, ClockStaysBounded, ShieldInvStep
<1>3. Inv => MCTypeOK
  <2>1. RotationInv => RotationTypeOK
    BY TypedParts DEF RotationInv, RotationTyped
  <2>2. QED
    BY <2>1, AuditInvTypes, WafInvTypes
    DEF MCTypeOK, PoolInv, FeedsInv, DeliveryInv, ShieldInv
<1>4. QED
  BY <1>1, <1>2, <1>3, PTL DEF MCSpec

=============================================================================
