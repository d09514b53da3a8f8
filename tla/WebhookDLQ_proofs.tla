-------------------------- MODULE WebhookDLQ_proofs --------------------------
(***************************************************************************)
(* Theorems about the dead-letter queue, for every set of event ids, urls, *)
(* consumers and operators and every configuration.                        *)
(***************************************************************************)
EXTENDS WebhookDLQ, TLAPS

\* A consumer that is dispatching, and a replay, are about some event.
CurOK ==
    /\ \A c \in Consumers :
        pc[c] \in {"exists", "remove", "hget", "update"} => cur[c] \in Events
    /\ \A o \in Operators : op[o] \in {"zrem", "requeue"} => cur[o] \in Events

TypeInv == TypeOK /\ CurOK

-----------------------------------------------------------------------------
LEMMA TypeInvInit == Init => TypeInv
BY ConfigAssumption DEF Init, TypeInv, TypeOK, ScansHashes, CurOK, Procs, Keys,
   Hash, Snapshot, Blank

\* No scan but that of purge_all comes across a sorted set.
LEMMA ScansHashesStep == TypeInv /\ [Next]_vars => ScansHashes'
<1> SUFFICES ASSUME TypeInv, [Next]_vars PROVE ScansHashes'
  OBVIOUS
<1>1. /\ todo \in [Procs -> SUBSET Keys] /\ ScansHashes /\ stored \in SUBSET Events
      /\ op \in [Operators -> {"idle", "zrem", "requeue", "purge_all", "purge_url"}]
      /\ Consumers \subseteq Procs /\ Operators \subseteq Procs
      /\ \A c \in Consumers : c \notin Operators
  BY ConfigAssumption DEF TypeInv, TypeOK, Procs
<1>2. ASSUME UNCHANGED <<todo, op>> PROVE ScansHashes'
  BY <1>1, <1>2 DEF ScansHashes
<1>3. ASSUME NEW c \in Consumers, NEW keys, keys \subseteq todo[c] \cup Events,
             todo' = [todo EXCEPT ![c] = keys], op' = op
      PROVE  ScansHashes'
  BY <1>1, <1>3 DEF ScansHashes
<1>4. ASSUME NEW o \in Operators, NEW to, op' = [op EXCEPT ![o] = to],
             NEW keys, todo' = [todo EXCEPT ![o] = keys],
             to # "purge_all" => keys \subseteq Events
      PROVE  ScansHashes'
  BY <1>1, <1>4 DEF ScansHashes
<1>5. ASSUME NEW c \in Consumers, ConsumerStep(c) PROVE ScansHashes'
  <2>1. CASE PurgeScan(c)
    <3>1. todo' = [todo EXCEPT ![c] = stored] /\ op' = op
      BY <2>1 DEF PurgeScan
    <3>2. QED
      BY <1>1, <1>3, <3>1
  <2>2. CASE \E e \in Events : PurgeExpired(c, e)
    <3>1. PICK e \in Events : todo' = [todo EXCEPT ![c] = @ \ {e}] /\ op' = op
      BY <2>2 DEF PurgeExpired
    <3>2. todo' = [todo EXCEPT ![c] = todo[c] \ {e}]
      BY <3>1
    <3>3. QED
      BY <1>3, <3>1, <3>2
  <2>3. ASSUME ~PurgeScan(c), ~\E e \in Events : PurgeExpired(c, e)
        PROVE  UNCHANGED <<todo, op>>
    BY <1>5, <2>3
    DEF ConsumerStep, SelectDue, FetchEvent, Undecodable, Delivered,
        FailedAndCopied, FailedOnly, Dispatch, RemoveExists, Remove, ReadAttempts,
        Reschedule, MarkDead, EndUpdate, EndBatch, PurgeEnd, Wake
  <2>4. QED
    BY <1>2, <2>1, <2>2, <2>3
<1>6. ASSUME NEW o \in Operators, OperatorStep(o) PROVE ScansHashes'
  <2>1. ASSUME Finish(o) PROVE ScansHashes'
    BY <1>4, <2>1 DEF Finish
  <2>2. CASE \E e \in Events : ReplayInspect(o, e)
    <3>1. op[o] = "idle" /\ op' = [op EXCEPT ![o] = "zrem"] /\ todo' = todo
      BY <2>2 DEF ReplayInspect, Begin
    <3>2. QED
      BY <1>1, <3>1 DEF ScansHashes
  <2>3. CASE ReplayZrem(o)
    <3>1. CASE cur[o] \in dead
      <4>1. /\ op[o] = "zrem" /\ op' = [op EXCEPT ![o] = "requeue"]
            /\ todo' = todo
        BY <2>3, <3>1 DEF ReplayZrem
      <4>2. QED
        BY <1>1, <4>1 DEF ScansHashes
    <3>2. CASE cur[o] \notin dead
      BY <2>1, <2>3, <3>2 DEF ReplayZrem
    <3>3. QED
      BY <3>1, <3>2
  <2>4. CASE ReplayRequeue(o) \/ PurgeFinished(o) \/ OperatorError(o)
    BY <2>1, <2>4 DEF ReplayRequeue, PurgeFinished, OperatorError
  <2>5. CASE PurgeAll(o)
    BY <1>4, <2>5 DEF PurgeAll, Begin
  <2>6. CASE PurgeAllPage(o)
    <3>1. /\ op[o] = "purge_all" /\ op' = op
          /\ \E page : todo' = [todo EXCEPT ![o] = @ \ page]
      BY <2>6 DEF PurgeAllPage
    <3>2. QED
      BY <1>1, <3>1 DEF ScansHashes
  <2>7. CASE \E url \in Urls : PurgeByUrl(o, url)
    BY <1>4, <2>7 DEF PurgeByUrl, Begin
  <2>8. CASE \E e \in Events : PurgeUrlVisit(o, e)
    <3>1. /\ op[o] = "purge_url" /\ op' = op
          /\ \E e : todo' = [todo EXCEPT ![o] = @ \ {e}]
      BY <2>8 DEF PurgeUrlVisit
    <3>2. QED
      BY <1>1, <3>1 DEF ScansHashes
  <2>9. QED
    BY <1>6, <2>2, <2>3, <2>4, <2>5, <2>6, <2>7, <2>8 DEF OperatorStep
<1>7. ASSUME NEW c \in Consumers,
             Start(c) \/ Stop(c) \/ RedisError(c) \/ \E e \in Events : FetchError(c, e)
      PROVE  ScansHashes'
  <2>1. CASE Stop(c) \/ RedisError(c)
    <3>1. todo' = [todo EXCEPT ![c] = {}] /\ op' = op
      BY <2>1 DEF Stop, RedisError, GiveUp
    <3>2. QED
      BY <1>3, <3>1
  <2>2. CASE Start(c) \/ \E e \in Events : FetchError(c, e)
    BY <1>2, <2>2 DEF Start, FetchError
  <2>3. QED
    BY <1>7, <2>1, <2>2
<1>8. CASE Environment
  BY <1>2, <1>8
  DEF Environment, BecomeDue, Age, FirstDeliveryExhausted, Enqueue, progress
<1>9. CASE UNCHANGED vars
  BY <1>2, <1>9 DEF vars, progress
<1>10. QED
  BY <1>5, <1>6, <1>7, <1>8, <1>9 DEF Next

\* Every step of the consumers keeps the types.
LEMMA TypeInvConsumer ==
    ASSUME TypeInv, ScansHashes', NEW c \in Consumers,
           \/ ConsumerStep(c) \/ Start(c) \/ Stop(c) \/ RedisError(c)
           \/ \E e \in Events : FetchError(c, e)
    PROVE  TypeInv'
<1> USE ConfigAssumption
    DEF TypeInv, TypeOK, CurOK, Procs, Hash, Snapshot, Blank, redis, history, Go
<1>1. CASE Start(c)
  BY <1>1 DEF Start
<1>2. CASE Stop(c)
  BY <1>2 DEF Stop, GiveUp
<1>3. CASE RedisError(c)
  BY <1>3 DEF RedisError, GiveUp
<1>4. CASE \E e \in Events : FetchError(c, e)
  BY <1>4 DEF FetchError
<1>5. CASE SelectDue(c)
  BY <1>5 DEF SelectDue
<1>6. CASE RemoveExists(c)
  <2>1. CASE cur[c] \in stored
    BY <1>6, <2>1 DEF RemoveExists
  <2>2. CASE cur[c] \notin stored
    <3>1. /\ pc' = [pc EXCEPT ![c] = "dispatch"]
          /\ cur' = [cur EXCEPT ![c] = None]
          /\ UNCHANGED <<redis, aged, count, todo, op, target, fetching,
                         batch, history, faults>>
      BY <1>6, <2>2 DEF RemoveExists
    <3>2. QED
      BY <3>1
  <2>3. QED
    BY <2>1, <2>2
<1>7. CASE Remove(c)
  BY <1>7 DEF Remove, Erase, DeleteHashes
<1>8. CASE ReadAttempts(c)
  BY <1>8 DEF ReadAttempts
<1>9. CASE Reschedule(c)
  BY <1>9 DEF Reschedule, EndUpdate, SetFields
<1>10. CASE MarkDead(c)
  BY <1>10 DEF MarkDead, EndUpdate, SetFields
<1>11. CASE EndBatch(c)
  BY <1>11 DEF EndBatch
<1>12. CASE PurgeScan(c)
  BY <1>12 DEF PurgeScan, Keys
<1>13. CASE PurgeEnd(c)
  BY <1>13 DEF PurgeEnd
<1>14. CASE Wake(c)
  BY <1>14 DEF Wake
<1>15. CASE \E e \in Events : FetchEvent(c, e)
  BY <1>15 DEF FetchEvent
<1>16. CASE \E e \in Events : PurgeExpired(c, e)
  BY <1>16 DEF PurgeExpired, Erase, DeleteHashes
<1>17. CASE \E s \in batch[c] : Undecodable(c, s)
  BY <1>17 DEF Undecodable, Dispatch
<1>18. CASE \E s \in batch[c] : Delivered(c, s)
  BY <1>18 DEF Delivered, Dispatch
<1>19. CASE \E s \in batch[c] : FailedAndCopied(c, s)
  BY <1>19 DEF FailedAndCopied, Dispatch, Enqueue
<1>20. CASE \E s \in batch[c] : FailedOnly(c, s)
  BY <1>20 DEF FailedOnly, Dispatch
<1>21. QED
  BY <1>1, <1>2, <1>3, <1>4, <1>5, <1>6, <1>7, <1>8, <1>9, <1>10, <1>11,
     <1>12, <1>13, <1>14, <1>15, <1>16, <1>17, <1>18, <1>19, <1>20
  DEF ConsumerStep

\* So does every step of the operators.
LEMMA TypeInvOperator ==
    ASSUME TypeInv, ScansHashes', NEW o \in Operators, OperatorStep(o)
    PROVE  TypeInv'
<1> USE ConfigAssumption
    DEF TypeInv, TypeOK, CurOK, Procs, Hash, Blank, redis, history, Begin,
        Finish
<1>1. CASE \E e \in Events : ReplayInspect(o, e)
  BY <1>1 DEF ReplayInspect
<1>2. CASE ReplayZrem(o)
  <2>1. CASE cur[o] \in dead
    BY <1>2, <2>1 DEF ReplayZrem
  <2>2. CASE cur[o] \notin dead
    <3>1. Finish(o) /\ dead' = dead /\ UNCHANGED <<stored, hash, pending, due,
                 aged, pc, count, fetching, batch, history, faults>>
      BY <1>2, <2>2 DEF ReplayZrem
    <3>2. QED
      BY <3>1
  <2>3. QED
    BY <2>1, <2>2
<1>3. CASE ReplayRequeue(o)
  BY <1>3 DEF ReplayRequeue, SetFields
<1>4. CASE PurgeAll(o)
  BY <1>4 DEF PurgeAll
<1>5. CASE PurgeAllPage(o)
  BY <1>5 DEF PurgeAllPage, DeleteHashes
<1>6. CASE \E url \in Urls : PurgeByUrl(o, url)
  BY <1>6 DEF PurgeByUrl, Keys
<1>7. CASE \E e \in Events : PurgeUrlVisit(o, e)
  BY <1>7 DEF PurgeUrlVisit, Erase, DeleteHashes
<1>8. CASE PurgeFinished(o)
  BY <1>8 DEF PurgeFinished
<1>9. CASE OperatorError(o)
  BY <1>9 DEF OperatorError
<1>10. QED
  BY <1>1, <1>2, <1>3, <1>4, <1>5, <1>6, <1>7, <1>8, <1>9 DEF OperatorStep

LEMMA TypeInvEnvironment ==
    ASSUME TypeInv, ScansHashes', Environment
    PROVE  TypeInv'
<1> USE ConfigAssumption
    DEF TypeInv, TypeOK, CurOK, Hash, redis, history, progress
<1>1. CASE \E e \in Events : BecomeDue(e)
  BY <1>1 DEF BecomeDue
<1>2. CASE \E e \in Events : Age(e)
  BY <1>2 DEF Age
<1>3. CASE \E e \in Events : \E url \in Urls : FirstDeliveryExhausted(e, url)
  BY <1>3 DEF FirstDeliveryExhausted, Enqueue
<1>4. QED
  BY <1>1, <1>2, <1>3 DEF Environment

LEMMA TypeInvStep == TypeInv /\ [Next]_vars => TypeInv'
<1>1. ASSUME TypeInv, UNCHANGED vars
      PROVE  TypeInv'
  BY <1>1, ScansHashesStep DEF TypeInv, TypeOK, CurOK, vars, redis, progress, history
<1>2. QED
  BY <1>1, ScansHashesStep, TypeInvConsumer, TypeInvOperator, TypeInvEnvironment DEF Next

\* Every variable keeps its type: no hash field, sorted set or task state
\* takes a value the code could not read back.
THEOREM TypeCorrect == Spec => []TypeOK
<1>1. Spec => []TypeInv
  BY TypeInvInit, TypeInvStep, PTL DEF Spec
<1>2. TypeInv => TypeOK
  BY DEF TypeInv
<1>3. QED
  BY <1>1, <1>2, PTL

-----------------------------------------------------------------------------
(* No undelivered event is destroyed *)

\* Only an event whose delivery has been accepted reaches remove().
RemovesSettled ==
    \A c \in Consumers : pc[c] \in {"exists", "remove"} => cur[c] \in settled

NoLossInv == TypeInv /\ NoEventLost /\ RemovesSettled

LEMMA NoLossConsumer ==
    ASSUME NoLossInv, NEW c \in Consumers,
           \/ ConsumerStep(c) \/ Start(c) \/ Stop(c) \/ RedisError(c)
           \/ \E e \in Events : FetchError(c, e)
    PROVE  NoEventLost' /\ RemovesSettled'
<1> USE ConfigAssumption
    DEF NoLossInv, NoEventLost, RemovesSettled, HasPayload, TypeInv, TypeOK,
        CurOK, Procs, Hash, Snapshot, Blank, redis, history, Go
<1>1. CASE Start(c)
  BY <1>1 DEF Start
<1>2. CASE Stop(c)
  BY <1>2 DEF Stop, GiveUp
<1>3. CASE RedisError(c)
  BY <1>3 DEF RedisError, GiveUp
<1>4. CASE \E e \in Events : FetchError(c, e)
  BY <1>4 DEF FetchError
<1>5. CASE SelectDue(c)
  BY <1>5 DEF SelectDue
<1>6. CASE RemoveExists(c)
  BY <1>6 DEF RemoveExists
<1>7. CASE Remove(c)
  BY <1>7 DEF Remove, Erase, DeleteHashes
<1>8. CASE ReadAttempts(c)
  BY <1>8 DEF ReadAttempts
<1>9. CASE Reschedule(c)
  BY <1>9 DEF Reschedule, EndUpdate, SetFields
<1>10. CASE MarkDead(c)
  BY <1>10 DEF MarkDead, EndUpdate, SetFields
<1>11. CASE EndBatch(c)
  BY <1>11 DEF EndBatch
<1>12. CASE PurgeScan(c)
  BY <1>12 DEF PurgeScan
<1>13. CASE PurgeEnd(c)
  BY <1>13 DEF PurgeEnd
<1>14. CASE Wake(c)
  BY <1>14 DEF Wake
<1>15. CASE \E e \in Events : FetchEvent(c, e)
  BY <1>15 DEF FetchEvent
<1>16. CASE \E e \in Events : PurgeExpired(c, e)
  BY <1>16 DEF PurgeExpired, Erase, DeleteHashes
<1>17. CASE \E s \in batch[c] : Undecodable(c, s)
  BY <1>17 DEF Undecodable, Dispatch
<1>18. CASE \E s \in batch[c] : Delivered(c, s)
  BY <1>18 DEF Delivered, Dispatch
<1>19. CASE \E s \in batch[c] : FailedAndCopied(c, s)
  BY <1>19 DEF FailedAndCopied, Dispatch, Enqueue
<1>20. CASE \E s \in batch[c] : FailedOnly(c, s)
  BY <1>20 DEF FailedOnly, Dispatch
<1>21. QED
  BY <1>1, <1>2, <1>3, <1>4, <1>5, <1>6, <1>7, <1>8, <1>9, <1>10, <1>11,
     <1>12, <1>13, <1>14, <1>15, <1>16, <1>17, <1>18, <1>19, <1>20
  DEF ConsumerStep

LEMMA NoLossOperator ==
    ASSUME NoLossInv, NEW o \in Operators, OperatorStep(o)
    PROVE  NoEventLost' /\ RemovesSettled'
<1> USE ConfigAssumption
    DEF NoLossInv, NoEventLost, RemovesSettled, HasPayload, TypeInv, TypeOK,
        CurOK, Procs, Hash, Blank, redis, history, Begin, Finish
<1>1. CASE \E e \in Events : ReplayInspect(o, e)
  BY <1>1 DEF ReplayInspect
<1>2. CASE ReplayZrem(o)
  BY <1>2 DEF ReplayZrem
<1>3. CASE ReplayRequeue(o)
  BY <1>3 DEF ReplayRequeue, SetFields
<1>4. CASE PurgeAll(o)
  BY <1>4 DEF PurgeAll
<1>5. CASE PurgeAllPage(o)
  BY <1>5 DEF PurgeAllPage, DeleteHashes
<1>6. CASE \E url \in Urls : PurgeByUrl(o, url)
  BY <1>6 DEF PurgeByUrl
<1>7. CASE \E e \in Events : PurgeUrlVisit(o, e)
  BY <1>7 DEF PurgeUrlVisit, Erase, DeleteHashes
<1>8. CASE PurgeFinished(o)
  BY <1>8 DEF PurgeFinished
<1>9. CASE OperatorError(o)
  BY <1>9 DEF OperatorError
<1>10. QED
  BY <1>1, <1>2, <1>3, <1>4, <1>5, <1>6, <1>7, <1>8, <1>9 DEF OperatorStep

LEMMA NoLossStep == NoLossInv /\ [Next]_vars => NoLossInv'
<1>1. ASSUME NoLossInv, Environment
      PROVE  NoEventLost' /\ RemovesSettled'
  BY <1>1 DEF NoLossInv, NoEventLost, RemovesSettled, HasPayload, TypeInv,
     TypeOK, Hash, Environment, BecomeDue, Age, FirstDeliveryExhausted,
     Enqueue, redis, history, progress
<1>2. ASSUME NoLossInv, UNCHANGED vars
      PROVE  NoEventLost' /\ RemovesSettled'
  BY <1>2 DEF NoLossInv, NoEventLost, RemovesSettled, HasPayload, vars, redis,
     progress, history
<1>3. ASSUME NoLossInv, [Next]_vars
      PROVE  NoEventLost' /\ RemovesSettled'
  BY <1>1, <1>2, <1>3, NoLossConsumer, NoLossOperator DEF Next
<1>4. QED
  BY <1>3, TypeInvStep DEF NoLossInv

\* An entry of the queue keeps its payload until an endpoint has accepted it
\* or a purge has deleted it, for any number of consumers and operators.
THEOREM NothingLost == Spec => []NoEventLost
<1>1. Init => NoLossInv
  BY TypeInvInit DEF Init, NoLossInv, NoEventLost, RemovesSettled
<1>2. NoLossInv => NoEventLost
  BY DEF NoLossInv
<1>3. QED
  BY <1>1, <1>2, NoLossStep, PTL DEF Spec

-----------------------------------------------------------------------------
(* Every entry can be found *)

\* An entry that is neither indexed nor recorded as exposed is in the hands of
\* a replay, between its ZREM and its pipeline.
IndexedInv == TypeInv /\ Indexed

LEMMA IndexedConsumer ==
    ASSUME IndexedInv, NEW c \in Consumers,
           \/ ConsumerStep(c) \/ Start(c) \/ Stop(c) \/ RedisError(c)
           \/ \E e \in Events : FetchError(c, e)
    PROVE  Indexed'
<1> USE ConfigAssumption
    DEF IndexedInv, Indexed, HasPayload, TypeInv, TypeOK, CurOK, Procs, Hash,
        Snapshot, Blank, redis, history, Go
<1>1. CASE Start(c)
  BY <1>1 DEF Start
<1>2. CASE Stop(c)
  BY <1>2 DEF Stop, GiveUp
<1>3. CASE RedisError(c)
  BY <1>3 DEF RedisError, GiveUp
<1>4. CASE \E e \in Events : FetchError(c, e)
  BY <1>4 DEF FetchError
<1>5. CASE SelectDue(c)
  BY <1>5 DEF SelectDue
<1>6. CASE RemoveExists(c)
  BY <1>6 DEF RemoveExists
<1>7. CASE Remove(c)
  BY <1>7 DEF Remove, Erase, DeleteHashes
<1>8. CASE ReadAttempts(c)
  BY <1>8 DEF ReadAttempts
<1>9. CASE Reschedule(c)
  BY <1>9 DEF Reschedule, EndUpdate, SetFields
<1>10. CASE MarkDead(c)
  BY <1>10 DEF MarkDead, EndUpdate, SetFields
<1>11. CASE EndBatch(c)
  BY <1>11 DEF EndBatch
<1>12. CASE PurgeScan(c)
  BY <1>12 DEF PurgeScan
<1>13. CASE PurgeEnd(c)
  BY <1>13 DEF PurgeEnd
<1>14. CASE Wake(c)
  BY <1>14 DEF Wake
<1>15. CASE \E e \in Events : FetchEvent(c, e)
  BY <1>15 DEF FetchEvent
<1>16. CASE \E e \in Events : PurgeExpired(c, e)
  BY <1>16 DEF PurgeExpired, Erase, DeleteHashes
<1>17. CASE \E s \in batch[c] : Undecodable(c, s)
  BY <1>17 DEF Undecodable, Dispatch
<1>18. CASE \E s \in batch[c] : Delivered(c, s)
  BY <1>18 DEF Delivered, Dispatch
<1>19. CASE \E s \in batch[c] : FailedAndCopied(c, s)
  BY <1>19 DEF FailedAndCopied, Dispatch, Enqueue
<1>20. CASE \E s \in batch[c] : FailedOnly(c, s)
  BY <1>20 DEF FailedOnly, Dispatch
<1>21. QED
  BY <1>1, <1>2, <1>3, <1>4, <1>5, <1>6, <1>7, <1>8, <1>9, <1>10, <1>11,
     <1>12, <1>13, <1>14, <1>15, <1>16, <1>17, <1>18, <1>19, <1>20
  DEF ConsumerStep

LEMMA IndexedOperator ==
    ASSUME IndexedInv, NEW o \in Operators, OperatorStep(o)
    PROVE  Indexed'
<1> USE ConfigAssumption
    DEF IndexedInv, Indexed, HasPayload, TypeInv, TypeOK, CurOK, Procs, Hash,
        Blank, redis, history, Begin, Finish
<1>1. CASE \E e \in Events : ReplayInspect(o, e)
  BY <1>1 DEF ReplayInspect
<1>2. CASE ReplayZrem(o)
  BY <1>2 DEF ReplayZrem
<1>3. CASE ReplayRequeue(o)
  BY <1>3 DEF ReplayRequeue, SetFields
<1>4. CASE PurgeAll(o)
  BY <1>4 DEF PurgeAll
<1>5. CASE PurgeAllPage(o)
  BY <1>5 DEF PurgeAllPage, DeleteHashes
<1>6. CASE \E url \in Urls : PurgeByUrl(o, url)
  BY <1>6 DEF PurgeByUrl
<1>7. CASE \E e \in Events : PurgeUrlVisit(o, e)
  BY <1>7 DEF PurgeUrlVisit, Erase, DeleteHashes
<1>8. CASE PurgeFinished(o)
  BY <1>8 DEF PurgeFinished
<1>9. CASE OperatorError(o)
  BY <1>9 DEF OperatorError
<1>10. QED
  BY <1>1, <1>2, <1>3, <1>4, <1>5, <1>6, <1>7, <1>8, <1>9 DEF OperatorStep

LEMMA IndexedStep == IndexedInv /\ [Next]_vars => IndexedInv'
<1>1. ASSUME IndexedInv, Environment
      PROVE  Indexed'
  <2> USE DEF IndexedInv, Indexed, HasPayload, TypeInv, TypeOK, Hash, redis,
          history, progress
  <2>1. CASE \E e \in Events : BecomeDue(e)
    BY <1>1, <2>1 DEF BecomeDue
  <2>2. CASE \E e \in Events : Age(e)
    BY <1>1, <2>2 DEF Age
  <2>3. CASE \E e \in Events : \E url \in Urls : FirstDeliveryExhausted(e, url)
    BY <1>1, <2>3 DEF FirstDeliveryExhausted, Enqueue
  <2>4. QED
    BY ONLY <1>1, <2>1, <2>2, <2>3 DEF Environment
<1>2. ASSUME IndexedInv, UNCHANGED vars
      PROVE  Indexed'
  BY <1>2 DEF IndexedInv, Indexed, HasPayload, vars, redis, progress, history
<1>3. ASSUME IndexedInv, [Next]_vars
      PROVE  Indexed'
  BY <1>1, <1>2, <1>3, IndexedConsumer, IndexedOperator DEF Next
<1>4. QED
  BY <1>3, TypeInvStep DEF IndexedInv

\* An entry that still has its payload is in dlq:pending or dlq:dead, except
\* under a replay in progress or after the faults recorded in "exposed".
THEOREM EntriesIndexed == Spec => []Indexed
<1>1. Init => IndexedInv
  BY TypeInvInit DEF Init, IndexedInv, Indexed, HasPayload
<1>2. IndexedInv => Indexed
  BY DEF IndexedInv
<1>3. QED
  BY <1>1, <1>2, IndexedStep, PTL DEF Spec

-----------------------------------------------------------------------------
(* The sorted sets agree with the hashes, as long as one consumer runs *)

Working == {"exists", "remove", "hget", "update"}

\* Consumer c has selected e and not finished with it.
InHand(c, e) ==
    \/ e \in fetching[c]
    \/ \E s \in batch[c] : s.id = e
    \/ pc[c] \in Working /\ cur[c] = e

\* Nothing refers to an id before it is handed out, and a deleted hash reads
\* as a blank one.
Fresh ==
    \A e \in Events :
        /\ e \notin stored => hash[e] = Blank
        /\ e \notin used =>
            /\ e \notin stored \cup pending \cup dead
            /\ \A o \in Operators : op[o] \in {"zrem", "requeue"} => cur[o] # e
            /\ \A c \in Consumers : ~InHand(c, e)

\* What a consumer has in hand is not dead.
HandsFree ==
    \A c \in Consumers, e \in Events :
        InHand(c, e) => hash[e].status = "pending" /\ e \notin dead

\* A replay owns its event from the ZREM to the pipeline.
ReplayAlone ==
    \A o \in Operators :
        op[o] = "requeue" =>
            /\ cur[o] \notin pending \cup dead
            /\ \A c \in Consumers : ~InHand(c, cur[o])
            /\ \A p \in Operators :
                op[p] = "requeue" /\ cur[p] = cur[o] => p = o

\* A consumer has an event in hand once.
OneCopy ==
    \A c \in Consumers :
        /\ pc[c] # "fetch" => fetching[c] = {}
        /\ pc[c] \notin Working \cup {"fetch", "dispatch"} => batch[c] = {}
        /\ \A s, t \in batch[c] : s.id = t.id => s = t
        /\ \A s \in batch[c] : /\ s.id \notin fetching[c]
                               /\ pc[c] \in Working => s.id # cur[c]

Agreement == IndexAgrees /\ Fresh /\ HandsFree /\ ReplayAlone /\ OneCopy

AgreeInv == TypeInv /\ Agreement

LEMMA AgreeConsumer ==
    ASSUME AgreeInv, \A c, d \in Consumers : c = d, NEW c \in Consumers,
           \/ ConsumerStep(c) \/ Start(c) \/ Stop(c) \/ RedisError(c)
           \/ \E e \in Events : FetchError(c, e)
    PROVE  Agreement'
<1> USE ConfigAssumption
    DEF AgreeInv, Agreement, IndexAgrees, Fresh, HandsFree, ReplayAlone,
        OneCopy, InHand, Working, TypeInv, TypeOK, CurOK, Procs, Hash,
        Snapshot, Blank, redis, history, Go
<1>1. CASE Start(c)
  BY <1>1 DEF Start
<1>2. CASE Stop(c)
  BY <1>2 DEF Stop, GiveUp
<1>3. CASE RedisError(c)
  BY <1>3 DEF RedisError, GiveUp
<1>4. CASE \E e \in Events : FetchError(c, e)
  <2>1. PICK e \in Events : FetchError(c, e)
    BY <1>4
  <2>2. CASE fetching[c] = {e}
    BY <2>1, <2>2 DEF FetchError
  <2>3. CASE fetching[c] # {e}
    <3>1. /\ pc[c] = "fetch"
          /\ fetching' = [fetching EXCEPT ![c] = @ \ {e}]
          /\ UNCHANGED <<stored, hash, pending, dead, pc, cur, op, batch, used>>
      BY <2>1, <2>3 DEF FetchError
    <3>2. \A d \in Consumers, f \in Events : InHand(d, f)' => InHand(d, f)
      BY <3>1
    <3>3. IndexAgrees' /\ Fresh' /\ HandsFree' /\ ReplayAlone'
      BY ONLY AgreeInv, <3>1, <3>2
      DEF AgreeInv, Agreement, IndexAgrees, Fresh, HandsFree, ReplayAlone
    <3>4. OneCopy'
      BY <3>1
    <3>5. QED
      BY ONLY <3>3, <3>4 DEF Agreement
  <2>4. QED
    BY <2>2, <2>3
<1>5. CASE SelectDue(c)
  <2>1. PICK ids \in SUBSET due :
          /\ Go(c, "select", IF ids = {} THEN "scan" ELSE "fetch")
          /\ fetching' = [fetching EXCEPT ![c] = ids]
          /\ UNCHANGED <<stored, hash, pending, dead, cur, op, batch, used>>
    BY <1>5 DEF SelectDue
  <2>2. batch[c] = {} /\ batch' = batch
    BY <2>1
  <2>3. \A d \in Consumers, f \in Events :
            InHand(d, f)' => f \in ids /\ f \in pending
    BY <2>1, <2>2
  <2>4. IndexAgrees' /\ Fresh' /\ HandsFree' /\ ReplayAlone'
    BY ONLY AgreeInv, <2>1, <2>3
    DEF AgreeInv, Agreement, IndexAgrees, Fresh, HandsFree, ReplayAlone,
        TypeInv, TypeOK, Blank, Hash
  <2>5. OneCopy'
    <3>1. CASE ids = {}
      BY <2>1, <2>2, <3>1
    <3>2. CASE ids # {}
      BY <2>1, <2>2, <3>2
    <3>3. QED
      BY <3>1, <3>2
  <2>6. QED
    BY ONLY <2>4, <2>5 DEF Agreement
<1>6. CASE RemoveExists(c)
  <2>1. CASE cur[c] \in stored
    BY <1>6, <2>1 DEF RemoveExists
  <2>2. CASE cur[c] \notin stored
    <3>1. /\ pc[c] = "exists"
          /\ pc' = [pc EXCEPT ![c] = "dispatch"]
          /\ cur' = [cur EXCEPT ![c] = None]
          /\ UNCHANGED <<stored, hash, pending, dead, op, fetching, batch, used>>
      BY <1>6, <2>2 DEF RemoveExists
    <3>2. \A d \in Consumers, e \in Events : InHand(d, e)' => InHand(d, e)
      BY <3>1
    <3>3. \A o \in Operators : cur'[o] = cur[o]
      BY <3>1
    <3>4. IndexAgrees' /\ Fresh' /\ HandsFree' /\ ReplayAlone'
      BY ONLY AgreeInv, <3>1, <3>2, <3>3
      DEF AgreeInv, Agreement, IndexAgrees, Fresh, HandsFree, ReplayAlone
    <3>5. OneCopy'
      BY <3>1
    <3>6. QED
      BY ONLY <3>4, <3>5 DEF Agreement
  <2>3. QED
    BY ONLY <2>1, <2>2
<1>7. CASE Remove(c)
  BY <1>7 DEF Remove, Erase, DeleteHashes
<1>8. CASE ReadAttempts(c)
  BY <1>8 DEF ReadAttempts
<1>9. CASE Reschedule(c)
  BY <1>9 DEF Reschedule, EndUpdate, SetFields
<1>10. CASE MarkDead(c)
  BY <1>10 DEF MarkDead, EndUpdate, SetFields
<1>11. CASE EndBatch(c)
  BY <1>11 DEF EndBatch
<1>12. CASE PurgeScan(c)
  BY <1>12 DEF PurgeScan
<1>13. CASE PurgeEnd(c)
  BY <1>13 DEF PurgeEnd
<1>14. CASE Wake(c)
  BY <1>14 DEF Wake
<1>15. CASE \E e \in Events : FetchEvent(c, e)
  BY <1>15 DEF FetchEvent
<1>16. CASE \E e \in Events : PurgeExpired(c, e)
  BY <1>16 DEF PurgeExpired, Erase, DeleteHashes
<1>17. CASE \E s \in batch[c] : Undecodable(c, s)
  BY <1>17 DEF Undecodable, Dispatch
<1>18. CASE \E s \in batch[c] : Delivered(c, s)
  BY <1>18 DEF Delivered, Dispatch
<1>19. CASE \E s \in batch[c] : FailedAndCopied(c, s)
  BY <1>19 DEF FailedAndCopied, Dispatch, Enqueue
<1>20. CASE \E s \in batch[c] : FailedOnly(c, s)
  BY <1>20 DEF FailedOnly, Dispatch
<1>21. QED
  BY <1>1, <1>2, <1>3, <1>4, <1>5, <1>6, <1>7, <1>8, <1>9, <1>10, <1>11,
     <1>12, <1>13, <1>14, <1>15, <1>16, <1>17, <1>18, <1>19, <1>20
  DEF ConsumerStep

LEMMA AgreeOperator ==
    ASSUME AgreeInv, NEW o \in Operators, OperatorStep(o)
    PROVE  Agreement'
<1> USE ConfigAssumption
    DEF AgreeInv, Agreement, IndexAgrees, Fresh, HandsFree, ReplayAlone,
        OneCopy, InHand, Working, TypeInv, TypeOK, CurOK, Procs, Hash,
        Snapshot, Blank, redis, history,
        Begin, Finish
<1>1. CASE \E e \in Events : ReplayInspect(o, e)
  BY <1>1 DEF ReplayInspect
<1>2. CASE ReplayZrem(o)
  <2>1. CASE cur[o] \in dead
    <3>1. /\ dead' = dead \ {cur[o]}
          /\ op' = [op EXCEPT ![o] = "requeue"]
          /\ UNCHANGED <<stored, hash, pending, pc, cur, fetching, batch, used>>
      BY <1>2, <2>1 DEF ReplayZrem
    <3>2. \A c \in Consumers, e \in Events : InHand(c, e)' <=> InHand(c, e)
      BY <3>1
    <3>3. cur[o] \in Events /\ op[o] = "zrem"
      BY <1>2 DEF ReplayZrem
    <3>4. IndexAgrees' /\ HandsFree'
      BY ONLY AgreeInv, <3>1, <3>2
      DEF AgreeInv, Agreement, IndexAgrees, HandsFree
    <3>5. Fresh'
      BY ONLY AgreeInv, <3>1, <3>2, <3>3 DEF AgreeInv, Agreement, Fresh, TypeInv,
         TypeOK
    <3>6. ReplayAlone'
      BY ONLY AgreeInv, <2>1, <3>1, <3>2, <3>3 DEF AgreeInv, Agreement,
         ReplayAlone, HandsFree, IndexAgrees, TypeInv, TypeOK, CurOK
    <3>7. OneCopy'
      BY ONLY AgreeInv, <3>1 DEF AgreeInv, Agreement, OneCopy
    <3>8. QED
      BY ONLY <3>4, <3>5, <3>6, <3>7 DEF Agreement
  <2>2. CASE cur[o] \notin dead
    <3>1. /\ dead' = dead
          /\ op' = [op EXCEPT ![o] = "idle"]
          /\ cur' = [cur EXCEPT ![o] = None]
          /\ UNCHANGED <<stored, hash, pending, pc, fetching, batch, used>>
      BY <1>2, <2>2 DEF ReplayZrem
    <3>2. QED
      BY <3>1
  <2>3. QED
    BY ONLY <2>1, <2>2
<1>3. CASE ReplayRequeue(o)
  BY <1>3 DEF ReplayRequeue, SetFields
<1>4. CASE PurgeAll(o)
  BY <1>4 DEF PurgeAll
<1>5. CASE PurgeAllPage(o)
  BY <1>5 DEF PurgeAllPage, DeleteHashes
<1>6. CASE \E url \in Urls : PurgeByUrl(o, url)
  BY <1>6 DEF PurgeByUrl
<1>7. CASE \E e \in Events : PurgeUrlVisit(o, e)
  BY <1>7 DEF PurgeUrlVisit, Erase, DeleteHashes
<1>8. CASE PurgeFinished(o)
  BY <1>8 DEF PurgeFinished
<1>9. CASE OperatorError(o)
  BY <1>9 DEF OperatorError
<1>10. QED
  BY <1>1, <1>2, <1>3, <1>4, <1>5, <1>6, <1>7, <1>8, <1>9 DEF OperatorStep

LEMMA AgreeEnvironment ==
    ASSUME AgreeInv, Environment
    PROVE  Agreement'
<1> USE ConfigAssumption
    DEF AgreeInv, Agreement, IndexAgrees, Fresh, HandsFree, ReplayAlone,
        OneCopy, InHand, Working, TypeInv, TypeOK, CurOK, Procs, Hash,
        Snapshot, Blank, redis, history,
        progress
<1>1. CASE \E e \in Events : BecomeDue(e)
  BY <1>1 DEF BecomeDue
<1>2. CASE \E e \in Events : Age(e)
  BY <1>2 DEF Age
<1>3. CASE \E e \in Events : \E url \in Urls : FirstDeliveryExhausted(e, url)
  BY <1>3 DEF FirstDeliveryExhausted, Enqueue
<1>4. QED
  BY <1>1, <1>2, <1>3 DEF Environment

LEMMA AgreeStep ==
    (\A c, d \in Consumers : c = d) /\ AgreeInv /\ [Next]_vars => AgreeInv'
<1>1. ASSUME AgreeInv, UNCHANGED vars
      PROVE  Agreement'
  BY <1>1 DEF AgreeInv, Agreement, IndexAgrees, Fresh, HandsFree, ReplayAlone,
     OneCopy, InHand, vars, redis, progress, history
<1>2. ASSUME \A c, d \in Consumers : c = d, AgreeInv, [Next]_vars
      PROVE  Agreement'
  BY <1>1, <1>2, AgreeConsumer, AgreeOperator, AgreeEnvironment DEF Next
<1>3. QED
  BY <1>2, TypeInvStep DEF AgreeInv

\* With one consumer the sorted sets exclude each other and agree with the
\* hashes, whatever the operators do meanwhile. (With two consumers both may
\* have the same event in hand, and one marks dead what the other reschedules.)
THEOREM SortedSetsAgree ==
    ASSUME \A c, d \in Consumers : c = d
    PROVE  Spec => []IndexAgrees
<1>1. Init => AgreeInv
  BY TypeInvInit DEF Init, AgreeInv, Agreement, IndexAgrees, Fresh, HandsFree,
     ReplayAlone, OneCopy, InHand, Working
<1>2. AgreeInv => IndexAgrees
  BY DEF AgreeInv, Agreement
<1>3. AgreeInv /\ [Next]_vars => AgreeInv'
  BY AgreeStep
<1>4. QED
  BY <1>1, <1>2, <1>3, PTL DEF Spec

\* With one consumer every entry is in the one sorted set where its status
\* says it is, whatever redeliveries, replays and purges do meanwhile.
THEOREM EntriesStayInPlace ==
    ASSUME \A c, d \in Consumers : c = d
    PROVE  Spec => []EntriesInPlace
<1>1. Indexed /\ IndexAgrees => EntriesInPlace
  BY DEF EntriesInPlace
<1>2. Spec => []Indexed
  BY EntriesIndexed
<1>3. Spec => []IndexAgrees
  BY SortedSetsAgree
<1>4. QED
  BY <1>1, <1>2, <1>3, PTL

-----------------------------------------------------------------------------
(* A failing event is retried a bounded number of times *)

\* A redelivery of e has failed, and its bookkeeping is not yet done.
Owed(e) == \E c \in Consumers : pc[c] \in {"hget", "update"} /\ cur[c] = e

\* The failures of a pending entry are those its hash counts, or only those
\* whose bookkeeping a fault has cut off, and "more" besides.
CountedUpTo(e, more) ==
    \/ tries[e] <= faults + more
    \/ /\ tries[e] <= hash[e].attempts + faults + more
       /\ hash[e].attempts < DlqMaxRetries

CountedFor(e) ==
    /\ e \notin used => tries[e] = 0
    /\ hash[e].status = "pending" =>
           /\ CountedUpTo(e, 1)
           /\ ~Owed(e) => CountedUpTo(e, 0)

\* The attempts that are read before the bookkeeping are those failures.
ReadFor(e) ==
    \A c \in Consumers :
        pc[c] = "update" /\ cur[c] = e =>
            tries[e] <= faults + 1 \/ tries[e] <= count[c] + faults + 1

BoundedFor(e) == tries[e] <= DlqMaxRetries + faults

RetryCounts == \A e \in Events : CountedFor(e) /\ ReadFor(e) /\ BoundedFor(e)

RetryInv == AgreeInv /\ RetryCounts

\* What the steps of the consumers and operators have in common.
LEMMA RetryConsumer ==
    ASSUME RetryInv, \A c, d \in Consumers : c = d, NEW c \in Consumers,
           \/ ConsumerStep(c) \/ Start(c) \/ Stop(c) \/ RedisError(c)
           \/ \E e \in Events : FetchError(c, e)
    PROVE  RetryCounts'
<1> SUFFICES ASSUME NEW e \in Events
             PROVE  CountedFor(e)' /\ ReadFor(e)' /\ BoundedFor(e)'
  BY DEF RetryCounts
<1>1. /\ CountedFor(e) /\ BoundedFor(e)
      /\ tries \in [Events -> Nat] /\ hash \in [Events -> Hash]
         /\ count \in [Consumers -> Nat]
      /\ pc = [x \in Consumers |-> pc[x]] /\ batch[c] \subseteq Snapshot
      /\ cur \in [Procs -> Events \cup {None}]
      /\ faults \in Nat /\ DlqMaxRetries \in Nat \ {0} /\ RetryMax \in Nat
      /\ c \in Procs
      /\ pc[c] \in Working => cur[c] \in Events
      /\ e \notin used => ~InHand(c, e)
      /\ InHand(c, e) => hash[e].status = "pending"
  BY ConfigAssumption
  DEF RetryInv, RetryCounts, AgreeInv, Agreement, Fresh, HandsFree,
      TypeInv, TypeOK, CurOK, Procs, Working
<1>2. /\ ReadFor(e) <=>
            (pc[c] = "update" /\ cur[c] = e =>
                tries[e] <= faults + 1 \/ tries[e] <= count[c] + faults + 1)
      /\ ReadFor(e)
  BY DEF ReadFor, RetryInv, RetryCounts
<1>3. ReadFor(e)' <=>
            (pc'[c] = "update" /\ cur'[c] = e =>
                tries'[e] <= faults' + 1 \/ tries'[e] <= count'[c] + faults' + 1)
  BY DEF ReadFor
<1>4. Owed(e) <=> pc[c] \in {"hget", "update"} /\ cur[c] = e
  BY DEF Owed
<1>5. Owed(e)' <=> pc'[c] \in {"hget", "update"} /\ cur'[c] = e
  BY DEF Owed
<1> USE <1>1, <1>4, <1>5, <1>2, <1>3
    DEF CountedFor, BoundedFor, CountedUpTo, Hash, Blank, redis, history, Go
<1>6. CASE Start(c)
  BY <1>6 DEF Start
<1>7. CASE Stop(c)
  BY <1>7 DEF Stop, GiveUp
<1>8. CASE RedisError(c)
  BY <1>8 DEF RedisError, GiveUp
<1>9. CASE \E f \in Events : FetchError(c, f)
  BY <1>9 DEF FetchError
<1>10. CASE SelectDue(c)
  BY <1>10 DEF SelectDue
<1>11. CASE RemoveExists(c)
  BY <1>11 DEF RemoveExists
<1>12. CASE Remove(c)
  BY <1>12 DEF Remove, Erase, DeleteHashes
<1>13. CASE ReadAttempts(c)
  <2>1. pc[c] = "hget" /\ pc' = [pc EXCEPT ![c] = "update"] /\ cur[c] \in Events
        /\ count' = [count EXCEPT ![c] = hash[cur[c]].attempts]
        /\ UNCHANGED <<cur, tries, faults, hash, used>>
    BY <1>13 DEF ReadAttempts, Working
  <2>2. cur[c] = e => hash[e].status = "pending"
    BY <2>1 DEF InHand, Working
  <2>3. hash[e].attempts \in Nat /\ tries[e] \in Nat
    OBVIOUS
  <2>4. CountedFor(e)' /\ BoundedFor(e)'
    BY <2>1
  <2>5. cur[c] = e => tries'[e] <= faults' + 1 \/ tries'[e] <= count'[c] + faults' + 1
    BY <2>1, <2>2, <2>3
  <2>6. QED
    BY <2>1, <2>4, <2>5
<1>14. CASE Reschedule(c)
  BY <1>14 DEF Reschedule, EndUpdate, SetFields
<1>15. CASE MarkDead(c)
  BY <1>15 DEF MarkDead, EndUpdate, SetFields
<1>16. CASE EndBatch(c)
  BY <1>16 DEF EndBatch
<1>17. CASE PurgeScan(c)
  BY <1>17 DEF PurgeScan
<1>18. CASE PurgeEnd(c)
  BY <1>18 DEF PurgeEnd
<1>19. CASE Wake(c)
  BY <1>19 DEF Wake
<1>20. CASE \E f \in Events : FetchEvent(c, f)
  BY <1>20 DEF FetchEvent
<1>21. CASE \E f \in Events : PurgeExpired(c, f)
  BY <1>21 DEF PurgeExpired, Erase, DeleteHashes
<1>22. CASE \E s \in batch[c] : Undecodable(c, s)
  BY <1>22 DEF Undecodable, Dispatch
<1>23. CASE \E s \in batch[c] : Delivered(c, s)
  BY <1>23 DEF Delivered, Dispatch
<1>24. CASE \E s \in batch[c] : FailedAndCopied(c, s)
  <2>1. PICK s \in batch[c] : FailedAndCopied(c, s)
    BY <1>24
  <2>2. PICK f \in Events : Enqueue(f, s.url, origin[s.id])
    BY <2>1 DEF FailedAndCopied
  <2>3. s.id \in Events /\ InHand(c, s.id) /\ f # s.id /\ f \notin used
    BY <2>1, <2>2 DEF RetryInv, AgreeInv, Agreement, Fresh, InHand, Enqueue, Snapshot
  <2>4. /\ tries' = [tries EXCEPT ![s.id] = @ + 1] /\ used' = used \cup {f}
        /\ hash' = [hash EXCEPT ![f] = [url |-> s.url, attempts |-> RetryMax + 1,
                                        status |-> "pending"]]
        /\ pc[c] = "dispatch" /\ pc' = [pc EXCEPT ![c] = "hget"]
        /\ cur' = [cur EXCEPT ![c] = s.id] /\ count' = count /\ faults' = faults
    BY <2>1, <2>2 DEF FailedAndCopied, Dispatch, Enqueue
  <2>5. hash[s.id].status = "pending" /\ s.id \in used /\ ~Owed(s.id)
    BY <2>3, <2>4 DEF RetryInv, AgreeInv, Agreement, HandsFree, Fresh, Owed
  <2>6. CASE e = f
    BY <2>3, <2>4, <2>6
  <2>7. CASE e = s.id
    <3>1. tries'[e] = tries[e] + 1 /\ faults' = faults /\ hash'[e] = hash[e]
          /\ e \in used' /\ Owed(e)' /\ pc'[c] = "hget"
      BY <2>3, <2>4, <2>7, <2>5
    <3>2. CountedUpTo(e, 0) /\ tries[e] \in Nat /\ hash[e].attempts \in Nat
      BY <2>7, <2>5
    <3>3. CountedUpTo(e, 1)' /\ BoundedFor(e)'
      <4>1. faults \in Nat /\ DlqMaxRetries \in Nat \ {0}
        OBVIOUS
      <4>2. QED
        BY ONLY <3>1, <3>2, <4>1 DEF CountedUpTo, BoundedFor
    <3>4. QED
      BY ONLY <3>1, <3>3, <1>3 DEF CountedFor
  <2>8. CASE e # f /\ e # s.id
    BY <2>3, <2>4, <2>8
  <2>9. QED
    BY <2>6, <2>7, <2>8
<1>25. CASE \E s \in batch[c] : FailedOnly(c, s)
  <2>1. PICK s \in batch[c] : FailedOnly(c, s)
    BY <1>25
  <2>2. s.id \in Events /\ InHand(c, s.id)
    BY <2>1 DEF InHand, Snapshot
  <2>3. /\ tries' = [tries EXCEPT ![s.id] = @ + 1] /\ used' = used /\ hash' = hash
        /\ pc[c] = "dispatch" /\ pc' = [pc EXCEPT ![c] = "hget"]
        /\ cur' = [cur EXCEPT ![c] = s.id] /\ count' = count /\ faults' = faults
    BY <2>1 DEF FailedOnly, Dispatch
  <2>4. hash[s.id].status = "pending" /\ s.id \in used /\ ~Owed(s.id)
    BY <2>2, <2>3 DEF RetryInv, AgreeInv, Agreement, HandsFree, Fresh, Owed
  <2>5. CASE e = s.id
    <3>1. tries'[e] = tries[e] + 1 /\ faults' = faults /\ hash'[e] = hash[e]
          /\ e \in used' /\ Owed(e)' /\ pc'[c] = "hget"
      BY <2>2, <2>3, <2>4, <2>5
    <3>2. CountedUpTo(e, 0) /\ tries[e] \in Nat /\ hash[e].attempts \in Nat
      BY <2>4, <2>5
    <3>3. CountedUpTo(e, 1)' /\ BoundedFor(e)'
      <4>1. faults \in Nat /\ DlqMaxRetries \in Nat \ {0}
        OBVIOUS
      <4>2. QED
        BY ONLY <3>1, <3>2, <4>1 DEF CountedUpTo, BoundedFor
    <3>4. QED
      BY ONLY <3>1, <3>3, <1>3 DEF CountedFor
  <2>6. CASE e # s.id
    BY <2>2, <2>3, <2>6
  <2>7. QED
    BY <2>5, <2>6
<1>26. QED
  BY <1>6, <1>7, <1>8, <1>9, <1>10, <1>11, <1>12, <1>13, <1>14, <1>15, <1>16,
     <1>17, <1>18, <1>19, <1>20, <1>21, <1>22, <1>23, <1>24, <1>25
  DEF ConsumerStep

LEMMA RetryOperator ==
    ASSUME RetryInv, NEW o \in Operators, OperatorStep(o)
    PROVE  RetryCounts'
<1> SUFFICES ASSUME NEW e \in Events
             PROVE  CountedFor(e)' /\ ReadFor(e)' /\ BoundedFor(e)'
  BY DEF RetryCounts
<1>1. /\ CountedFor(e) /\ ReadFor(e) /\ BoundedFor(e)
      /\ tries \in [Events -> Nat] /\ hash \in [Events -> Hash]
      /\ count \in [Consumers -> Nat]
      /\ cur \in [Procs -> Events \cup {None}]
      /\ faults \in Nat /\ DlqMaxRetries \in Nat \ {0}
      /\ op[o] \in {"zrem", "requeue"} => cur[o] \in Events
      /\ op[o] = "requeue" /\ cur[o] = e => ~Owed(e)
  BY ConfigAssumption
  DEF RetryInv, RetryCounts, AgreeInv, Agreement, ReplayAlone,
      TypeInv, TypeOK, CurOK, Owed, InHand, Working
<1>2. /\ Consumers \cap Operators = {} /\ Operators \subseteq Procs
      /\ Consumers \subseteq Procs
  BY ConfigAssumption DEF Procs
<1>3. pc' = pc /\ count' = count /\ \A c \in Consumers : cur'[c] = cur[c]
  BY <1>1, <1>2
  DEF OperatorStep, ReplayInspect, ReplayZrem, ReplayRequeue, PurgeAll, PurgeAllPage,
      PurgeByUrl, PurgeUrlVisit, PurgeFinished, OperatorError, Begin, Finish
<1>4. Owed(e)' <=> Owed(e)
  BY <1>3 DEF Owed
<1>5. ASSUME tries'[e] <= tries[e], faults <= faults', tries'[e] \in Nat,
             faults' \in Nat
      PROVE  ReadFor(e)' /\ BoundedFor(e)'
  <2>1. BoundedFor(e)'
    BY <1>5, <1>1 DEF BoundedFor
  <2>2. ReadFor(e)'
    <3> SUFFICES ASSUME NEW c \in Consumers, pc'[c] = "update", cur'[c] = e
                 PROVE  tries'[e] <= faults' + 1 \/ tries'[e] <= count'[c] + faults' + 1
      BY DEF ReadFor
    <3>1. tries[e] <= faults + 1 \/ tries[e] <= count[c] + faults + 1
      BY <1>3, <1>1 DEF ReadFor
    <3>2. count[c] \in Nat /\ count'[c] = count[c] /\ tries[e] \in Nat
      BY <1>3, <1>1
    <3>3. QED
      BY <1>5, <1>1, <3>1, <3>2
  <2>3. QED
    BY <2>1, <2>2
<1>6. ASSUME tries'[e] <= tries[e], faults <= faults', tries'[e] \in Nat,
             faults' \in Nat,
             CountedFor(e)'
      PROVE  CountedFor(e)' /\ ReadFor(e)' /\ BoundedFor(e)'
  BY <1>5, <1>6
<1> USE <1>1, <1>4 DEF CountedFor, CountedUpTo, Hash, Blank, redis,
        history, Begin, Finish
<1>7. CASE \E f \in Events : ReplayInspect(o, f)
  BY <1>6, <1>7 DEF ReplayInspect
<1>8. CASE ReplayZrem(o)
  BY <1>6, <1>8 DEF ReplayZrem
<1>9. CASE ReplayRequeue(o)
  BY <1>6, <1>9 DEF ReplayRequeue, SetFields
<1>10. CASE PurgeAll(o)
  BY <1>6, <1>10 DEF PurgeAll
<1>11. CASE PurgeAllPage(o)
  BY <1>6, <1>11 DEF PurgeAllPage, DeleteHashes
<1>12. CASE \E url \in Urls : PurgeByUrl(o, url)
  BY <1>6, <1>12 DEF PurgeByUrl
<1>13. CASE \E f \in Events : PurgeUrlVisit(o, f)
  BY <1>6, <1>13 DEF PurgeUrlVisit, Erase, DeleteHashes
<1>14. CASE PurgeFinished(o)
  BY <1>6, <1>14 DEF PurgeFinished
<1>15. CASE OperatorError(o)
  BY <1>6, <1>15 DEF OperatorError
<1>16. QED
  BY <1>7, <1>8, <1>9, <1>10, <1>11, <1>12, <1>13, <1>14, <1>15 DEF OperatorStep

LEMMA RetryEnvironment ==
    ASSUME RetryInv, Environment
    PROVE  RetryCounts'
<1> USE ConfigAssumption
    DEF RetryInv, RetryCounts, CountedFor, ReadFor, BoundedFor, CountedUpTo, Owed,
        AgreeInv, TypeInv, TypeOK, Hash, redis, history, progress
<1>1. CASE \E e \in Events : BecomeDue(e)
  BY <1>1 DEF BecomeDue
<1>2. CASE \E e \in Events : Age(e)
  BY <1>2 DEF Age
<1>3. CASE \E e \in Events : \E url \in Urls : FirstDeliveryExhausted(e, url)
  BY <1>3 DEF FirstDeliveryExhausted, Enqueue
<1>4. QED
  BY <1>1, <1>2, <1>3 DEF Environment

LEMMA RetryStep ==
    (\A c, d \in Consumers : c = d) /\ RetryInv /\ [Next]_vars => RetryInv'
<1>1. ASSUME RetryInv, UNCHANGED vars
      PROVE  RetryCounts'
  BY <1>1 DEF RetryInv, RetryCounts, CountedFor, ReadFor, BoundedFor, CountedUpTo,
     Owed, vars, redis, progress, history
<1>2. ASSUME \A c, d \in Consumers : c = d, RetryInv, [Next]_vars
      PROVE  RetryCounts'
  BY <1>1, <1>2, RetryConsumer, RetryOperator, RetryEnvironment DEF Next
<1>3. QED
  BY <1>2, AgreeStep DEF RetryInv

\* With one consumer an entry whose redelivery keeps failing is retried at
\* most dlq_max_retries times until it is dead or replayed, and once more for
\* each fault that has cut its bookkeeping off. (Two consumers may both
\* retry it and count one retry, and the copies that failed redeliveries
\* enqueue are entries of their own.)
THEOREM RetriesStayBounded ==
    ASSUME \A c, d \in Consumers : c = d
    PROVE  Spec => []RetriesBounded
<1>1. Init => AgreeInv
  BY TypeInvInit DEF Init, AgreeInv, Agreement, IndexAgrees, Fresh, HandsFree,
     ReplayAlone, OneCopy, InHand, Working
<1>2. Init => RetryCounts
  BY ConfigAssumption
  DEF Init, RetryCounts, CountedFor, ReadFor, BoundedFor, CountedUpTo
<1>3. RetryInv => RetriesBounded
  BY DEF RetryInv, RetryCounts, BoundedFor, RetriesBounded
<1>4. RetryInv /\ [Next]_vars => RetryInv'
  BY RetryStep
<1>5. QED
  BY <1>1, <1>2, <1>3, <1>4, PTL DEF Spec, RetryInv

=============================================================================
