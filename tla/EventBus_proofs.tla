---------------------------- MODULE EventBus_proofs ----------------------------
(***************************************************************************)
(* Theorems about the event bus: it implements the channel for every       *)
(* number of subscribers, queue size and number of restarts, and so has    *)
(* the properties proved of the channel.                                   *)
(***************************************************************************)
EXTENDS EventBus, TLAPS

Promise == INSTANCE EventChannel_proofs WITH current <- event, next <- index

-----------------------------------------------------------------------------
\* start() makes a task only when there is none, so the types need OneTask.
TypeInv == TypeOK /\ OneTask

LEMMA SeqOps ==
    ASSUME NEW S, NEW q \in Seq(S)
    PROVE  /\ Len(q) \in Nat
           /\ q # <<>> => Head(q) \in S
           /\ q # <<>> => Tail(q) \in Seq(S) /\ Len(Tail(q)) = Len(q) - 1
           /\ \A e \in S : /\ Append(q, e) \in Seq(S)
                           /\ Len(Append(q, e)) = Len(q) + 1
OBVIOUS

LEMMA TypeInit == Init => TypeInv
<1> SUFFICES ASSUME Init
             PROVE  TypeInv
  OBVIOUS
<1>1. <<>> \in Seq(1..MaxEvents) /\ Len(<<>>) = 0
  OBVIOUS
<1>2. log \in [Subs -> Seq(1..MaxEvents)]
  BY <1>1 DEF Init
<1>3. queue \in Seq(1..MaxEvents) /\ Len(queue) <= QueueSize
  BY <1>1, ChannelAssumption, BusAssumption DEF Init
<1>4. TypeOK
  <2>1. running \in BOOLEAN
    BY ONLY Init, Zenon DEF Init
  <2>2. 0 \in 0..MaxEvents /\ 0 \in 0..MaxStarts /\ 0 \in 0..Subscribers
    BY ONLY ChannelAssumption, BusAssumption
  <2>3. abandoned = {} /\ finished = {} /\ promised = {}
    BY ONLY Init DEF Init
  <2>4. /\ consumer = "none" /\ event = 0 /\ index = 0 /\ stopper = "idle"
        /\ emitted = 0 /\ starts = 0 /\ unfinished = 0
    BY ONLY Init DEF Init
  <2>5. QED
    BY ONLY <1>2, <1>3, <2>1, <2>2, <2>3, <2>4 DEF TypeOK, Dead
<1>5. OneTask
  BY DEF Init, OneTask, Dead
<1>6. QED
  BY <1>4, <1>5 DEF TypeInv

\* Taking the head of the queue keeps the types.
LEMMA TypeDispatch ==
    ASSUME TypeOK, Dispatch
    PROVE  /\ queue' \in Seq(1..MaxEvents)
           /\ Len(queue') <= QueueSize
           /\ event' \in 1..MaxEvents
           /\ index' = 1
           /\ consumer' = "dispatch"
           /\ log' \in [Subs -> Seq(1..MaxEvents)]
<1> USE DEF TypeOK, Dispatch, Subs
<1>1. Head(queue) \in 1..MaxEvents
  BY SeqOps
<1>2. /\ Tail(queue) \in Seq(1..MaxEvents)
      /\ Len(Tail(queue)) = Len(queue) - 1
  BY SeqOps
<1>3. 1 \in Subs
  BY ChannelAssumption, BusAssumption
<1>4. Append(log[1], Head(queue)) \in Seq(1..MaxEvents)
  BY <1>1, <1>3
<1>5. log' \in [Subs -> Seq(1..MaxEvents)]
  BY <1>4
<1>6. QED
  BY <1>1, <1>2, <1>5, ChannelAssumption, BusAssumption

LEMMA TypeLoop ==
    ASSUME TypeOK, Loop
    PROVE  /\ queue' \in Seq(1..MaxEvents)
           /\ Len(queue') <= QueueSize
           /\ event' \in 0..MaxEvents
           /\ index' \in 0..Subscribers
           /\ consumer' \in Dead \cup {"new", "get", "dispatch"}
           /\ consumer' = "dispatch" <=> event' # 0
           /\ event' # 0 <=> index' # 0
           /\ log' \in [Subs -> Seq(1..MaxEvents)]
<1>1. CASE Dispatch
  BY <1>1, TypeDispatch, ChannelAssumption, BusAssumption
<1>2. CASE Waits("get") \/ Waits("done")
  BY <1>2, ChannelAssumption, BusAssumption DEF Waits, TypeOK, Dead
<1>3. QED
  BY <1>1, <1>2 DEF Loop

LEMMA TypeStep == TypeInv /\ [Next]_vars => TypeOK'
<1> SUFFICES ASSUME TypeOK, OneTask, [Next]_vars
             PROVE  TypeOK'
  BY DEF TypeInv
<1> USE ChannelAssumption, BusAssumption
<1>1. CASE Emit
  <2>1. CASE Len(queue) < QueueSize
    <3>1. /\ Append(queue, emitted + 1) \in Seq(1..MaxEvents)
          /\ Len(Append(queue, emitted + 1)) = Len(queue) + 1
      <4>1. emitted + 1 \in 1..MaxEvents /\ queue \in Seq(1..MaxEvents)
        BY <1>1 DEF Emit, TypeOK
      <4>2. QED
        BY ONLY <4>1, SeqOps
    <3>2. /\ queue' \in Seq(1..MaxEvents) /\ Len(queue') <= QueueSize
          /\ unfinished' \in Nat
      <4>1. /\ queue' = Append(queue, emitted + 1)
            /\ unfinished' = unfinished + 1
        BY <1>1, <2>1 DEF Emit
      <4>2. unfinished \in Nat /\ Len(queue) \in Nat
        BY SeqOps DEF TypeOK
      <4>3. QED
        BY ONLY <2>1, <3>1, <4>1, <4>2, ChannelAssumption, BusAssumption
    <3>3. QED
      BY ONLY <1>1, <3>2, TypeOK, ChannelAssumption, BusAssumption
      DEF Emit, TypeOK, task
  <2>2. CASE ~(Len(queue) < QueueSize)
    BY <1>1, <2>2 DEF Emit, TypeOK, task
  <2>3. QED
    BY <2>1, <2>2
<1>2. CASE Start
  BY <1>2 DEF Start, TypeOK, OneTask, Dead
<1>3. CASE \E immediate \in BOOLEAN : Stop(immediate)
  <2>1. promised' \in SUBSET (1..MaxEvents)
    BY <1>3 DEF Stop, TypeOK, Queued
  <2>2. QED
    BY <1>3, <2>1 DEF Stop, TypeOK, task
<1>4. CASE Begin
  BY <1>4, TypeLoop DEF Begin, TypeOK
<1>5. CASE Get
  BY <1>5, TypeDispatch DEF Get, TypeOK
<1>6. CASE GetTimeout
  BY <1>6, TypeLoop DEF GetTimeout, TypeOK
<1>7. CASE NextSubscriber
  <2>1. index + 1 \in Subs /\ event \in 1..MaxEvents
    BY <1>7 DEF NextSubscriber, TypeOK, Subs
  <2>2. Append(log[index + 1], event) \in Seq(1..MaxEvents)
    BY <2>1 DEF TypeOK
  <2>3. log' \in [Subs -> Seq(1..MaxEvents)]
    BY <1>7, <2>2 DEF NextSubscriber, TypeOK
  <2>4. index' \in 0..Subscribers /\ index' # 0
    BY <1>7, <2>1 DEF NextSubscriber, Subs
  <2>5. QED
    BY <1>7, <2>3, <2>4 DEF NextSubscriber, TypeOK
<1>8. CASE LastSubscriber
  <2>1. finished' \in SUBSET (1..MaxEvents)
    BY <1>8 DEF LastSubscriber, TypeOK
  <2>2. CASE unfinished = 0
    BY <1>8, <2>1, <2>2 DEF LastSubscriber, Waits, TypeOK, Dead
  <2>3. CASE unfinished # 0
    <3>1. Loop /\ TaskDone
      BY <1>8, <2>3 DEF LastSubscriber
    <3>2. unfinished' \in Nat
      BY <2>3, <3>1 DEF TaskDone, TypeOK
    <3>3. stopper' \in {"idle", "join", "joined", "cancel", "await"}
      BY <3>1 DEF TaskDone, TypeOK
    <3>4. QED
      BY <1>8, <2>1, <3>1, <3>2, <3>3, TypeLoop DEF LastSubscriber, TypeOK
  <2>4. QED
    BY <2>2, <2>3
<1>9. CASE JoinEnds
  BY <1>9 DEF JoinEnds, TypeOK, task
<1>10. CASE CancelNew
  BY <1>10 DEF CancelNew, Waits, TypeOK, Dead
<1>11. CASE CancelGet
  BY <1>11 DEF CancelGet, Waits, TypeOK, Dead
<1>12. CASE CancelSwallowed
  BY <1>12, TypeDispatch DEF CancelSwallowed, TypeOK
<1>13. CASE CancelDispatch
  BY <1>13 DEF CancelDispatch, Waits, TypeOK, Dead
<1>14. CASE TaskEnded
  BY <1>14 DEF TaskEnded, TypeOK, task
<1>15. CASE UNCHANGED vars
  BY <1>15 DEF vars, TypeOK, task
<1>16. QED
  BY <1>1, <1>2, <1>3, <1>4, <1>5, <1>6, <1>7, <1>8, <1>9, <1>10, <1>11,
     <1>12, <1>13, <1>14, <1>15 DEF Next, Consumer, Stopper

LEMMA OneTaskStep == TypeInv /\ [Next]_vars => OneTask'
<1> SUFFICES ASSUME TypeInv, [Next]_vars
             PROVE  OneTask'
  OBVIOUS
<1> USE DEF TypeInv, TypeOK, OneTask, Dead
<1>1. CASE Emit
  BY <1>1 DEF Emit, task
<1>2. CASE Start
  BY <1>2 DEF Start
<1>3. CASE \E immediate \in BOOLEAN : Stop(immediate)
  BY <1>3 DEF Stop, task
<1>4. CASE Begin \/ Get \/ GetTimeout \/ NextSubscriber
  BY <1>4 DEF Begin, Get, GetTimeout, NextSubscriber
<1>5. CASE LastSubscriber
  BY <1>5 DEF LastSubscriber, TaskDone
<1>6. CASE JoinEnds \/ TaskEnded
  BY <1>6 DEF JoinEnds, TaskEnded, task
<1>7. CASE CancelNew \/ CancelGet \/ CancelDispatch
  BY <1>7 DEF CancelNew, CancelGet, CancelDispatch, Waits
<1>8. CASE CancelSwallowed
  BY <1>8 DEF CancelSwallowed
<1>9. CASE UNCHANGED vars
  BY <1>9 DEF vars, task
<1>10. QED
  BY <1>1, <1>2, <1>3, <1>4, <1>5, <1>6, <1>7, <1>8, <1>9
  DEF Next, Consumer, Stopper

\* The queue never holds more than queue_size events, a dispatch is always
\* about one event and one subscriber, and the join counter is never negative.
THEOREM TypeCorrect == Spec => []TypeOK
<1>1. TypeInv /\ [Next]_vars => TypeInv'
  BY TypeStep, OneTaskStep DEF TypeInv
<1>2. TypeInv => TypeOK
  BY DEF TypeInv
<1>3. QED
  BY TypeInit, <1>1, <1>2, PTL DEF Spec

\* stop() leaves no consumer task behind, so no two tasks ever read the queue.
THEOREM StopLeavesNoTask == Spec => []OneTask
<1>1. TypeInv /\ [Next]_vars => TypeInv'
  BY TypeStep, OneTaskStep DEF TypeInv
<1>2. TypeInv => OneTask
  BY DEF TypeInv
<1>3. QED
  BY TypeInit, <1>1, <1>2, PTL DEF Spec

-----------------------------------------------------------------------------
(* The bus implements the channel *)

LEMMA ImplementsInit == Init => Channel!ChannelInit
BY DEF Init, Channel!ChannelInit, Subs, Channel!Subs

LEMMA ImplementsDispatch ==
    ASSUME Dispatch, UNCHANGED <<emitted, abandoned>>
    PROVE  Channel!TakeOldest
BY DEF Dispatch, Channel!TakeOldest, Channel!Call

\* A step of the loop is a step of the reader, or one the channel cannot see.
LEMMA ImplementsLoop ==
    ASSUME TypeOK, Loop, UNCHANGED <<emitted, abandoned>>, consumer # "dispatch"
    PROVE  Channel!ChannelNext \/ UNCHANGED Channel!channel
<1>1. CASE Dispatch
  BY <1>1, ImplementsDispatch DEF TypeOK, Channel!ChannelNext, Channel!Take
<1>2. CASE Waits("get") \/ Waits("done")
  BY <1>2 DEF Waits, TypeOK, Channel!channel
<1>3. QED
  BY <1>1, <1>2 DEF Loop

LEMMA ImplementsStep ==
    TypeOK /\ [Next]_vars => [Channel!ChannelNext]_(Channel!channel)
<1> SUFFICES ASSUME TypeOK, [Next]_vars
             PROVE  Channel!ChannelNext \/ UNCHANGED Channel!channel
  OBVIOUS
<1> USE DEF Channel!ChannelNext
<1>1. CASE Emit
  BY <1>1 DEF Emit, task, Channel!Accept
<1>2. CASE Begin
  BY <1>2, ImplementsLoop DEF Begin
<1>3. CASE Get
  BY <1>3, ImplementsDispatch DEF Get, TypeOK, Channel!Take
<1>4. CASE GetTimeout
  BY <1>4, ImplementsLoop DEF GetTimeout
<1>5. CASE NextSubscriber
  BY <1>5 DEF NextSubscriber, TypeOK, Channel!Advance, Channel!Call
<1>6. CASE LastSubscriber
  <2>1. event # 0 /\ index = Subscribers /\ UNCHANGED <<emitted, abandoned>>
    BY <1>6 DEF LastSubscriber, TypeOK
  <2>2. Dispatch \/ \E at \in {"get", "done", "crashed"} : Waits(at)
    BY <1>6 DEF LastSubscriber, Loop
  <2>3. Channel!Complete
    BY <2>1, <2>2, ImplementsDispatch
    DEF Waits, Channel!Complete, Channel!GoIdle
  <2>4. QED
    BY <2>3
<1>7. CASE CancelNew
  BY <1>7 DEF CancelNew, Waits, TypeOK, Channel!channel
<1>8. CASE CancelGet
  BY <1>8 DEF CancelGet, Waits, TypeOK, Channel!channel
<1>9. CASE CancelSwallowed
  BY <1>9, ImplementsDispatch DEF CancelSwallowed, TypeOK, Channel!Take
<1>10. CASE CancelDispatch
  BY <1>10 DEF CancelDispatch, Waits, TypeOK, Channel!Abandon, Channel!GoIdle
<1>11. CASE Start
  BY <1>11 DEF Start, Channel!channel
<1>12. CASE \E immediate \in BOOLEAN : Stop(immediate)
  BY <1>12 DEF Stop, task, Channel!channel
<1>13. CASE JoinEnds \/ TaskEnded
  BY <1>13 DEF JoinEnds, TaskEnded, task, Channel!channel
<1>14. CASE UNCHANGED vars
  BY <1>14 DEF vars, task, Channel!channel
<1>15. QED
  BY <1>1, <1>2, <1>3, <1>4, <1>5, <1>6, <1>7, <1>8, <1>9, <1>10, <1>11,
     <1>12, <1>13, <1>14 DEF Next, Consumer, Stopper

\* The bus implements the channel: tasks, timeouts, cancellations, restarts
\* and a crashed consumer show to the subscribers as hand-overs only.
THEOREM BusImplementsChannel == Spec => ImplementsChannel
<1>1. Spec => []TypeOK
  BY TypeCorrect
<1>2. QED
  BY <1>1, ImplementsInit, ImplementsStep, PTL
  DEF Spec, ImplementsChannel, Channel!ChannelSpec

\* The module of the channel's proofs talks of the same channel.
LEMMA SameChannel ==
    /\ Channel!ChannelInit => Promise!ChannelInit
    /\ [Channel!ChannelNext]_(Channel!channel)
        => [Promise!ChannelNext]_(Promise!channel)
    /\ Promise!InOrderOnce => InOrderOnce
    /\ Promise!Isolated => Isolated
BY DEF Channel!ChannelInit, Promise!ChannelInit, Channel!ChannelNext,
   Promise!ChannelNext, Channel!channel, Promise!channel, Channel!Accept,
   Promise!Accept, Channel!Take, Promise!Take, Channel!TakeOldest,
   Promise!TakeOldest, Channel!Advance, Promise!Advance, Channel!Complete,
   Promise!Complete, Channel!Abandon, Promise!Abandon, Channel!GoIdle,
   Promise!GoIdle, Channel!Call, Promise!Call, Channel!Subs, Promise!Subs,
   Channel!Received, Promise!Received, Channel!InOrderOnce,
   Promise!InOrderOnce, Channel!Isolated, Promise!Isolated, InOrderOnce,
   Isolated

LEMMA ImplementsPromise == Spec => Promise!ChannelSpec
BY BusImplementsChannel, SameChannel, PTL
DEF ImplementsChannel, Channel!ChannelSpec, Promise!ChannelSpec

\* Each subscriber is called with each event at most once, in the order of
\* the emits, for any numbers of subscribers, events and restarts.
THEOREM BusInOrderOnce == Spec => []InOrderOnce
<1>1. Promise!ChannelSpec => []Promise!InOrderOnce
  BY ChannelAssumption, Promise!ChannelInOrderOnce DEF Promise!ChannelAssumption
<1>2. QED
  BY <1>1, ImplementsPromise, SameChannel, PTL

\* All subscribers receive the same events, whichever of them raise, except
\* the event in dispatch and those whose dispatch a stop() has cancelled.
THEOREM BusIsolated == Spec => []Isolated
<1>1. Promise!ChannelSpec => []Promise!Isolated
  BY ChannelAssumption, Promise!ChannelIsolated DEF Promise!ChannelAssumption
<1>2. QED
  BY <1>1, ImplementsPromise, SameChannel, PTL

-----------------------------------------------------------------------------
(* stop() drains the queue *)

InDispatch == IF event # 0 THEN 1 ELSE 0

\* Until its first stop(), and while that one waits, the join counter counts what
\* is queued and the event in dispatch.
Counted ==
    starts <= 1 /\ (running \/ starts = 0 \/ stopper = "join") =>
        unfinished = Len(queue) + InDispatch

\* The inductive invariant.
DrainInv ==
    /\ TypeInv
    /\ running => stopper = "idle"
    /\ starts = 0 => consumer = "none" /\ stopper = "idle" /\ ~running
    /\ Counted
    /\ starts = 1 /\ stopper = "join"
       => promised \subseteq finished \cup Queued \cup {event}
    /\ DrainedOnJoin

LEMMA QueueOps ==
    ASSUME NEW S, NEW q \in Seq(S)
    PROVE  /\ q # <<>> =>
                  {q[i] : i \in 1..Len(q)} \subseteq
                      {Head(q)} \cup {Tail(q)[i] : i \in 1..Len(Tail(q))}
           /\ \A e \in S :
                  {q[i] : i \in 1..Len(q)} \subseteq
                      {Append(q, e)[i] : i \in 1..Len(Append(q, e))}
           /\ Len(q) = 0 => {q[i] : i \in 1..Len(q)} = {} /\ q = <<>>
<1>1. ASSUME q # <<>>, NEW i \in 1..Len(q)
      PROVE  q[i] = Head(q) \/ \E j \in 1..Len(Tail(q)) : q[i] = Tail(q)[j]
  <2>1. CASE i = 1
    BY <1>1, <2>1
  <2>2. CASE i # 1
    <3>1. i - 1 \in 1..Len(Tail(q)) /\ Tail(q)[i - 1] = q[i]
      BY <1>1, <2>2
    <3>2. QED
      BY <3>1
  <2>3. QED
    BY <2>1, <2>2
<1>2. ASSUME NEW e \in S, NEW i \in 1..Len(q)
      PROVE  i \in 1..Len(Append(q, e)) /\ q[i] = Append(q, e)[i]
  BY <1>2
<1>3. Len(q) = 0 => {q[i] : i \in 1..Len(q)} = {} /\ q = <<>>
  OBVIOUS
<1>4. QED
  BY <1>1, <1>2, <1>3

\* The loop hands its event over or waits, and forgets nothing.
LEMMA LoopKeeps ==
    ASSUME TypeOK, Loop \/ Dispatch
    PROVE  /\ Len(queue') + InDispatch' = Len(queue)
           /\ Queued \subseteq Queued' \cup {event'}
           /\ Len(queue') \in Nat
<1>1. queue \in Seq(1..MaxEvents) /\ Len(queue) \in Nat
  BY DEF TypeOK
<1>2. CASE Dispatch
  <2>1. /\ queue # <<>> /\ event' = Head(queue) /\ queue' = Tail(queue)
    BY <1>2 DEF Dispatch
  <2>2. Len(queue') = Len(queue) - 1 /\ event' \in 1..MaxEvents /\ Len(queue') \in Nat
    BY <1>1, <2>1, SeqOps
  <2>3. InDispatch' = 1
    BY <2>2, ChannelAssumption DEF InDispatch
  <2>4. {queue[i] : i \in 1..Len(queue)} \subseteq
            {Head(queue)} \cup {Tail(queue)[i] : i \in 1..Len(Tail(queue))}
    BY <1>1, <2>1, QueueOps
  <2>5. Queued \subseteq {event'} \cup Queued'
    <3>1. Queued' = {Tail(queue)[i] : i \in 1..Len(Tail(queue))}
      BY <2>1 DEF Queued
    <3>2. QED
      BY <2>1, <2>4, <3>1 DEF Queued
  <2>6. QED
    BY <1>1, <2>2, <2>3, <2>5
<1>3. CASE Waits("get") \/ Waits("done")
  <2>1. queue' = queue /\ event' = 0
    BY <1>3 DEF Waits
  <2>2. InDispatch' = 0 /\ Queued' = Queued /\ Len(queue') = Len(queue)
    BY <2>1 DEF InDispatch, Queued
  <2>3. QED
    BY <1>1, <2>2
<1>4. QED
  BY <1>2, <1>3 DEF Loop

LEMMA DrainInit == Init => DrainInv
<1> SUFFICES ASSUME Init PROVE DrainInv
  OBVIOUS
<1>1. TypeInv
  BY TypeInit
<1>2. /\ queue = <<>> /\ unfinished = 0 /\ ~running /\ consumer = "none" /\ event = 0
      /\ stopper = "idle" /\ starts = 0
  BY DEF Init
<1>3. Len(<<>>) = 0
  OBVIOUS
<1>4. QED
  BY <1>1, <1>2, <1>3 DEF DrainInv, Counted, InDispatch, DrainedOnJoin

LEMMA DrainStep == DrainInv /\ [Next]_vars => DrainInv'
<1> SUFFICES ASSUME DrainInv, [Next]_vars PROVE DrainInv'
  OBVIOUS
<1> USE ChannelAssumption, BusAssumption
<1>1. /\ TypeInv /\ TypeOK /\ queue \in Seq(1..MaxEvents) /\ Len(queue) \in Nat
      /\ unfinished \in Nat /\ event \in 0..MaxEvents /\ starts \in Nat
      /\ consumer = "dispatch" <=> event # 0
      /\ running \in BOOLEAN
  BY DEF DrainInv, TypeInv, TypeOK
<1>2. TypeInv'
  BY <1>1, TypeStep, OneTaskStep DEF TypeInv
<1>3. /\ running => stopper = "idle"
      /\ starts = 0 => consumer = "none" /\ stopper = "idle" /\ ~running
      /\ Counted
      /\ starts = 1 /\ stopper = "join"
         => promised \subseteq finished \cup Queued \cup {event}
      /\ DrainedOnJoin
  BY DEF DrainInv
<1>4. CASE Emit
  <2>1. UNCHANGED <<running, consumer, event, finished, stopper, starts, promised>>
    BY <1>4 DEF Emit, task
  <2>2. Queued \subseteq Queued'
        /\ Len(queue') - Len(queue) = unfinished' - unfinished /\ Len(queue') \in Nat
        /\ unfinished' \in Nat
    <3>1. CASE Len(queue) < QueueSize
      <4>1. emitted + 1 \in 1..MaxEvents
        BY <1>1, <1>4 DEF Emit, TypeOK
      <4>2. queue' = Append(queue, emitted + 1) /\ unfinished' = unfinished + 1
        BY <1>4, <3>1 DEF Emit
      <4>3. Queued \subseteq Queued'
        BY <1>1, <4>1, <4>2, QueueOps DEF Queued
      <4>4. Len(queue') = Len(queue) + 1
        BY <1>1, <4>1, <4>2, SeqOps
      <4>5. QED
        BY <1>1, <4>2, <4>3, <4>4
    <3>2. CASE ~(Len(queue) < QueueSize)
      BY <1>1, <1>4, <3>2 DEF Emit, Queued
    <3>3. QED
      BY <3>1, <3>2
  <2>3. Counted'
    <3>1. InDispatch' = InDispatch /\ InDispatch \in {0, 1}
      BY <2>1 DEF InDispatch
    <3>2. QED
      BY <1>1, <1>3, <2>1, <2>2, <3>1 DEF Counted
  <2>4. QED
    BY <1>2, <1>3, <2>1, <2>2, <2>3 DEF DrainInv, DrainedOnJoin
<1>5. CASE Start
  <2>1. /\ stopper = "idle" /\ ~running /\ running' /\ consumer' = "new"
           /\ starts' = starts + 1
        /\ UNCHANGED <<queue, unfinished, event, stopper, finished, promised>>
    BY <1>5 DEF Start
  <2>2. Counted'
    <3>1. starts' <= 1 => starts = 0
      BY <1>1, <2>1
    <3>2. InDispatch' = InDispatch
      BY <2>1 DEF InDispatch
    <3>3. QED
      BY <1>3, <2>1, <3>1, <3>2 DEF Counted
  <2>3. starts' # 0
    BY <1>1, <2>1
  <2>4. QED
    BY <1>2, <2>1, <2>2, <2>3 DEF DrainInv, DrainedOnJoin
<1>6. CASE \E immediate \in BOOLEAN : Stop(immediate)
  <2>1. /\ stopper = "idle" /\ starts > 0 /\ ~running'
        /\ running \/ consumer \notin Dead
        /\ promised' = Queued \cup ({event} \ {0})
        /\ UNCHANGED <<queue, unfinished, event, finished, starts, consumer>>
    BY <1>6 DEF Stop, task
  <2>2. \/ stopper' \in {"idle", "cancel"}
        \/ stopper' = "joined" /\ unfinished = 0
        \/ stopper' = "join" /\ consumer \notin Dead
    BY <1>6 DEF Stop
  <2>3. starts = 1 => unfinished = Len(queue) + InDispatch
    <3>1. running \/ (~running /\ consumer \notin Dead /\ stopper = "idle")
      BY <2>1
    <3>2. ~(~running /\ consumer \notin Dead /\ stopper = "idle")
      BY <1>1 DEF TypeInv, OneTask
    <3>3. QED
      BY <1>3, <3>1, <3>2 DEF Counted
  <2>4. InDispatch' = InDispatch /\ Queued' = Queued
    BY <2>1 DEF InDispatch, Queued
  <2>5. Counted'
    BY <1>1, <2>1, <2>3, <2>4 DEF Counted
  <2>6. DrainedOnJoin'
    <3> SUFFICES ASSUME starts = 1, stopper' = "joined"
                     PROVE  promised' \subseteq finished'
      BY <2>1 DEF DrainedOnJoin
    <3>1. Len(queue) = 0 /\ event = 0
      BY <1>1, <2>2, <2>3 DEF InDispatch
    <3>2. Queued = {}
      BY <1>1, <3>1, QueueOps DEF Queued
    <3>3. QED
      BY <2>1, <3>1, <3>2
  <2>7. QED
    BY <1>1, <1>2, <2>1, <2>4, <2>5, <2>6 DEF DrainInv
<1>7. CASE Begin \/ Get \/ GetTimeout
  <2>1. /\ Loop \/ Dispatch
        /\ stopper # "cancel" /\ consumer \in {"new", "get"}
        /\ UNCHANGED <<unfinished, running, stopper, starts, finished, promised>>
    BY <1>7 DEF Begin, Get, GetTimeout, Runs
  <2>2. /\ Len(queue') + InDispatch' = Len(queue)
           /\ Queued \subseteq Queued' \cup {event'}
    BY <1>1, <2>1, LoopKeeps
  <2>3. event = 0 /\ InDispatch = 0
    BY <1>1, <2>1 DEF InDispatch
  <2>4. starts # 0
    BY <1>3, <2>1
  <2>5. Counted'
    BY <1>1, <1>3, <2>1, <2>2, <2>3 DEF Counted
  <2>6. starts' = 1 /\ stopper' = "join" =>
            promised' \subseteq finished' \cup Queued' \cup {event'}
    <3>1. ASSUME starts = 1, stopper = "join"
          PROVE  promised \subseteq finished \cup Queued
      <4>1. 0 \notin promised
        BY <1>1 DEF TypeOK
      <4>2. QED
        BY <1>3, <2>3, <3>1, <4>1
    <3>2. QED
      BY <2>1, <2>2, <3>1
  <2>7. QED
    BY <1>2, <1>3, <2>1, <2>4, <2>5, <2>6 DEF DrainInv, DrainedOnJoin
<1>8. CASE NextSubscriber
  <2>1. UNCHANGED <<queue, unfinished, running, consumer, event, stopper, starts,
                    finished,
                    promised>>
    BY <1>8 DEF NextSubscriber
  <2>2. QED
    BY <1>2, <1>3, <2>1 DEF DrainInv, Counted, InDispatch, Queued, DrainedOnJoin
<1>9. CASE LastSubscriber
  <2>1. /\ consumer = "dispatch" /\ finished' = finished \cup {event}
           /\ stopper # "cancel"
        /\ UNCHANGED <<running, starts, promised>>
        /\ event # 0 /\ InDispatch = 1 /\ starts # 0
    BY <1>1, <1>3, <1>9 DEF LastSubscriber, Runs, InDispatch
  <2>2. CASE unfinished = 0
    <3>1. UNCHANGED <<unfinished, stopper>> /\ queue' = queue
      BY <1>9, <2>2 DEF LastSubscriber, Waits
    <3>2. ~(starts <= 1 /\ (running \/ starts = 0 \/ stopper = "join"))
      BY <1>1, <1>3, <2>1, <2>2 DEF Counted
    <3>3. QED
      BY <1>1, <1>2, <1>3, <2>1, <3>1, <3>2 DEF DrainInv, Counted, DrainedOnJoin
  <2>3. CASE unfinished # 0
    <3>1. /\ Loop /\ unfinished' = unfinished - 1
          /\ stopper' = IF stopper = "join" /\ unfinished = 1 THEN "joined" ELSE stopper
      BY <1>9, <2>3 DEF LastSubscriber, TaskDone
    <3>2. /\ Len(queue') + InDispatch' = Len(queue)
          /\ Queued \subseteq Queued' \cup {event'}
      BY <1>1, <3>1, LoopKeeps
    <3>3. Counted'
      BY <1>1, <1>3, <2>1, <3>1, <3>2 DEF Counted
    <3>4. starts' = 1 /\ stopper' = "join" =>
              promised' \subseteq finished' \cup Queued' \cup {event'}
      BY <1>3, <2>1, <3>1, <3>2
    <3>5. DrainedOnJoin'
      <4> SUFFICES ASSUME starts = 1, stopper' = "joined"
                     PROVE  promised \subseteq finished'
        BY <2>1 DEF DrainedOnJoin
      <4>1. CASE stopper = "joined"
        BY <1>3, <2>1, <4>1 DEF DrainedOnJoin
      <4>2. CASE stopper # "joined"
        <5>1. stopper = "join" /\ unfinished = 1
          BY <3>1, <4>2
        <5>2. Len(queue) = 0
          BY <1>1, <1>3, <2>1, <5>1 DEF Counted
        <5>3. Queued = {}
          BY <1>1, <5>2, QueueOps DEF Queued
        <5>4. QED
          BY <1>3, <2>1, <5>1, <5>3
      <4>3. QED
        BY <4>1, <4>2
    <3>6. QED
      BY <1>2, <1>3, <2>1, <3>1, <3>3, <3>4, <3>5 DEF DrainInv
  <2>4. QED
    BY <2>2, <2>3
<1>10. CASE Stopper
  <2>1. /\ stopper \in {"join", "joined", "cancel", "await"}
        /\ stopper' \in {"idle", "cancel", "await"}
        /\ UNCHANGED <<running, starts>>
    BY <1>10
       DEF Stopper, JoinEnds, CancelNew, CancelGet, CancelSwallowed, CancelDispatch,
                 TaskEnded
  <2>2. ~running /\ starts # 0
    BY <1>3, <2>1
  <2>3. QED
    BY <1>2, <2>1, <2>2 DEF DrainInv, Counted, DrainedOnJoin
<1>11. CASE UNCHANGED vars
  <2>1. UNCHANGED <<queue, unfinished, running, consumer, event, stopper, starts,
                    finished,
                    promised>>
    BY <1>11 DEF vars, task
  <2>2. QED
    BY <1>2, <1>3, <2>1 DEF DrainInv, Counted, InDispatch, Queued, DrainedOnJoin
<1>12. QED
  BY <1>4, <1>5, <1>6, <1>7, <1>8, <1>9, <1>10, <1>11 DEF Next, Consumer

\* When stop() has waited for the queue without timing out, what the bus had
\* accepted has reached every subscriber.
THEOREM StopDrains == Spec => []DrainedOnJoin
BY DrainInit, DrainStep, PTL DEF Spec, DrainInv

=============================================================================
