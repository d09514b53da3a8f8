-------------------------- MODULE EventChannel_proofs --------------------------
(***************************************************************************)
(* Theorems about the event channel, for every number of subscribers and   *)
(* every queue size.                                                       *)
(***************************************************************************)
EXTENDS EventChannel, TLAPS

Types ==
    /\ emitted \in Nat
    /\ queue \in Seq(Nat)
    /\ current \in Nat
    /\ next \in 0..Subscribers
    /\ log \in [Subs -> Seq(Nat)]
    /\ current = 0 <=> next = 0

Increasing(q) == \A i, j \in 1..Len(q) : i < j => q[i] < q[j]

\* Everything handed over is older than the event being handed over, which is
\* older than everything that waits.
Ordered ==
    /\ Increasing(queue)
    /\ \A i \in 1..Len(queue) : queue[i] \in 1..emitted /\ current < queue[i]
    /\ current <= emitted
    /\ \A s \in Subs :
        /\ Increasing(log[s])
        /\ \A i \in 1..Len(log[s]) :
            /\ log[s][i] <= emitted
            /\ \A j \in 1..Len(queue) : log[s][i] < queue[j]
            /\ s > next /\ current # 0 => log[s][i] < current

OrderInv == Types /\ Ordered

-----------------------------------------------------------------------------
(* Sequences of numbers *)

LEMMA AppendIncreasing ==
    ASSUME NEW q \in Seq(Nat), NEW e \in Nat, Increasing(q),
           \A i \in 1..Len(q) : q[i] < e
    PROVE  /\ Append(q, e) \in Seq(Nat)
           /\ Increasing(Append(q, e))
           /\ Len(Append(q, e)) = Len(q) + 1
           /\ \A i \in 1..Len(q) : Append(q, e)[i] = q[i]
           /\ Append(q, e)[Len(q) + 1] = e
<1>1. /\ Append(q, e) \in Seq(Nat)
      /\ Len(Append(q, e)) = Len(q) + 1
      /\ Len(q) \in Nat
      /\ \A i \in 1..Len(q) : Append(q, e)[i] = q[i]
      /\ Append(q, e)[Len(q) + 1] = e
  OBVIOUS
<1> DEFINE r == Append(q, e)
<1> HIDE DEF r
<1>2. \A i, j \in 1..Len(r) : i < j => i \in 1..Len(q)
  BY <1>1 DEF r
<1>3. \A j \in 1..Len(r) : j \in 1..Len(q) \/ r[j] = e
  BY <1>1 DEF r
<1>4. Increasing(r)
  BY <1>1, <1>2, <1>3 DEF Increasing, r
<1>5. QED
  BY <1>1, <1>4 DEF r

LEMMA TailIncreasing ==
    ASSUME NEW q \in Seq(Nat), q # <<>>, Increasing(q)
    PROVE  /\ Head(q) \in Nat
           /\ Head(q) = q[1]
           /\ 1 \in 1..Len(q)
           /\ Tail(q) \in Seq(Nat)
           /\ Len(Tail(q)) = Len(q) - 1
           /\ \A i \in 1..Len(Tail(q)) : /\ Tail(q)[i] = q[i + 1]
                                         /\ i + 1 \in 1..Len(q)
                                         /\ Head(q) < Tail(q)[i]
           /\ Increasing(Tail(q))
<1>1. /\ Head(q) \in Nat
      /\ Head(q) = q[1]
      /\ 1 \in 1..Len(q)
      /\ Tail(q) \in Seq(Nat)
      /\ Len(Tail(q)) = Len(q) - 1
  OBVIOUS
<1>2. \A i \in 1..Len(Tail(q)) : Tail(q)[i] = q[i + 1] /\ i + 1 \in 1..Len(q)
  OBVIOUS
<1>3. \A i \in 1..Len(Tail(q)) : 1 < i + 1
  BY <1>1
<1>4. \A i \in 1..Len(Tail(q)) : Head(q) < Tail(q)[i]
  BY <1>1, <1>2, <1>3 DEF Increasing
<1>5. Increasing(Tail(q))
  BY <1>1, <1>2 DEF Increasing
<1>6. QED
  BY <1>1, <1>2, <1>4, <1>5

-----------------------------------------------------------------------------
LEMMA OrderInit == ChannelInit => OrderInv
BY ChannelAssumption
DEF ChannelInit, OrderInv, Types, Ordered, Increasing, Subs

LEMMA OrderAccept == OrderInv /\ Accept => OrderInv'
<1> SUFFICES ASSUME OrderInv, Accept
             PROVE  OrderInv'
  OBVIOUS
<1> USE ChannelAssumption DEF OrderInv, Types, Ordered, Subs, Accept
<1>1. CASE Len(queue) < QueueSize
  <2>1. queue' = Append(queue, emitted + 1) /\ emitted' = emitted + 1
    BY <1>1
  <2>2. /\ queue' \in Seq(Nat)
        /\ Increasing(queue')
        /\ Len(queue') = Len(queue) + 1
        /\ \A i \in 1..Len(queue) : queue'[i] = queue[i]
        /\ queue'[Len(queue) + 1] = emitted + 1
    <3>1. /\ queue \in Seq(Nat)
          /\ emitted + 1 \in Nat
          /\ Increasing(queue)
          /\ \A i \in 1..Len(queue) : queue[i] < emitted + 1
      OBVIOUS
    <3>2. QED
      BY ONLY <2>1, <3>1, AppendIncreasing
  <2>3. \A i \in 1..Len(queue') : i \in 1..Len(queue) \/ i = Len(queue) + 1
    BY <2>2
  <2>4. Types'
    BY <2>1, <2>2
  <2>5. \A i \in 1..Len(queue') : queue'[i] \in 1..emitted' /\ current < queue'[i]
    BY <2>1, <2>2, <2>3
  <2>6. \A s \in Subs : \A i \in 1..Len(log[s]) :
            log[s][i] <= emitted' /\ \A j \in 1..Len(queue') : log[s][i] < queue'[j]
    <3>1. \A s \in Subs : \A i \in 1..Len(log[s]) :
              /\ log[s][i] \in Nat
              /\ log[s][i] <= emitted
              /\ \A j \in 1..Len(queue) : log[s][i] < queue[j]
      <4>1. \A s \in Subs : log[s] \in Seq(Nat)
        BY ONLY OrderInv DEF OrderInv, Types
      <4>2. QED
        BY ONLY OrderInv, <4>1 DEF OrderInv, Ordered
    <3>2. emitted \in Nat
      OBVIOUS
    <3>3. QED
      BY ONLY <2>1, <2>2, <2>3, <3>1, <3>2
  <2>7. Ordered'
    BY <2>1, <2>2, <2>5, <2>6
  <2>8. QED
    BY ONLY <2>4, <2>7 DEF OrderInv
<1>2. CASE ~(Len(queue) < QueueSize)
  BY <1>2
<1>3. QED
  BY <1>1, <1>2

LEMMA OrderTake ==
    ASSUME OrderInv, TakeOldest, current = 0 \/ next = Subscribers
    PROVE  OrderInv'
<1> USE ChannelAssumption DEF OrderInv, Types, Ordered, Subs
<1> DEFINE e == Head(queue)
<1>1. /\ queue # <<>>
      /\ current' = e
      /\ queue' = Tail(queue)
      /\ next' = 1
      /\ log' = [log EXCEPT ![1] = Append(log[1], e)]
      /\ emitted' = emitted
  BY DEF TakeOldest, Call
<1>2. /\ e \in Nat
      /\ e = queue[1]
      /\ 1 \in 1..Len(queue)
      /\ queue' \in Seq(Nat)
      /\ Len(queue') = Len(queue) - 1
      /\ \A i \in 1..Len(queue') : /\ queue'[i] = queue[i + 1]
                                   /\ i + 1 \in 1..Len(queue)
                                   /\ e < queue'[i]
      /\ Increasing(queue')
  BY <1>1, TailIncreasing
<1>3. e \in 1..emitted /\ e # 0
  BY <1>2
<1>4. \A s \in Subs : \A i \in 1..Len(log[s]) : log[s][i] < e
  BY <1>2
<1>5. /\ log'[1] \in Seq(Nat)
      /\ Increasing(log'[1])
      /\ Len(log'[1]) = Len(log[1]) + 1
      /\ \A i \in 1..Len(log[1]) : log'[1][i] = log[1][i]
      /\ log'[1][Len(log[1]) + 1] = e
  <2>1. 1 \in Subs
    BY ONLY ChannelAssumption DEF Subs
  <2> HIDE DEF Subs
  <2>2. log[1] \in Seq(Nat) /\ Increasing(log[1])
    BY <2>1
  <2>3. log'[1] = Append(log[1], e)
    BY <1>1, <2>1
  <2>4. \A i \in 1..Len(log[1]) : log[1][i] < e
    BY <1>4, <2>1
  <2>5. e \in Nat
    BY ONLY <1>2
  <2> HIDE DEF e
  <2>6. QED
    BY ONLY <2>3, <2>4, <2>5, <2>2, AppendIncreasing
<1>6. \A s \in Subs : s # 1 => log'[s] = log[s]
  BY <1>1
<1>7. Types'
  BY <1>1, <1>2, <1>3, <1>5, <1>6
<1>8. \A s \in Subs : \A i \in 1..Len(log'[s]) :
          log'[s][i] = e \/ (i \in 1..Len(log[s]) /\ log'[s][i] = log[s][i])
  <2>1. Len(log[1]) \in Nat
    BY ONLY ChannelAssumption, OrderInv DEF OrderInv, Types, Subs
  <2>2. \A i \in 1..Len(log'[1]) : i \in 1..Len(log[1]) \/ i = Len(log[1]) + 1
    BY ONLY <1>5, <2>1
  <2>3. QED
    BY ONLY <1>5, <1>6, <2>2
<1>9. \A s \in Subs : Increasing(log'[s])
  BY <1>5, <1>6
<1>10. \A s \in Subs : \A i \in 1..Len(log'[s]) :
          /\ log'[s][i] <= emitted
          /\ \A j \in 1..Len(queue') : log'[s][i] < queue'[j]
  <2>1. \A s \in Subs : \A i \in 1..Len(log[s]) :
            log[s][i] <= emitted /\ \A j \in 1..Len(queue) : log[s][i] < queue[j]
    BY ONLY OrderInv DEF OrderInv, Ordered
  <2>2. e <= emitted
    BY <1>3
  <2>3. QED
    BY ONLY <1>2, <1>8, <2>1, <2>2
<1>11. \A s \in Subs : s > 1 => \A i \in 1..Len(log'[s]) : log'[s][i] < e
  BY <1>4, <1>6
<1>12. Ordered'
  <2>1. \A i \in 1..Len(queue') : queue'[i] \in 1..emitted /\ e < queue'[i]
    BY ONLY <1>2, OrderInv DEF OrderInv, Ordered
  <2>2. e <= emitted /\ emitted \in Nat
    BY <1>3
  <2>3. QED
    BY ONLY <1>1, <1>2, <1>9, <1>10, <1>11, <2>1, <2>2 DEF Ordered
<1>13. QED
  BY <1>7, <1>12

LEMMA OrderAdvance == OrderInv /\ Advance => OrderInv'
<1> SUFFICES ASSUME OrderInv, Advance
             PROVE  OrderInv'
  OBVIOUS
<1> USE ChannelAssumption DEF OrderInv, Types, Ordered, Subs
<1> DEFINE n == next + 1
<1>1. /\ current # 0
      /\ n \in Subs
      /\ n > next
      /\ next' = n
      /\ log' = [log EXCEPT ![n] = Append(log[n], current)]
      /\ UNCHANGED <<emitted, queue, current>>
  BY DEF Advance, Call
<1>2. \A i \in 1..Len(log[n]) : log[n][i] < current
  BY <1>1
<1>3. /\ log'[n] \in Seq(Nat)
      /\ Increasing(log'[n])
      /\ Len(log'[n]) = Len(log[n]) + 1
      /\ \A i \in 1..Len(log[n]) : log'[n][i] = log[n][i]
      /\ log'[n][Len(log[n]) + 1] = current
  <2>1. log[n] \in Seq(Nat) /\ Increasing(log[n]) /\ current \in Nat
    BY <1>1
  <2>2. log'[n] = Append(log[n], current)
    BY <1>1
  <2>3. QED
    BY ONLY <1>2, <2>1, <2>2, AppendIncreasing
<1>4. \A s \in Subs : s # n => log'[s] = log[s]
  BY <1>1
<1>5. Types'
  BY <1>1, <1>3, <1>4
<1>6. \A s \in Subs : \A i \in 1..Len(log'[s]) :
          log'[s][i] = current \/ (i \in 1..Len(log[s]) /\ log'[s][i] = log[s][i])
  <2>1. Len(log[n]) \in Nat
    BY ONLY <1>1, OrderInv DEF OrderInv, Types
  <2>2. \A i \in 1..Len(log'[n]) : i \in 1..Len(log[n]) \/ i = Len(log[n]) + 1
    BY ONLY <1>3, <2>1
  <2>3. QED
    BY ONLY <1>3, <1>4, <2>2
<1>7. \A s \in Subs : Increasing(log'[s])
  BY <1>3, <1>4
<1>8. \A s \in Subs : \A i \in 1..Len(log'[s]) :
          /\ log'[s][i] <= emitted
          /\ \A j \in 1..Len(queue) : log'[s][i] < queue[j]
  <2>1. \A s \in Subs : \A i \in 1..Len(log[s]) :
            log[s][i] <= emitted /\ \A j \in 1..Len(queue) : log[s][i] < queue[j]
    BY ONLY OrderInv DEF OrderInv, Ordered
  <2>2. current <= emitted /\ \A j \in 1..Len(queue) : current < queue[j]
    BY ONLY OrderInv DEF OrderInv, Ordered
  <2>3. QED
    BY ONLY <1>6, <2>1, <2>2
<1>9. \A s \in Subs : s > n => \A i \in 1..Len(log'[s]) : log'[s][i] < current
  BY <1>1, <1>4
<1>10. Ordered'
  <2>1. /\ Increasing(queue)
        /\ \A i \in 1..Len(queue) : queue[i] \in 1..emitted /\ current < queue[i]
        /\ current <= emitted
    OBVIOUS
  <2>2. QED
    BY ONLY <1>1, <1>7, <1>8, <1>9, <2>1 DEF Ordered, Increasing
<1>11. QED
  BY <1>5, <1>10

LEMMA OrderIdle ==
    ASSUME OrderInv, GoIdle
    PROVE  OrderInv'
<1>1. current' = 0 /\ next' = 0 /\ emitted' = emitted /\ queue' = queue
      /\ log' = log
  BY DEF GoIdle
<1>2. Types'
  BY <1>1, ChannelAssumption DEF OrderInv, Types, Subs
<1>3. \A i \in 1..Len(queue) : queue[i] \in 1..emitted /\ 0 < queue[i]
  BY DEF OrderInv, Types, Ordered
<1>4. Increasing(queue)'
  BY <1>1 DEF OrderInv, Ordered, Increasing
<1>5. \A s \in Subs : Increasing(log[s])'
  BY <1>1 DEF OrderInv, Ordered, Increasing, Subs
<1>6. Ordered'
  BY <1>1, <1>3, <1>4, <1>5 DEF OrderInv, Types, Ordered, Subs
<1>7. QED
  BY <1>2, <1>6 DEF OrderInv

LEMMA OrderStep == OrderInv /\ [ChannelNext]_channel => OrderInv'
<1> SUFFICES ASSUME OrderInv, [ChannelNext]_channel
             PROVE  OrderInv'
  OBVIOUS
<1>1. CASE Accept
  BY <1>1, OrderAccept
<1>2. CASE Take
  BY <1>2, OrderTake DEF Take
<1>3. CASE Advance
  BY <1>3, OrderAdvance
<1>4. CASE Complete
  BY <1>4, OrderTake, OrderIdle DEF Complete
<1>5. CASE Abandon
  BY <1>5, OrderIdle DEF Abandon
<1>6. CASE UNCHANGED channel
  BY <1>6 DEF channel, OrderInv, Types, Ordered, Increasing, Subs
<1>7. QED
  BY <1>1, <1>2, <1>3, <1>4, <1>5, <1>6 DEF ChannelNext

\* For any number of subscribers and any queue size, each subscriber is called
\* with each event at most once and in the order of the emits.
THEOREM ChannelInOrderOnce == ChannelSpec => []InOrderOnce
<1>1. OrderInv => InOrderOnce
  BY DEF OrderInv, Ordered, Increasing, InOrderOnce
<1>2. QED
  BY <1>1, OrderInit, OrderStep, PTL DEF ChannelSpec

-----------------------------------------------------------------------------
(* No subscriber is left out *)

\* The subscribers up to "next" have been called with the current event; two
\* subscribers differ in the abandoned events, and in the current one if it
\* has reached only the first of them.
Level ==
    /\ \A s \in Subs : s <= next => current \in Received(s)
    /\ \A s, t \in Subs :
        s < t => /\ Received(t) \subseteq Received(s)
                 /\ \A e \in Received(s) :
                        \/ e \in Received(t) \cup abandoned
                        \/ s <= next /\ next < t /\ e = current

LevelInv == OrderInv /\ Level

LEMMA ReceivedAppend ==
    ASSUME Types, NEW s \in Subs, NEW e \in Nat,
           log' = [log EXCEPT ![s] = Append(log[s], e)]
    PROVE  /\ Received(s)' = Received(s) \cup {e}
           /\ \A t \in Subs : t # s => Received(t)' = Received(t)
<1>1. log[s] \in Seq(Nat) /\ log'[s] = Append(log[s], e)
  BY DEF Types
<1>2. /\ Len(log[s]) \in Nat
      /\ Len(log'[s]) = Len(log[s]) + 1
      /\ \A i \in 1..Len(log[s]) : log'[s][i] = log[s][i]
      /\ log'[s][Len(log[s]) + 1] = e
  BY <1>1
<1>3. \A i \in 1..Len(log'[s]) : i \in 1..Len(log[s]) \/ i = Len(log[s]) + 1
  BY <1>2
<1>4. /\ \A i \in 1..Len(log[s]) : i \in 1..Len(log'[s])
      /\ Len(log[s]) + 1 \in 1..Len(log'[s])
  BY <1>2
<1>5. Received(s)' = Received(s) \cup {e}
  BY ONLY <1>2, <1>3, <1>4 DEF Received
<1>6. \A t \in Subs : t # s => log'[t] = log[t]
  BY DEF Types
<1>7. QED
  BY ONLY <1>5, <1>6 DEF Received

LEMMA LevelTake ==
    ASSUME LevelInv, TakeOldest, current = 0 \/ next = Subscribers
    PROVE  Level'
<1> DEFINE e == Head(queue)
<1>1. /\ Types
      /\ 1 \in Subs
      /\ e \in Nat
      /\ log' = [log EXCEPT ![1] = Append(log[1], e)]
      /\ current' = e /\ next' = 1 /\ abandoned' = abandoned
  BY ChannelAssumption DEF LevelInv, OrderInv, Types, TakeOldest, Call, Subs
<1> HIDE DEF e
<1>2. /\ Received(1)' = Received(1) \cup {e}
      /\ \A t \in Subs : t # 1 => Received(t)' = Received(t)
  BY <1>1, ReceivedAppend
<1>3. \A s, t \in Subs :
          s < t => /\ Received(t) \subseteq Received(s)
                   /\ Received(s) \subseteq Received(t) \cup abandoned
  BY <1>1, ChannelAssumption DEF LevelInv, Level, Types, Subs
<1>4. \A s \in Subs : s <= 1 <=> s = 1
  BY DEF Subs
<1>5. \A s, t \in Subs : s < t => t # 1
  BY DEF Subs
<1>6. QED
  BY ONLY <1>1, <1>2, <1>3, <1>4, <1>5 DEF Level, Subs

LEMMA LevelAdvance ==
    ASSUME LevelInv, Advance
    PROVE  Level'
<1>1. PICK n \in Subs : n = next + 1
  BY ChannelAssumption DEF LevelInv, OrderInv, Types, Advance, Subs
<1>2. /\ Types
      /\ next \in Nat
      /\ n = next + 1
      /\ current \in Nat
      /\ log' = [log EXCEPT ![n] = Append(log[n], current)]
      /\ current' = current /\ next' = n /\ abandoned' = abandoned
  BY <1>1, ChannelAssumption DEF LevelInv, OrderInv, Types, Advance, Call, Subs
<1>3. /\ Received(n)' = Received(n) \cup {current}
      /\ \A t \in Subs : t # n => Received(t)' = Received(t)
  BY ONLY <1>2, n \in Subs, ReceivedAppend
<1>4. \A s \in Subs : s <= n => current \in Received(s)'
  BY <1>2, <1>3 DEF LevelInv, Level, Subs
<1>5. \A s, t \in Subs : s < t => Received(t)' \subseteq Received(s)'
  <2> SUFFICES ASSUME NEW s \in Subs, NEW t \in Subs, s < t
               PROVE  Received(t)' \subseteq Received(s)'
    OBVIOUS
  <2>1. Received(t) \subseteq Received(s)
    BY DEF LevelInv, Level
  <2>2. CASE t = n
    <3>1. s <= n /\ s # n
      BY <2>2, <1>2 DEF Subs
    <3>2. QED
      BY <1>3, <1>4, <2>1, <2>2, <3>1
  <2>3. CASE t # n
    BY <1>3, <2>1, <2>3
  <2>4. QED
    BY <2>2, <2>3
<1>6. ASSUME NEW s \in Subs, NEW t \in Subs, s < t, NEW e \in Received(s)'
      PROVE  \/ e \in Received(t)' \cup abandoned
             \/ s <= n /\ n < t /\ e = current
  <2>1. CASE e \in Received(s)
    <3>1. \/ e \in Received(t) \cup abandoned
          \/ s <= next /\ next < t /\ e = current
      BY <1>6, <2>1 DEF LevelInv, Level
    <3>2. Received(t) \subseteq Received(t)'
      BY <1>3
    <3>3. s <= next /\ next < t => t = n \/ (s <= n /\ n < t)
      BY <1>2 DEF Subs
    <3>4. QED
      BY <1>3, <3>1, <3>2, <3>3
  <2>2. CASE e \notin Received(s)
    <3>1. s = n /\ e = current
      BY <1>3, <1>6, <2>2
    <3>2. s <= n /\ n < t
      BY <1>2, <1>6, <3>1 DEF Subs
    <3>3. QED
      BY <3>1, <3>2
  <2>3. QED
    BY <2>1, <2>2
<1>7. QED
  BY ONLY <1>2, <1>4, <1>5, <1>6 DEF Level

LEMMA LevelIdle ==
    ASSUME LevelInv, GoIdle,
           \/ next = Subscribers /\ abandoned' = abandoned
           \/ abandoned' = abandoned \cup {current}
    PROVE  Level'
<1>1. /\ log' = log /\ next' = 0
      /\ \A s \in Subs : Received(s)' = Received(s)
  BY DEF GoIdle, Received
<1>2. \A s \in Subs : ~(s <= next')
  BY <1>1 DEF Subs
<1>3. ASSUME NEW s \in Subs, NEW t \in Subs, s < t
      PROVE  /\ Received(t) \subseteq Received(s)
             /\ Received(s) \subseteq Received(t) \cup abandoned'
  <2>1. next = Subscribers => ~(next < t)
    BY ChannelAssumption DEF Subs
  <2>2. QED
    BY <1>3, <2>1 DEF LevelInv, Level
<1>4. QED
  BY ONLY <1>1, <1>2, <1>3 DEF Level

LEMMA LevelStep == LevelInv /\ [ChannelNext]_channel => LevelInv'
<1> SUFFICES ASSUME LevelInv, [ChannelNext]_channel
             PROVE  Level'
  BY OrderStep DEF LevelInv
<1>1. CASE Accept
  <2>1. /\ log' = log /\ current' = current /\ next' = next
        /\ abandoned' = abandoned
    BY <1>1 DEF Accept
  <2>2. \A s \in Subs : Received(s)' = Received(s)
    BY <2>1 DEF Received
  <2>3. QED
    BY ONLY LevelInv, <2>1, <2>2 DEF LevelInv, Level
<1>2. CASE Take
  BY <1>2, LevelTake DEF Take
<1>3. CASE Advance
  BY <1>3, LevelAdvance
<1>4. CASE Complete
  BY <1>4, LevelTake, LevelIdle DEF Complete
<1>5. CASE Abandon
  BY <1>5, LevelIdle DEF Abandon
<1>6. CASE UNCHANGED channel
  <2>1. /\ log' = log /\ current' = current /\ next' = next
        /\ abandoned' = abandoned
    BY <1>6 DEF channel
  <2>2. \A s \in Subs : Received(s)' = Received(s)
    BY <2>1 DEF Received
  <2>3. QED
    BY ONLY LevelInv, <2>1, <2>2 DEF LevelInv, Level
<1>7. QED
  BY <1>1, <1>2, <1>3, <1>4, <1>5, <1>6 DEF ChannelNext

\* Whatever subscribers raise, all of them receive the same events, except the
\* one being handed over and those a shutdown has broken off.
THEOREM ChannelIsolated == ChannelSpec => []Isolated
<1>1. ChannelInit => LevelInv
  BY OrderInit DEF ChannelInit, LevelInv, Level, Received, Subs
<1>2. LevelInv => Isolated
  BY DEF LevelInv, Level, Isolated
<1>3. QED
  BY <1>1, <1>2, LevelStep, PTL DEF ChannelSpec

=============================================================================
