---------------------------------- MODULE Lemmas ----------------------------------
(***************************************************************************)
(* Facts about numbers, finite sets and sequences that the proofs share.   *)
(***************************************************************************)
EXTENDS Integers, Sequences, FiniteSets, FiniteSetTheorems, SequenceTheorems,
        WellFoundedInduction, TLAPS

-----------------------------------------------------------------------------
(* Division *)

\* The quotient of natural numbers and what is left.
LEMMA Division ==
    ASSUME NEW n \in Nat, NEW d \in Nat \ {0}
    PROVE  /\ n \div d \in Nat
           /\ d * (n \div d) <= n
           /\ n < d * (n \div d) + d
           /\ d * (n \div d) \in Nat
OBVIOUS

\* A larger number has no smaller quotient.
LEMMA DivisionMonotone ==
    ASSUME NEW n \in Nat, NEW m \in Nat, NEW d \in Nat \ {0}, n <= m
    PROVE  n \div d <= m \div d
OBVIOUS

\* A number no smaller than its divisor is divided to at least one.
LEMMA DivisionPositive ==
    ASSUME NEW n \in Nat, NEW d \in Nat \ {0}, d <= n
    PROVE  n \div d >= 1
OBVIOUS

\* The quotient of an integer is rounded down.
LEMMA IntegerDivision ==
    ASSUME NEW a \in Int, NEW p \in Nat \ {0}
    PROVE  a \div p \in Int /\ (a \div p) * p <= a /\ a < (a \div p) * p + p
OBVIOUS

\* Multiples are ordered like their factors.
LEMMA Multiples ==
    ASSUME NEW a \in Int, NEW b \in Int, NEW p \in Nat \ {0}, a * p < b * p + p
    PROVE  a <= b
<1> SUFFICES ASSUME b + 1 <= a PROVE FALSE
  OBVIOUS
<1>1. PICK k \in Nat : a = b + 1 + k
  <2>1. a - b - 1 \in Nat /\ a = b + 1 + (a - b - 1)
    OBVIOUS
  <2>2. QED
    BY <2>1
<1>2. a * p = b * p + p + k * p /\ k * p >= 0 /\ b * p \in Int
  BY <1>1
<1>3. QED
  BY <1>2

-----------------------------------------------------------------------------
(* Least numbers and cardinalities *)

\* Every set of natural numbers has a least one: the segments 1..n are ordered
\* like their ends, and strict inclusion of finite sets is well-founded.
LEMMA LeastNumber ==
    ASSUME NEW S \in SUBSET Nat, S # {}
    PROVE  \E least \in S : \A n \in S : least <= n
<1> DEFINE Segments == {1..n : n \in S}
<1>1. Segments \subseteq FiniteSubsetsOf(Nat) /\ Segments # {}
  <2>1. ASSUME NEW n \in S PROVE 1..n \in FiniteSubsetsOf(Nat)
    <3>1. 1..n \in SUBSET Nat /\ IsFiniteSet(1..n)
      BY FS_Interval
    <3>2. QED
      BY <3>1 DEF FiniteSubsetsOf
  <2>2. QED
    BY <2>1
<1>2. PICK X \in Segments : \A Y \in Segments :
               <<Y, X>> \notin StrictSubsetOrdering(Nat)
  BY <1>1, FS_StrictSubsetOrderingWellFounded, WFMin
<1>3. PICK least \in S : X = 1..least
  OBVIOUS
<1>4. ASSUME NEW n \in S PROVE least <= n
  <2> SUFFICES ASSUME n < least PROVE FALSE
    OBVIOUS
  <2>1. /\ 1..n \in Segments /\ 1..n \in SUBSET Nat /\ 1..least \in SUBSET Nat
        /\ 1..n \subseteq 1..least /\ 1..n # 1..least
    OBVIOUS
  <2>2. <<1..n, X>> \in StrictSubsetOrdering(Nat)
    BY <1>3, <2>1 DEF StrictSubsetOrdering
  <2>3. QED
    BY <1>2, <2>1, <2>2
<1>5. QED
  BY <1>4

\* A set that changes in one element changes its cardinality by at most one.
LEMMA OneElement ==
    ASSUME NEW S, NEW T, NEW r, IsFiniteSet(S), S \ {r} = T \ {r}
    PROVE  /\ IsFiniteSet(T)
           /\ Cardinality(S) \in Nat /\ Cardinality(T) \in Nat
           /\ Cardinality(T) = Cardinality(S) + (IF r \in T THEN 1 ELSE 0)
                                              - (IF r \in S THEN 1 ELSE 0)
<1>1. /\ IsFiniteSet(S \ {r}) /\ Cardinality(S) \in Nat
      /\ Cardinality(S \ {r}) = Cardinality(S) - (IF r \in S THEN 1 ELSE 0)
  BY FS_RemoveElement, FS_CardinalityType
<1>2. Cardinality(S \ {r}) \in Nat
  BY <1>1, FS_CardinalityType
<1>3. /\ IsFiniteSet(T)
      /\ Cardinality(T) = Cardinality(S \ {r}) + (IF r \in T THEN 1 ELSE 0)
  <2>1. CASE r \in T
    <3>1. /\ IsFiniteSet((S \ {r}) \cup {r})
          /\ Cardinality((S \ {r}) \cup {r}) = Cardinality(S \ {r}) + 1
          /\ T = (S \ {r}) \cup {r}
      BY <1>1, <2>1, FS_AddElement
    <3>2. QED
      BY <2>1, <3>1
  <2>2. CASE r \notin T
    <3>1. T = S \ {r}
      BY <2>2
    <3>2. QED
      BY <1>1, <1>2, <2>2, <3>1
  <2>3. QED
    BY <2>1, <2>2
<1>4. QED
  BY <1>1, <1>2, <1>3

-----------------------------------------------------------------------------
(* Sequences *)

\* RemoveAt of the community modules, under a name of its own: SequencesExt
\* also defines names that the models use.
WithoutAt(s, i) == SubSeq(s, 1, i - 1) \o SubSeq(s, i + 1, Len(s))

\* A sequence without its i-th element.
LEMMA RemovedOne ==
    ASSUME NEW S, NEW s \in Seq(S), NEW i \in 1..Len(s)
    PROVE  /\ WithoutAt(s, i) \in Seq(S) /\ Len(WithoutAt(s, i)) = Len(s) - 1
           /\ DOMAIN WithoutAt(s, i) = 1..Len(s) - 1
           /\ \A j \in 1..Len(s) - 1 :
                  WithoutAt(s, i)[j] = IF j < i THEN s[j] ELSE s[j + 1]
<1> DEFINE a == SubSeq(s, 1, i - 1)
           b == SubSeq(s, i + 1, Len(s))
           t == WithoutAt(s, i)
<1>1. DOMAIN s = 1..Len(s) /\ Len(s) \in Nat /\ i \in 1..Len(s)
  OBVIOUS
<1>2. /\ a \in Seq(S) /\ Len(a) = i - 1
      /\ \A j \in 1..i - 1 : a[j] = s[j]
  <2>1. \A j \in 1..i - 1 : s[j] \in S
    BY <1>1
  <2>2. /\ a \in Seq(S)
        /\ Len(a) = IF 1 <= i - 1 THEN i - 1 - 1 + 1 ELSE 0
        /\ \A j \in 1..i - 1 - 1 + 1 : a[j] = s[1 + j - 1]
    BY SMTT(20), <1>1, <2>1, SubSeqProperties
  <2> HIDE DEF a
  <2>3. i - 1 \in Nat /\ i - 1 - 1 + 1 = i - 1
    BY <1>1
  <2>4. \A j \in 1..i - 1 : 1 + j - 1 = j
    OBVIOUS
  <2>5. QED
    BY <2>2, <2>3, <2>4
<1>3. /\ b \in Seq(S) /\ Len(b) = Len(s) - i
      /\ \A j \in 1..Len(s) - i : b[j] = s[i + j]
  <2>1. \A j \in i + 1..Len(s) : s[j] \in S
    BY <1>1
  <2>2. /\ b \in Seq(S)
        /\ Len(b) = IF i + 1 <= Len(s) THEN Len(s) - (i + 1) + 1 ELSE 0
        /\ \A j \in 1..Len(s) - (i + 1) + 1 : b[j] = s[i + 1 + j - 1]
    BY SMTT(20), <1>1, <2>1, SubSeqProperties
  <2> HIDE DEF b
  <2>3. Len(s) - i \in Nat /\ Len(s) - (i + 1) + 1 = Len(s) - i
    BY <1>1
  <2>4. \A j \in 1..Len(s) - i : i + 1 + j - 1 = i + j
    BY <1>1
  <2>5. Len(b) = Len(s) - i
    <3>1. Len(b) = IF i + 1 <= Len(s) THEN Len(s) - (i + 1) + 1 ELSE 0
      BY <2>2
    <3>2. CASE i + 1 <= Len(s)
      BY <1>1, <3>1, <3>2
    <3>3. CASE ~(i + 1 <= Len(s))
      <4>1. i = Len(s)
        <5>1. i \in Nat /\ Len(s) \in Nat /\ i <= Len(s)
          BY <1>1
        <5>2. Len(s) < i + 1
          BY <3>3, <5>1
        <5>3. QED
          BY ONLY <5>1, <5>2
      <4>2. QED
        BY <1>1, <3>1, <3>3, <4>1
    <3>4. QED
      BY <3>2, <3>3
  <2>6. QED
    BY ONLY <2>2, <2>3, <2>4, <2>5
<1>4. t = a \o b
  BY DEF WithoutAt
<1> HIDE DEF a, b, t
<1>5. t \in Seq(S) /\ Len(t) = Len(s) - 1 /\ DOMAIN t = 1..Len(s) - 1
  <2>1. /\ a \o b \in Seq(S) /\ Len(a \o b) = Len(a) + Len(b)
    BY <1>2, <1>3, ConcatProperties
  <2>2. Len(a) + Len(b) = Len(s) - 1
    BY <1>1, <1>2, <1>3
  <2>3. t \in Seq(S) /\ Len(t) = Len(s) - 1
    BY <1>4, <2>1, <2>2
  <2>4. QED
    BY <2>3, LenProperties
<1>6. \A j \in 1..Len(s) - 1 : t[j] = IF j <= i - 1 THEN a[j] ELSE b[j - (i - 1)]
  <2>1. \A j \in 1..Len(a) + Len(b) :
            (a \o b)[j] = IF j <= Len(a) THEN a[j] ELSE b[j - Len(a)]
    BY <1>2, <1>3, ConcatProperties
  <2>2. Len(a) + Len(b) = Len(s) - 1 /\ Len(a) = i - 1
    BY <1>1, <1>2, <1>3
  <2>3. QED
    BY ONLY <1>4, <2>1, <2>2
<1>7. \A j \in 1..Len(s) - 1 : t[j] = IF j < i THEN s[j] ELSE s[j + 1]
  <2> SUFFICES ASSUME NEW j \in 1..Len(s) - 1
               PROVE  t[j] = IF j < i THEN s[j] ELSE s[j + 1]
    OBVIOUS
  <2>1. CASE j < i
    <3>1. t[j] = a[j]
      <4>1. j <= i - 1
        BY <1>1, <2>1
      <4>2. QED
        BY ONLY <1>6, <4>1, j \in 1..Len(s) - 1
    <3>2. j \in 1..i - 1
      BY <1>1, <2>1
    <3>3. QED
      BY <1>2, <2>1, <3>1, <3>2
  <2>2. CASE ~(j < i)
    <3>1. t[j] = b[j - (i - 1)]
      <4>1. ~(j <= i - 1)
        BY <1>1, <2>2
      <4>2. QED
        BY ONLY <1>6, <4>1, j \in 1..Len(s) - 1
    <3>2. j - (i - 1) \in 1..Len(s) - i /\ i + (j - (i - 1)) = j + 1
      BY <1>1, <2>2
    <3>3. b[j - (i - 1)] = s[j + 1]
      BY <1>3, <3>2
    <3>4. QED
      BY <2>2, <3>1, <3>3
  <2>3. QED
    BY <2>1, <2>2
<1>8. QED
  BY <1>5, <1>7 DEF t

=============================================================================
