-------------------------- MODULE SubscriberProofs ---------------------------
(***************************************************************************)
(* Proofs about Subscriber, for every list, every number of threads and    *)
(* every size of the PVs such that the ranges of the threads do not        *)
(* overlap, which the code leaves to its configuration: then the ranges    *)
(* share out the PVs, the places of a range follow each other in the       *)
(* buffer of its thread, and the offsets after the remap are those of the  *)
(* concatenated buffers.  With overlapping ranges the threads lay out the  *)
(* same PVs twice and none of this is so.                                  *)
(***************************************************************************)
EXTENDS Subscriber, FiniteSetTheorems, WellFoundedInduction, TLAPS

USE SubscriberAssumption

-----------------------------------------------------------------------------
(* Numbers.                                                                *)

LEMMA DivMod ==
    ASSUME NEW a \in Nat, NEW b \in Nat \ {0}
    PROVE  /\ a \div b \in Nat /\ a % b \in 0 .. b - 1
           /\ a = b * (a \div b) + (a % b)
  OBVIOUS

\* Where the ranges are apart, the last one has at least as many PVs as there
\* are threads: that of the thread before would reach the end as well.
LEMMA Chunks ==
    ASSUME RangesAreApart
    PROVE  /\ numberOfPoolThreads \in Nat \ {0} /\ numberOfPvs \in Nat
           /\ nVarsPerChunk \in Nat \ {0}
           /\ (numberOfPoolThreads - 1) * nVarsPerChunk \in Nat
           /\ numberOfPvs - (numberOfPoolThreads - 1) * nVarsPerChunk
                  >= numberOfPoolThreads
           /\ numberOfPvs - numberOfPoolThreads * nVarsPerChunk < numberOfPoolThreads
<1> DEFINE n == numberOfPoolThreads
           c == nVarsPerChunk
<1>1. c \in Nat \ {0}
  BY DivMod DEF nVarsPerChunk
<1>2. numberOfPvs - n * c < n /\ numberOfPvs >= n * c
  BY DivMod DEF nVarsPerChunk
<1> HIDE DEF c
<1>3. (n - 1) * c \in Nat /\ n * c = (n - 1) * c + c /\ n * c \in Nat
  BY <1>1
<1>4. numberOfPvs - (n - 1) * c >= n
  <2>1. CASE n = 1
    BY <2>1, <1>1, <1>2, <1>3
  <2>2. CASE n # 1
    <3>1. n - 2 \in Ids /\ n - 1 \in Ids /\ n - 2 < n - 1 /\ (n - 2) + 1 = n - 1
      BY <2>2 DEF Ids
    <3>2. RangeEnd(n - 2) <= RangeBegin(n - 1)
      BY <3>1 DEF RangesAreApart
    <3>3. RangeBegin(n - 1) = (n - 1) * c
      BY DEF RangeBegin, c
    <3>4. RangeEnd(n - 2) = IF numberOfPvs - (n - 1) * c < n THEN numberOfPvs ELSE (n - 1) * c
      BY <3>1 DEF RangeEnd, c
    <3> HIDE DEF n
    <3>5. n \in Nat
      BY DEF n
    <3> QED
      BY <3>2, <3>3, <3>4, <3>5, <1>1, <1>2, <1>3
  <2> QED
    BY <2>1, <2>2
<1> QED
  BY <1>1, <1>2, <1>3, <1>4 DEF c

\* Products compare as their factors do.
LEMMA Multiples ==
    ASSUME NEW c \in Nat, NEW a \in Nat, NEW b \in Nat, a <= b
    PROVE  /\ a * c \in Nat /\ b * c \in Nat /\ a * c <= b * c
           /\ (a + 1) * c = a * c + c
  OBVIOUS

\* Which configurations keep the ranges apart: exactly those in which the chunks
\* of the other threads leave the last one as many PVs as there are threads, and
\* in particular those with as many PVs in a chunk as threads (the ranges of
\* FillMemorySizes and CreateSubscriptions).
THEOREM WhenRangesAreApart ==
    /\ RangesAreApart <=> numberOfPvs - (numberOfPoolThreads - 1) * nVarsPerChunk
                              >= numberOfPoolThreads
    /\ nVarsPerChunk >= numberOfPoolThreads => RangesAreApart
<1> DEFINE n == numberOfPoolThreads
           c == nVarsPerChunk
<1>0. n \in Nat \ {0} /\ n - 1 \in Nat
  OBVIOUS
<1>1. c \in Nat \ {0} /\ numberOfPvs >= n * c
  BY DivMod DEF nVarsPerChunk
<1> HIDE DEF c, n
<1>2. (n - 1) * c \in Nat /\ n * c = (n - 1) * c + c
  BY <1>0, <1>1
<1>3. ASSUME numberOfPvs - (n - 1) * c >= n, NEW t \in Ids, NEW u \in Ids, t < u
      PROVE  RangeEnd(t) <= RangeBegin(u)
  <2>1. t \in Nat /\ u \in Nat /\ t + 1 \in Nat /\ t + 1 <= u /\ u <= n - 1
    BY <1>0, <1>3 DEF Ids, n
  <2>2. (t + 1) * c <= u * c /\ u * c <= (n - 1) * c
        /\ (t + 1) * c \in Nat /\ u * c \in Nat
    BY <2>1, <1>0, <1>1, Multiples
  <2>3. ~(numberOfPvs - (t + 1) * c < n)
    BY <2>2, <1>0, <1>2, <1>3
  <2> QED
    BY <2>2, <2>3 DEF RangeEnd, RangeBegin, c, n
<1>4. numberOfPvs - (n - 1) * c >= n => RangesAreApart
  BY <1>3 DEF RangesAreApart
<1>5. RangesAreApart => numberOfPvs - (n - 1) * c >= n
  BY Chunks DEF c, n
<1>6. c >= n => numberOfPvs - (n - 1) * c >= n
  BY <1>0, <1>1, <1>2
<1> QED
  BY <1>4, <1>5, <1>6 DEF c, n

\* The PVs of each thread.
RangeOf(t) == RangeBegin(t) .. RangeEnd(t) - 1

LEMMA RangeBounds ==
    ASSUME RangesAreApart, NEW t \in Ids
    PROVE  /\ RangeBegin(t) \in Nat /\ RangeEnd(t) \in Nat
           /\ RangeBegin(t) < RangeEnd(t) /\ RangeEnd(t) <= numberOfPvs
           /\ RangeEnd(t) = IF t = numberOfPoolThreads - 1 THEN numberOfPvs
                         ELSE RangeBegin(t) + nVarsPerChunk
           /\ RangeOf(t) \subseteq PVs
<1> DEFINE n == numberOfPoolThreads
           c == nVarsPerChunk
<1>0. t \in Nat /\ t <= n - 1 /\ n \in Nat \ {0} /\ n - 1 \in Nat
  BY DEF Ids
<1>1. c \in Nat \ {0}
  BY Chunks
<1>2. /\ t * c \in Nat /\ (n - 1) * c \in Nat /\ t * c <= (n - 1) * c
      /\ (t + 1) * c = t * c + c
  BY <1>0, <1>1, Multiples
<1>3. n * c = (n - 1) * c + c
  BY <1>0, <1>1
<1>4. RangeEnd(t) = IF t = n - 1 THEN numberOfPvs ELSE t * c + c
  <2>1. CASE t = n - 1
    <3>1. numberOfPvs - (t + 1) * c < n
      BY <2>1, <1>0, Chunks
    <3> QED
      BY <2>1, <3>1 DEF RangeEnd
  <2>2. CASE t # n - 1
    <3>1. t + 1 \in Nat /\ t + 1 <= n - 1
      BY <2>2, <1>0
    <3>2. (t + 1) * c <= (n - 1) * c /\ (t + 1) * c \in Nat
      BY <3>1, <1>0, <1>1, Multiples
    <3>3. ~(numberOfPvs - (t + 1) * c < n)
      BY <3>2, <1>0, <1>2, Chunks
    <3> QED
      BY <2>2, <3>3, <1>2 DEF RangeEnd
  <2> QED
    BY <2>1, <2>2
<1>5. t * c < RangeEnd(t) /\ RangeEnd(t) <= numberOfPvs
  <2>1. CASE t = n - 1
    BY <2>1, <1>0, <1>2, <1>4, Chunks
  <2>2. CASE t # n - 1
    <3>1. t + 1 \in Nat /\ t + 1 <= n - 1
      BY <2>2, <1>0
    <3>2. (t + 1) * c <= (n - 1) * c
      BY <3>1, <1>0, <1>1, Multiples
    <3> QED
      BY <2>2, <3>2, <1>0, <1>1, <1>2, <1>4, Chunks
  <2> QED
    BY <2>1, <2>2
<1>6. RangeEnd(t) \in Nat
  BY <1>0, <1>1, <1>2, <1>4
<1>7. RangeOf(t) \subseteq PVs
  BY <1>2, <1>5, <1>6 DEF RangeOf, RangeBegin, PVs
<1> QED
  BY <1>2, <1>4, <1>5, <1>6, <1>7 DEF RangeBegin

\* A PV lies in the range of exactly one thread, which BufferOf finds.
LEMMA RangeOfBuffer ==
    ASSUME RangesAreApart, NEW p \in PVs
    PROVE  /\ BufferOf(p) \in Ids
           /\ \A t \in Ids : p \in RangeOf(t) <=> BufferOf(p) = t
<1> DEFINE n == numberOfPoolThreads
           c == nVarsPerChunk
           d == p \div nVarsPerChunk
<1>0. p \in Nat /\ p < numberOfPvs /\ n \in Nat \ {0} /\ c \in Nat \ {0}
  BY Chunks DEF PVs
<1>1. d \in Nat /\ c * d <= p /\ p < c * d + c
  <2>1. d \in Nat /\ p % c \in 0 .. c - 1 /\ p = c * d + (p % c)
    BY <1>0, DivMod
  <2>2. c * d \in Nat
    BY <1>0, <2>1
  <2> HIDE DEF c, d
  <2>3. p % c >= 0 /\ p % c <= c - 1 /\ p % c \in Int
    BY <1>0, <2>1
  <2> QED
    BY <1>0, <2>1, <2>2, <2>3
<1>2. BufferOf(p) = IF d < n THEN d ELSE n - 1
  BY DEF BufferOf
<1> HIDE DEF d
<1>3. BufferOf(p) \in Ids
  BY <1>0, <1>1, <1>2 DEF Ids
<1>4. ASSUME NEW t \in Ids
      PROVE  p \in RangeOf(t) <=> BufferOf(p) = t
  <2>0. t \in Nat /\ t <= n - 1
    BY <1>0 DEF Ids
  <2>1. /\ RangeBegin(t) = t * c /\ t * c \in Nat
        /\ RangeEnd(t) = IF t = n - 1 THEN numberOfPvs ELSE t * c + c
    BY RangeBounds DEF RangeBegin
  <2>2. p \in RangeOf(t) <=> t * c <= p /\ (t = n - 1 \/ p < t * c + c)
    BY <1>0, <2>0, <2>1 DEF RangeOf
  <2>3. CASE d < t
    <3>1. d + 1 \in Nat /\ d + 1 <= t
      BY <1>1, <2>0, <2>3
    <3>2. (d + 1) * c <= t * c /\ (d + 1) * c = d * c + c
      BY <3>1, <1>0, <1>1, <2>0, Multiples
    <3>3. ~(t * c <= p)
      BY <3>2, <1>0, <1>1, <2>1
    <3> QED
      BY <3>3, <2>2, <2>3, <1>0, <1>1, <1>2, <2>0
  <2>4. CASE d = t
    BY <2>4, <2>2, <2>0, <1>0, <1>1, <1>2
  <2>5. CASE d > t
    <3>1. t + 1 \in Nat /\ t + 1 <= d
      BY <1>1, <2>0, <2>5
    <3>2. (t + 1) * c <= d * c /\ (t + 1) * c = t * c + c
      BY <3>1, <1>0, <1>1, <2>0, Multiples
    <3>3. t * c <= p /\ ~(p < t * c + c)
      BY <3>2, <1>0, <1>1, <2>1
    <3>4. BufferOf(p) = t <=> t = n - 1
      BY <1>0, <1>1, <1>2, <2>0, <2>5
    <3> QED
      BY <3>3, <3>4, <2>2
  <2> QED
    BY <2>3, <2>4, <2>5, <2>0, <1>1
<1> QED
  BY <1>3, <1>4

-----------------------------------------------------------------------------
(* The bases of the buffers: a sum exists, therefore the recursion finds it. *)

LEMMA Minimum ==
    ASSUME NEW S \in SUBSET Nat, S # {}
    PROVE  \E i \in S : \A j \in S : i <= j
<1> DEFINE R == OpToRel(<, Nat)
<1>1. IsWellFoundedOn(R, Nat)
  BY NatLessThanWellFounded
<1>2. \A i, j \in Nat : <<j, i>> \in R <=> j < i
  BY DEF OpToRel
<1> HIDE DEF R
<1>3. PICK i \in S : \A j \in S : ~(<<j, i>> \in R)
  BY <1>1, WFMin
<1>4. ASSUME NEW j \in S PROVE i <= j
  <2>1. i \in Nat /\ j \in Nat /\ ~(j < i)
    BY <1>2, <1>3
  <2> QED
    BY <2>1
<1> QED
  BY <1>4

\* s adds up f, from 0 to m.
SumsUpTo(s, f, m) == s[0] = 0 /\ \A k \in 1 .. m : s[k] = s[k - 1] + f[k - 1]

LEMMA SumExists ==
    ASSUME NEW n \in Nat, NEW f \in [0 .. n - 1 -> Nat]
    PROVE  \E s \in [0 .. n -> Nat] : SumsUpTo(s, f, n)
<1> DEFINE Summed(m) == \E s \in [0 .. n -> Nat] : SumsUpTo(s, f, m)
           Short == {m \in 0 .. n : ~Summed(m)}
<1>1. Summed(0)
  <2> DEFINE zero == [k \in 0 .. n |-> 0]
  <2>1. zero \in [0 .. n -> Nat] /\ SumsUpTo(zero, f, 0)
    BY DEF SumsUpTo
  <2> QED
    BY <2>1
<1>2. ASSUME NEW m \in 1 .. n, Summed(m - 1)
      PROVE  Summed(m)
  <2>1. PICK s \in [0 .. n -> Nat] : SumsUpTo(s, f, m - 1)
    BY <1>2
  <2> DEFINE e == [s EXCEPT ![m] = s[m - 1] + f[m - 1]]
  <2>2. m - 1 \in 0 .. n /\ m - 1 \in 0 .. n - 1 /\ m \in 0 .. n /\ m # 0
    OBVIOUS
  <2>3. s[m - 1] + f[m - 1] \in Nat
    BY <2>2
  <2>4. e \in [0 .. n -> Nat] /\ e[m] = s[m - 1] + f[m - 1]
        /\ \A k \in 0 .. n : k # m => e[k] = s[k]
    BY <2>2, <2>3
  <2> HIDE DEF e
  <2>5. e[0] = 0
    BY <2>1, <2>2, <2>4 DEF SumsUpTo
  <2>6. ASSUME NEW k \in 1 .. m PROVE e[k] = e[k - 1] + f[k - 1]
    <3>1. CASE k = m
      BY <3>1, <2>2, <2>4
    <3>2. CASE k # m
      <4>1. k \in 1 .. m - 1 /\ k \in 0 .. n /\ k - 1 \in 0 .. n /\ k - 1 # m
        BY <3>2
      <4> QED
        BY <4>1, <3>2, <2>1, <2>4 DEF SumsUpTo
    <3> QED
      BY <3>1, <3>2
  <2>7. SumsUpTo(e, f, m)
    BY <2>5, <2>6 DEF SumsUpTo
  <2> QED
    BY <2>4, <2>7
<1> HIDE DEF Summed
<1>3. Short = {}
  <2> SUFFICES ASSUME Short # {} PROVE FALSE
    OBVIOUS
  <2>1. PICK m \in Short : \A j \in Short : m <= j
    <3>1. Short \in SUBSET Nat
      OBVIOUS
    <3> QED
      BY <3>1, Minimum
  <2>2. m \in 1 .. n /\ ~Summed(m)
    BY <1>1
  <2>3. m - 1 \in 0 .. n /\ m - 1 \notin Short
    BY <2>1, <2>2
  <2> QED
    BY <1>2, <2>2, <2>3
<1>4. Summed(n)
  BY <1>3
<1> QED
  BY <1>4 DEF Summed

\* Each buffer begins where the one before it ends.
LEMMA BaseSums ==
    ASSUME memorySize \in [Ids -> Nat]
    PROVE  /\ Base \in [0 .. numberOfPoolThreads -> Nat]
           /\ Base[0] = 0
           /\ \A k \in Ids : Base[k + 1] = Base[k] + memorySize[k]
<1> DEFINE n == numberOfPoolThreads
           Sum(s) == [k \in 0 .. n |-> IF k = 0 THEN 0 ELSE s[k - 1] + memorySize[k - 1]]
<1>1. n \in Nat /\ Ids = 0 .. n - 1
  BY DEF Ids
<1>2. PICK s \in [0 .. n -> Nat] : SumsUpTo(s, memorySize, n)
  BY <1>1, SumExists
<1>3. s = Sum(s)
  <2>1. ASSUME NEW k \in 0 .. n
        PROVE  s[k] = IF k = 0 THEN 0 ELSE s[k - 1] + memorySize[k - 1]
    <3>1. k # 0 => k \in 1 .. n
      OBVIOUS
    <3> QED
      BY <3>1, <1>2 DEF SumsUpTo
  <2> QED
    BY <2>1, <1>2
<1>4. Base = Sum(Base)
  <2>1. Base = CHOOSE b : b = Sum(b)
    BY DEF Base
  <2> HIDE DEF Sum
  <2>2. \E b : b = Sum(b)
    BY <1>3
  <2> QED
    BY <2>1, <2>2
<1>5. Base[0] = 0 /\ \A k \in 1 .. n : Base[k] = Base[k - 1] + memorySize[k - 1]
  <2> HIDE DEF n
  <2>1. 0 \in 0 .. n /\ \A k \in 1 .. n : k \in 0 .. n /\ k # 0
    BY <1>1
  <2> QED
    BY <1>4, <2>1
<1> DEFINE Odd == {k \in 0 .. n : Base[k] \notin Nat}
<1>6. Odd = {}
  <2> SUFFICES ASSUME Odd # {} PROVE FALSE
    OBVIOUS
  <2>1. PICK k \in Odd : \A j \in Odd : k <= j
    <3>1. Odd \in SUBSET Nat
      BY <1>1
    <3> QED
      BY <3>1, Minimum
  <2>2. k \in 1 .. n
    BY <1>1, <1>5
  <2>3. k - 1 \in 0 .. n /\ k - 1 \notin Odd /\ k - 1 \in Ids
    BY <1>1, <2>1, <2>2
  <2>4. Base[k - 1] \in Nat /\ memorySize[k - 1] \in Nat
    BY <2>3
  <2> QED
    BY <1>5, <2>2, <2>4
<1>7. Base \in [0 .. n -> Nat]
  BY <1>4, <1>6
<1>8. ASSUME NEW k \in Ids PROVE Base[k + 1] = Base[k] + memorySize[k]
  <2>1. k + 1 \in 1 .. n /\ (k + 1) - 1 = k
    BY <1>1
  <2> QED
    BY <1>5, <2>1
<1> QED
  BY <1>5, <1>7, <1>8

-----------------------------------------------------------------------------
(* The inductive invariant.  A thread touches the PVs of its range only, so *)
(* most of it speaks of one thread.                                        *)

\* The first loop has been here.
Reached(t) == IF tpc[t] = "fill" THEN pos[t] ELSE RangeEnd(t)

\* pre[p]: the room of the PVs of the range before p, as far as n.
Prefix(t, pre, n) ==
    /\ pre[RangeBegin(t)] = 0
    /\ \A p \in RangeBegin(t) .. n - 1 : pre[p + 1] = pre[p] + Room(p)
    /\ \A p, q \in RangeBegin(t) .. n : p < q => pre[p] + Room(p) <= pre[q]

\* PVs that the second loop has been at.
PlacedIn(t) ==
    {p \in RangeOf(t) : /\ tpc[t] \notin {"startup", "fill"}
                        /\ tpc[t] = "layout" => p < pos[t]}

Laid(t, pre) ==
    /\ Prefix(t, pre, Reached(t)) /\ pre[Reached(t)] <= memorySize[t]
    /\ tpc[t] = "layout" => memoryOffset[t] = pre[pos[t]]
    /\ \A p \in PlacedIn(t) : place[p] = [buffer |-> t, at |-> pre[p]]

\* PVs of the range that have their subscriptions.
SubscribedIn(t) ==
    {p \in RangeOf(t) : /\ numberOfElements[p] > 0
                        /\ tpc[t] \in {"subscribe", "main", "ended"}
                        /\ tpc[t] = "subscribe" => p < pos[t]}

Measures == [0 .. numberOfPvs -> Nat]

InRange(t) == tpc[t] # "startup" => /\ pos[t] \in RangeBegin(t) .. RangeEnd(t)
                                    /\ \E pre \in Measures : Laid(t, pre)

NotPlaced(t) == \A p \in RangeOf(t) \ PlacedIn(t) : place[p].buffer = NoThread

Subscribing(t) == \A p \in RangeOf(t) : p \in subscribed <=> p \in SubscribedIn(t)

ThreadInv(t) == InRange(t) /\ NotPlaced(t) /\ Subscribing(t)

Finished == {t \in Ids : tpc[t] \in {"main", "ended"}}

\* The offsets are those within the buffers until the last thread is there.
OffsetInv ==
    IF InitialisationDone
    THEN \A p \in PVs : offset[p] = Base[BufferOf(p)] + place[p].at
    ELSE \A p \in PVs : place[p].buffer # NoThread => offset[p] = place[p].at

\* Only a subscription brings a value.
SeenBySubscription == \A p \in PVs \ subscribed : valueSeen[p] = 0

IInv ==
    /\ SubscriberTypeOK
    /\ \A t \in Ids : ThreadInv(t)
    /\ initialisationDone = Cardinality(Finished)
    /\ OffsetInv
    /\ SeenBySubscription
    /\ ChangesAreFlagged

-----------------------------------------------------------------------------
(* What the invariant says once all threads are through, and of a placed PV. *)

LEMMA IdsFinite ==
    /\ IsFiniteSet(Ids) /\ Cardinality(Ids) = numberOfPoolThreads
    /\ numberOfPoolThreads \in Nat \ {0}
<1>1. numberOfPoolThreads \in Nat \ {0} /\ 0 \in Int /\ numberOfPoolThreads - 1 \in Int
  OBVIOUS
<1> QED
  BY <1>1, FS_Interval DEF Ids

LEMMA AllFinished ==
    ASSUME NEW F \in SUBSET Ids
    PROVE  /\ IsFiniteSet(F) /\ Cardinality(F) \in 0 .. numberOfPoolThreads
           /\ Cardinality(F) >= numberOfPoolThreads => F = Ids
<1>1. IsFiniteSet(F) /\ Cardinality(F) <= Cardinality(Ids)
      /\ (Cardinality(F) = Cardinality(Ids) => F = Ids)
  BY IdsFinite, FS_Subset
<1>2. Cardinality(F) \in Nat
  BY <1>1, FS_CardinalityType
<1> QED
  BY <1>1, <1>2, IdsFinite

LEMMA DoneMeansAll ==
    ASSUME IInv
    PROVE  InitialisationDone <=> Finished = Ids
<1>1. Finished \in SUBSET Ids /\ initialisationDone = Cardinality(Finished)
  BY DEF IInv, Finished
<1> QED
  BY <1>1, AllFinished, IdsFinite DEF InitialisationDone

\* A placed PV is in the buffer of the thread whose range it is in.
LEMMA PlacedPv ==
    ASSUME RangesAreApart, \A t \in Ids : ThreadInv(t), NEW p \in PVs
    PROVE  /\ BufferOf(p) \in Ids /\ p \in RangeOf(BufferOf(p))
           /\ place[p].buffer # NoThread <=> p \in PlacedIn(BufferOf(p))
           /\ place[p].buffer # NoThread => place[p].buffer = BufferOf(p)
<1> DEFINE t == BufferOf(p)
<1>1. t \in Ids /\ p \in RangeOf(t)
  BY RangeOfBuffer
<1> HIDE DEF t
<1>2. p \notin PlacedIn(t) => place[p].buffer = NoThread
  BY <1>1 DEF ThreadInv, NotPlaced
<1>3. ASSUME p \in PlacedIn(t) PROVE place[p].buffer = t /\ t # NoThread
  <2>1. tpc[t] # "startup"
    BY <1>3 DEF PlacedIn
  <2>2. PICK pre \in Measures : Laid(t, pre)
    BY <1>1, <2>1 DEF ThreadInv, InRange
  <2>3. place[p] = [buffer |-> t, at |-> pre[p]]
    BY <1>3, <2>2 DEF Laid
  <2> QED
    BY <1>1, <2>3
<1> QED
  BY <1>1, <1>2, <1>3 DEF t

\* The places within a buffer.
LEMMA PlacesWithin ==
    ASSUME RangesAreApart, SubscriberTypeOK, NEW t \in Ids, NEW pre \in Measures, Laid(t, pre),
           NEW p \in PlacedIn(t)
    PROVE  /\ place[p].at = pre[p] /\ place[p].buffer = t
           /\ place[p].at + Room(p) <= memorySize[t]
           /\ \A q \in PlacedIn(t) : p < q => place[p].at + Room(p) <= place[q].at
<1>1. Reached(t) = RangeEnd(t)
  BY DEF PlacedIn, Reached
<1>2. /\ RangeBegin(t) \in Nat /\ RangeEnd(t) \in Nat /\ RangeEnd(t) <= numberOfPvs
      /\ PlacedIn(t) \subseteq RangeBegin(t) .. RangeEnd(t) - 1
  BY RangeBounds DEF PlacedIn, RangeOf
<1>3. /\ \A q, r \in RangeBegin(t) .. RangeEnd(t) : q < r => pre[q] + Room(q) <= pre[r]
      /\ pre[RangeEnd(t)] <= memorySize[t]
      /\ \A q \in PlacedIn(t) : place[q] = [buffer |-> t, at |-> pre[q]]
  BY <1>1 DEF Laid, Prefix
<1>4. p \in RangeBegin(t) .. RangeEnd(t) /\ RangeEnd(t) \in RangeBegin(t) .. RangeEnd(t) /\ p < RangeEnd(t)
      /\ p \in 0 .. numberOfPvs /\ RangeEnd(t) \in 0 .. numberOfPvs
  BY <1>2
<1>5. pre[p] + Room(p) <= pre[RangeEnd(t)]
  BY <1>3, <1>4
<1>6. numberOfElements[p] \in Nat
  <2>1. p \in PVs
    BY RangeBounds DEF PlacedIn
  <2> QED
    BY <2>1 DEF SubscriberTypeOK
<1>7. Room(p) \in Nat /\ pre[p] \in Nat /\ pre[RangeEnd(t)] \in Nat /\ memorySize[t] \in Nat
  BY <1>4, <1>6 DEF Room, Size, Measures, SubscriberTypeOK
<1>8. place[p].at = pre[p] /\ place[p].buffer = t
  <2>1. place[p] = [buffer |-> t, at |-> pre[p]]
    BY <1>3
  <2> QED
    BY <2>1
<1>9. place[p].at + Room(p) <= memorySize[t]
  BY <1>3, <1>5, <1>7, <1>8
<1>10. ASSUME NEW q \in PlacedIn(t), p < q PROVE place[p].at + Room(p) <= place[q].at
  <2>0. place[q] = [buffer |-> t, at |-> pre[q]]
    BY <1>3
  <2>1. q \in RangeBegin(t) .. RangeEnd(t) /\ place[q].at = pre[q]
    BY <1>2, <2>0
  <2> QED
    BY <2>1, <1>3, <1>4, <1>8, <1>10
<1> QED
  BY <1>8, <1>9, <1>10

LEMMA InvPlaces ==
    ASSUME RangesAreApart
    PROVE  IInv => EachPvHasItsPlace
<1> SUFFICES ASSUME IInv PROVE EachPvHasItsPlace
  OBVIOUS
<1>0. SubscriberTypeOK /\ \A t \in Ids : ThreadInv(t)
  BY DEF IInv
<1>1. ASSUME NEW p \in LaidOut
      PROVE  /\ p \in PVs /\ BufferOf(p) \in Ids /\ place[p].buffer = BufferOf(p)
             /\ p \in PlacedIn(BufferOf(p)) /\ Room(p) = Size(p)
             /\ \E pre \in Measures : Laid(BufferOf(p), pre)
  <2>1. p \in PVs /\ place[p].buffer # NoThread /\ Room(p) = Size(p)
    BY DEF LaidOut, Room
  <2>2. /\ BufferOf(p) \in Ids /\ place[p].buffer = BufferOf(p)
        /\ p \in PlacedIn(BufferOf(p))
    BY <2>1, <1>0, PlacedPv
  <2>3. tpc[BufferOf(p)] # "startup"
    BY <2>2 DEF PlacedIn
  <2>4. \E pre \in Measures : Laid(BufferOf(p), pre)
    BY <2>2, <2>3, <1>0 DEF ThreadInv, InRange
  <2> QED
    BY <2>1, <2>2, <2>4
<1>2. PlacesAreApart
  <2>1. ASSUME NEW p \in LaidOut
        PROVE  /\ place[p].at + Size(p) <= memorySize[place[p].buffer]
               /\ \A q \in LaidOut : p < q /\ place[p].buffer = place[q].buffer
                                     => place[p].at + Size(p) <= place[q].at
    <3> DEFINE t == BufferOf(p)
    <3>1. /\ t \in Ids /\ place[p].buffer = t /\ p \in PlacedIn(t) /\ Room(p) = Size(p)
          /\ \E pre \in Measures : Laid(t, pre)
      BY <1>1
    <3> HIDE DEF t
    <3>2. PICK pre \in Measures : Laid(t, pre)
      BY <3>1
    <3>3. /\ place[p].at + Room(p) <= memorySize[t]
          /\ \A q \in PlacedIn(t) : p < q => place[p].at + Room(p) <= place[q].at
      BY <1>0, <3>1, <3>2, PlacesWithin
    <3>4. ASSUME NEW q \in LaidOut, place[p].buffer = place[q].buffer
          PROVE  q \in PlacedIn(t)
      BY <1>1, <3>1, <3>4
    <3> QED
      BY <3>1, <3>3, <3>4
  <2> QED
    BY <2>1 DEF PlacesAreApart
<1>3. ASSUME InitialisationDone PROVE OffsetsFindThePvs
  <2>1. \A p \in PVs : offset[p] = Base[BufferOf(p)] + place[p].at
    BY <1>3 DEF IInv, OffsetInv
  <2> QED
    BY <1>1, <2>1 DEF OffsetsFindThePvs
<1>4. ASSUME InitialisationDone PROVE EveryPvIsSubscribed
  <2>1. \A t \in Ids : tpc[t] \in {"main", "ended"}
    BY <1>4, DoneMeansAll DEF Finished
  <2>2. ASSUME NEW p \in PVs
        PROVE  /\ p \in subscribed <=> numberOfElements[p] > 0
               /\ place[p].buffer # NoThread
    <3> DEFINE t == BufferOf(p)
    <3>1. /\ t \in Ids /\ p \in RangeOf(t)
          /\ place[p].buffer # NoThread <=> p \in PlacedIn(t)
      BY <1>0, PlacedPv
    <3> HIDE DEF t
    <3>2. tpc[t] \in {"main", "ended"}
      BY <2>1, <3>1
    <3>3. p \in PlacedIn(t)
      BY <3>1, <3>2 DEF PlacedIn
    <3>4. p \in subscribed <=> p \in SubscribedIn(t)
      BY <3>1, <1>0 DEF ThreadInv, Subscribing
    <3>5. p \in SubscribedIn(t) <=> numberOfElements[p] > 0
      BY <3>1, <3>2 DEF SubscribedIn
    <3> QED
      BY <3>1, <3>3, <3>4, <3>5
  <2>3. subscribed \subseteq PVs
    BY <1>0 DEF SubscriberTypeOK
  <2> QED
    BY <2>2, <2>3 DEF EveryPvIsSubscribed
<1> QED
  BY <1>2, <1>3, <1>4 DEF EachPvHasItsPlace

-----------------------------------------------------------------------------
(* Type correctness.                                                       *)

LEMMA InitType == SubscriberInit => SubscriberTypeOK
<1> SUFFICES ASSUME SubscriberInit PROVE SubscriberTypeOK
  OBVIOUS
<1>1. \A p \in PVs : place[p] \in [buffer : Ids \cup {NoThread}, at : Nat]
  BY DEF SubscriberInit
<1>2. Blank \in [value : Versions, stamp : Versions]
  BY DEF Blank, Versions
<1>3. /\ numberOfPoolThreads \in Nat /\ numberOfPvs \in Nat
      /\ maxArraySize \in Nat /\ MaxChanges \in Nat \ {0}
  OBVIOUS
<1>4. /\ place \in [PVs -> [buffer : Ids \cup {NoThread}, at : Nat]]
      /\ pvMemory \in [PVs -> [value : Versions, stamp : Versions]]
      /\ copy \in [PVs -> [value : Versions, stamp : Versions]]
  BY <1>1, <1>2 DEF SubscriberInit
<1> QED
  BY <1>3, <1>4 DEF SubscriberInit, SubscriberTypeOK, Versions

LEMMA StartupType ==
    ASSUME RangesAreApart, IInv, NEW t \in Ids, Startup(t)
    PROVE  SubscriberTypeOK'
<1>0. SubscriberTypeOK
  BY DEF IInv
<1>1. /\ RangeBegin(t) \in 0 .. numberOfPvs /\ RangeEnd(t) \in Nat
      /\ RangeEnd(t) <= numberOfPvs /\ RangeOf(t) \subseteq PVs
  BY RangeBounds
<1>2. tpc[t] # "startup" => pos[t] \in RangeBegin(t) .. RangeEnd(t)
  BY DEF IInv, ThreadInv, InRange
<1>3. ASSUME NEW stage, stage # "startup", InLoop(t, stage)
      PROVE  pos[t] \in PVs /\ pos[t] + 1 \in 0 .. numberOfPvs
  BY <1>1, <1>2, <1>3 DEF InLoop, PVs
<1>4. CASE TakeNumber(t)
  <2>1. threatCnt' \in 0 .. numberOfPoolThreads
    BY <1>4 DEF TakeNumber, Ids
  <2>2. pos' \in [Ids -> 0 .. numberOfPvs]
    BY <1>0, <1>1, <1>4 DEF TakeNumber, SubscriberTypeOK
  <2> QED
    BY <2>1, <2>2, <1>0, <1>4
    DEF TakeNumber, SubscriberTypeOK, layoutVars, caVars, Versions
<1>5. CASE FillSize(t)
  <2>1. pos[t] \in PVs /\ pos[t] + 1 \in 0 .. numberOfPvs
    BY <1>3, <1>5 DEF FillSize
  <2>2. PICK connected \in BOOLEAN :
           /\ numberOfElements' = [numberOfElements EXCEPT
                                     ![pos[t]] = ElementsFound(pos[t], connected)]
           /\ memorySize' = [memorySize EXCEPT ![t] =
                 IF connected /\ Elements[pos[t]] > maxArraySize THEN @
                 ELSE @ + ElementsFound(pos[t], connected) + 1]
    BY <1>5 DEF FillSize
  <2>3. ElementsFound(pos[t], connected) \in 0 .. maxArraySize
    BY <2>1 DEF ElementsFound
  <2>4. numberOfElements' \in [PVs -> 0 .. maxArraySize]
    BY <1>0, <2>2, <2>3 DEF SubscriberTypeOK
  <2>6. memorySize' \in [Ids -> Nat]
    <3> DEFINE elements == ElementsFound(pos[t], connected)
    <3> HIDE DEF elements
    <3>1. /\ memorySize' = [memorySize EXCEPT ![t] =
                IF connected /\ Elements[pos[t]] > maxArraySize THEN memorySize[t]
                ELSE memorySize[t] + elements + 1]
          /\ elements \in Nat /\ memorySize \in [Ids -> Nat]
      BY <1>0, <2>2, <2>3 DEF SubscriberTypeOK, elements
    <3>2. memorySize[t] \in Nat /\ memorySize[t] + elements + 1 \in Nat
      BY <3>1
    <3> QED
      BY <3>1, <3>2
  <2>5. pos' \in [Ids -> 0 .. numberOfPvs]
    BY <1>0, <1>5, <2>1 DEF FillSize, SubscriberTypeOK
  <2> QED
    BY <2>4, <2>5, <2>6, <1>0, <1>5 DEF FillSize, SubscriberTypeOK, caVars, Versions
<1>6. CASE Allocate(t)
  <2>1. pos' \in [Ids -> 0 .. numberOfPvs]
    BY <1>0, <1>1, <1>6 DEF Allocate, NextLoop, SubscriberTypeOK
  <2> QED
    BY <2>1, <1>0, <1>6 DEF Allocate, NextLoop, SubscriberTypeOK, layoutVars, caVars, Versions
<1>7. CASE GivePlace(t)
  <2>1. pos[t] \in PVs /\ pos[t] + 1 \in 0 .. numberOfPvs
    BY <1>3, <1>7 DEF GivePlace
  <2>2. memoryOffset[t] \in Nat /\ Room(pos[t]) \in Nat
    BY <1>0, <2>1 DEF SubscriberTypeOK, Room, Size
  <2>3. [buffer |-> t, at |-> memoryOffset[t]] \in [buffer : Ids \cup {NoThread}, at : Nat]
    BY <2>2
  <2>4. place' \in [PVs -> [buffer : Ids \cup {NoThread}, at : Nat]]
    BY <1>0, <1>7, <2>3 DEF GivePlace, SubscriberTypeOK
  <2>5. offset' \in [PVs -> Nat] /\ memoryOffset' \in [Ids -> Nat]
    <3> DEFINE room == Room(pos[t])
    <3>1. /\ offset' = [offset EXCEPT ![pos[t]] = memoryOffset[t]]
          /\ memoryOffset' = [memoryOffset EXCEPT ![t] = memoryOffset[t] + room]
      BY <1>7 DEF GivePlace
    <3> HIDE DEF room
    <3>2. memoryOffset[t] + room \in Nat
      BY <2>2 DEF room
    <3> QED
      BY <1>0, <2>2, <3>1, <3>2 DEF SubscriberTypeOK
  <2>6. pos' \in [Ids -> 0 .. numberOfPvs]
    BY <1>0, <1>7, <2>1 DEF GivePlace, SubscriberTypeOK
  <2> QED
    BY <2>4, <2>5, <2>6, <1>0, <1>7 DEF GivePlace, SubscriberTypeOK, caVars, Versions
<1>8. CASE PlacesDone(t)
  <2>1. pos' \in [Ids -> 0 .. numberOfPvs]
    BY <1>0, <1>1, <1>8 DEF PlacesDone, NextLoop, SubscriberTypeOK
  <2> QED
    BY <2>1, <1>0, <1>8 DEF PlacesDone, NextLoop, SubscriberTypeOK, layoutVars, caVars, Versions
<1>9. CASE Subscribe(t)
  <2>1. pos[t] \in PVs /\ pos[t] + 1 \in 0 .. numberOfPvs
    BY <1>3, <1>9 DEF Subscribe
  <2>2. pos' \in [Ids -> 0 .. numberOfPvs]
    BY <1>0, <1>9, <2>1 DEF Subscribe, SubscriberTypeOK
  <2>3. subscribed' \subseteq PVs
    BY <1>0, <1>9, <2>1 DEF Subscribe, SubscriberTypeOK
  <2>4. pvMemory' \in [PVs -> [value : Versions, stamp : Versions]]
    <3>1. pvMemory[pos[t]].value \in Versions /\ source[pos[t]] \in Versions
      BY <1>0, <2>1 DEF SubscriberTypeOK, Versions
    <3> DEFINE p == pos[t]
    <3>2. \/ pvMemory' = pvMemory
          \/ \E got \in Versions : pvMemory' = [pvMemory EXCEPT ![p].value = got]
      BY <1>9, <3>1 DEF Subscribe
    <3>3. p \in PVs
      BY <2>1
    <3> HIDE DEF p
    <3>4. CASE pvMemory' = pvMemory
      BY <1>0, <3>4 DEF SubscriberTypeOK
    <3>5. ASSUME NEW got \in Versions, pvMemory' = [pvMemory EXCEPT ![p].value = got]
          PROVE  pvMemory' \in [PVs -> [value : Versions, stamp : Versions]]
      <4>1. pvMemory \in [PVs -> [value : Versions, stamp : Versions]]
        BY <1>0 DEF SubscriberTypeOK
      <4> QED
        BY <4>1, <3>3, <3>5
    <3> QED
      BY <3>2, <3>4, <3>5
  <2> QED
    BY <2>2, <2>3, <2>4, <1>0, <1>9 DEF Subscribe, SubscriberTypeOK, layoutVars, caVars, Versions
<1>10. CASE Remap(t)
  <2>1. pos' \in [Ids -> 0 .. numberOfPvs] /\ tpc[t] = "subscribe"
    BY <1>0, <1>1, <1>10 DEF Remap, NextLoop, SubscriberTypeOK
  <2>2. initialisationDone' \in 0 .. numberOfPoolThreads
    <3>1. Finished # Ids /\ Finished \in SUBSET Ids
      BY <2>1 DEF Finished
    <3>2. initialisationDone = Cardinality(Finished)
      BY DEF IInv
    <3>3. initialisationDone \in 0 .. numberOfPoolThreads
          /\ ~(initialisationDone >= numberOfPoolThreads)
      BY <3>1, <3>2, AllFinished
    <3> QED
      BY <3>3, <1>10 DEF Remap
  <2>3. offset' \in [PVs -> Nat]
    <3>1. ASSUME NEW p \in PVs PROVE Base[BufferOf(p)] \in Nat
      <4>1. BufferOf(p) \in 0 .. numberOfPoolThreads
        BY RangeOfBuffer DEF Ids
      <4>2. Base \in [0 .. numberOfPoolThreads -> Nat]
        BY <1>0, BaseSums DEF SubscriberTypeOK
      <4> QED
        BY <4>1, <4>2
    <3> QED
      BY <3>1, <1>0, <1>10 DEF Remap, SubscriberTypeOK
  <2> QED
    BY <2>1, <2>2, <2>3, <1>0, <1>10
    DEF Remap, NextLoop, SubscriberTypeOK, caVars, Versions
<1> QED
  BY <1>4, <1>5, <1>6, <1>7, <1>8, <1>9, <1>10 DEF Startup

LEMMA NextType ==
    ASSUME RangesAreApart
    PROVE  IInv /\ [SubscriberNext]_subscriberVars => SubscriberTypeOK'
<1> SUFFICES ASSUME IInv, [SubscriberNext]_subscriberVars PROVE SubscriberTypeOK'
  OBVIOUS
<1>0. SubscriberTypeOK
  BY DEF IInv
<1>1. ASSUME NEW t \in Ids, Startup(t) PROVE SubscriberTypeOK'
  BY <1>1, StartupType
<1>2. ASSUME NEW t \in Ids, CleanContext(t) PROVE SubscriberTypeOK'
  BY <1>0, <1>2 DEF CleanContext, SubscriberTypeOK, layoutVars, caVars, Versions
<1>3. ASSUME NEW p \in PVs, Change(p) PROVE SubscriberTypeOK'
  <2>1. source' \in [PVs -> 1 .. MaxChanges]
    <3>1. source[p] + 1 \in 1 .. MaxChanges
      BY <1>0, <1>3 DEF Change, SubscriberTypeOK
    <3> QED
      BY <3>1, <1>0, <1>3 DEF Change, SubscriberTypeOK
  <2> QED
    BY <2>1, <1>0, <1>3 DEF Change, SubscriberTypeOK, threadVars, layoutVars, Versions
<1>4. ASSUME NEW p \in PVs, NEW change \in Nat, change <= source[p]
      PROVE  change \in Versions
  BY <1>0, <1>4 DEF SubscriberTypeOK, Versions
<1>5. ASSUME NEW p \in PVs, GetValueCallback(p) PROVE SubscriberTypeOK'
  <2>1. PICK change \in valueSeen[p] + 1 .. source[p] :
           /\ valueSeen' = [valueSeen EXCEPT ![p] = change]
           /\ pvMemory' = [pvMemory EXCEPT ![p].value = change]
    BY <1>5 DEF GetValueCallback
  <2>2. change \in Versions
    BY <1>0, <1>4 DEF SubscriberTypeOK, Versions
  <2>3. /\ valueSeen' \in [PVs -> Versions]
        /\ pvMemory' \in [PVs -> [value : Versions, stamp : Versions]]
    BY <1>0, <2>1, <2>2 DEF SubscriberTypeOK
  <2>4. changedFlagMem' \subseteq PVs
    BY <1>0, <1>5 DEF GetValueCallback, RaiseFlag, SubscriberTypeOK
  <2> QED
    BY <2>3, <2>4, <1>0, <1>5 DEF GetValueCallback, SubscriberTypeOK, threadVars, layoutVars, Versions
<1>6. ASSUME NEW p \in PVs, GetTimeoutCallback(p) PROVE SubscriberTypeOK'
  <2>1. PICK change \in stampSeen[p] + 1 .. source[p] :
           /\ stampSeen' = [stampSeen EXCEPT ![p] = change]
           /\ pvMemory' = [pvMemory EXCEPT ![p].stamp = change]
    BY <1>6 DEF GetTimeoutCallback
  <2>2. change \in Versions
    BY <1>0, <1>4 DEF SubscriberTypeOK, Versions
  <2>3. /\ stampSeen' \in [PVs -> Versions]
        /\ pvMemory' \in [PVs -> [value : Versions, stamp : Versions]]
    BY <1>0, <2>1, <2>2 DEF SubscriberTypeOK
  <2> QED
    BY <2>3, <1>0, <1>6 DEF GetTimeoutCallback, SubscriberTypeOK, threadVars, layoutVars, Versions
<1>7. CASE Synchronise
  BY <1>0, <1>7
  DEF Synchronise, CopyBuffers, SubscriberTypeOK, threadVars, layoutVars, caVars, Versions
<1>8. CASE Stop
  BY <1>0, <1>8 DEF Stop, PostAndStop, SubscriberTypeOK, threadVars, layoutVars, caVars, Versions
<1>9. CASE StopDone
  BY <1>0, <1>9 DEF StopDone, SubscriberTypeOK, threadVars, layoutVars, caVars, Versions
<1>10. CASE UNCHANGED subscriberVars
  BY <1>0, <1>10 DEF subscriberVars, SubscriberTypeOK, threadVars, layoutVars, caVars, Versions
<1> QED
  BY <1>1, <1>2, <1>3, <1>5, <1>6, <1>7, <1>8, <1>9, <1>10 DEF SubscriberNext

-----------------------------------------------------------------------------
(* A thread's part of the invariant: what others do, then its own steps.   *)

\* A step that touches neither a thread's loop nor the PVs of its range.
Untouched(t) ==
    /\ tpc'[t] = tpc[t] /\ pos'[t] = pos[t]
    /\ memoryOffset'[t] = memoryOffset[t] /\ memorySize'[t] = memorySize[t]
    /\ \A p \in RangeOf(t) : /\ numberOfElements'[p] = numberOfElements[p]
                             /\ place'[p] = place[p]
                             /\ p \in subscribed' <=> p \in subscribed

LEMMA Frame ==
    ASSUME RangesAreApart, NEW t \in Ids, ThreadInv(t), Untouched(t)
    PROVE  ThreadInv(t)'
<1>1. /\ RangeBegin(t) \in Nat /\ RangeEnd(t) \in Nat
      /\ RangeOf(t) = RangeBegin(t) .. RangeEnd(t) - 1
      /\ RangeBegin(t)' = RangeBegin(t) /\ RangeEnd(t)' = RangeEnd(t) /\ RangeOf(t)' = RangeOf(t)
  BY RangeBounds DEF RangeOf, RangeBegin, RangeEnd
<1>2. \A p \in RangeOf(t) : Room(p)' = Room(p)
  BY DEF Untouched, Room, Size
<1>3. PlacedIn(t)' = PlacedIn(t) /\ SubscribedIn(t)' = SubscribedIn(t)
  BY <1>1 DEF Untouched, PlacedIn, SubscribedIn
<1>4. InRange(t)'
  <2> SUFFICES ASSUME tpc[t] # "startup"
               PROVE  pos'[t] \in RangeBegin(t) .. RangeEnd(t) /\ \E pre \in Measures : Laid(t, pre)'
    BY <1>1 DEF InRange, Untouched, Measures
  <2>1. pos[t] \in RangeBegin(t) .. RangeEnd(t)
    BY DEF ThreadInv, InRange
  <2>2. PICK pre \in Measures : Laid(t, pre)
    BY DEF ThreadInv, InRange
  <2>3. Reached(t)' = Reached(t) /\ Reached(t) \in RangeBegin(t) .. RangeEnd(t)
    BY <1>1, <2>1 DEF Reached, Untouched
  <2>4. Prefix(t, pre, Reached(t))'
    <3>1. /\ \A p \in RangeBegin(t) .. Reached(t) - 1 : pre[p + 1] = pre[p] + Room(p)'
          /\ \A p, q \in RangeBegin(t) .. Reached(t) : p < q => pre[p] + Room(p)' <= pre[q]
      <4>1. /\ \A p \in RangeBegin(t) .. Reached(t) - 1 : p \in RangeOf(t)
            /\ \A p, q \in RangeBegin(t) .. Reached(t) : p < q => p \in RangeOf(t)
        BY <1>1, <2>3
      <4> QED
        BY <4>1, <1>2, <2>2 DEF Laid, Prefix
    <3> QED
      BY <3>1, <1>1, <2>2, <2>3 DEF Laid, Prefix
  <2>5. \A p \in PlacedIn(t) : place'[p] = [buffer |-> t, at |-> pre[p]]
    BY <2>2 DEF Laid, PlacedIn, Untouched
  <2>6. Laid(t, pre)'
    BY <1>3, <2>2, <2>3, <2>4, <2>5 DEF Laid, Untouched
  <2> QED
    BY <2>1, <2>6 DEF Untouched
<1>5. NotPlaced(t)'
  BY <1>1, <1>3 DEF ThreadInv, NotPlaced, Untouched
<1>6. Subscribing(t)'
  BY <1>1, <1>3 DEF ThreadInv, Subscribing, Untouched
<1> QED
  BY <1>4, <1>5, <1>6 DEF ThreadInv

LEMMA TakeNumberKeeps ==
    ASSUME RangesAreApart, IInv, NEW t \in Ids, TakeNumber(t)
    PROVE  ThreadInv(t)'
<1>0. /\ RangeBegin(t) \in Nat /\ RangeEnd(t) \in Nat /\ RangeBegin(t) < RangeEnd(t)
      /\ RangeEnd(t) <= numberOfPvs
      /\ RangeBegin(t)' = RangeBegin(t) /\ RangeEnd(t)' = RangeEnd(t) /\ RangeOf(t)' = RangeOf(t)
  BY RangeBounds DEF RangeBegin, RangeEnd, RangeOf
<1>1. tpc[t] = "startup" /\ tpc'[t] = "fill" /\ pos'[t] = RangeBegin(t)
      /\ UNCHANGED <<memoryOffset, layoutVars, subscribed>>
  BY DEF TakeNumber, IInv, SubscriberTypeOK
<1>2. PlacedIn(t) = {} /\ PlacedIn(t)' = {} /\ SubscribedIn(t) = {} /\ SubscribedIn(t)' = {}
  BY <1>1 DEF PlacedIn, SubscribedIn
<1> DEFINE pre == [p \in 0 .. numberOfPvs |-> 0]
<1>3. Laid(t, pre)'
  <2>1. Reached(t)' = RangeBegin(t) /\ pre[RangeBegin(t)] = 0
    BY <1>0, <1>1 DEF Reached
  <2>2. Prefix(t, pre, Reached(t))'
    BY <1>0, <2>1 DEF Prefix
  <2>3. memorySize'[t] \in Nat
    BY <1>1 DEF layoutVars, IInv, SubscriberTypeOK
  <2> QED
    BY <1>0, <1>1, <1>2, <2>1, <2>2, <2>3 DEF Laid
<1>4. InRange(t)'
  <2>1. pre \in Measures
    BY DEF Measures
  <2> QED
    BY <2>1, <1>0, <1>1, <1>3 DEF InRange, Measures
<1>5. NotPlaced(t)' /\ Subscribing(t)'
  BY <1>0, <1>1, <1>2 DEF IInv, ThreadInv, NotPlaced, Subscribing, layoutVars
<1> QED
  BY <1>4, <1>5 DEF ThreadInv

LEMMA FillSizeKeeps ==
    ASSUME RangesAreApart, IInv, NEW t \in Ids, FillSize(t)
    PROVE  ThreadInv(t)'
<1>0. /\ RangeBegin(t) \in Nat /\ RangeEnd(t) \in Nat /\ RangeEnd(t) <= numberOfPvs
      /\ RangeOf(t) \subseteq PVs /\ RangeOf(t) = RangeBegin(t) .. RangeEnd(t) - 1
      /\ RangeBegin(t)' = RangeBegin(t) /\ RangeEnd(t)' = RangeEnd(t) /\ RangeOf(t)' = RangeOf(t)
  BY RangeBounds DEF RangeBegin, RangeEnd, RangeOf
<1> DEFINE b == RangeBegin(t)
<1>3. PICK c \in RangeOf(t) : c = pos[t]
  BY <1>0 DEF FillSize, InLoop, IInv, ThreadInv, InRange
<1>1. tpc[t] = "fill" /\ tpc'[t] = "fill" /\ c < RangeEnd(t) /\ pos'[t] = c + 1
      /\ UNCHANGED <<place, subscribed>>
  BY <1>3 DEF FillSize, InLoop, IInv, SubscriberTypeOK
<1>2. PICK pre \in Measures : Laid(t, pre)
  BY <1>1 DEF IInv, ThreadInv, InRange
<1>15. c \in b .. RangeEnd(t) - 1 /\ c \in RangeOf(t) /\ c \in PVs /\ c \in Nat /\ b \in Nat
  BY <1>0
<1>4. PlacedIn(t) = {} /\ PlacedIn(t)' = {} /\ SubscribedIn(t) = {} /\ SubscribedIn(t)' = {}
  BY <1>1 DEF PlacedIn, SubscribedIn
<1>5. PICK connected \in BOOLEAN :
           /\ numberOfElements' = [numberOfElements EXCEPT ![c] = ElementsFound(c, connected)]
           /\ memorySize' = [memorySize EXCEPT ![t] =
                 IF connected /\ Elements[c] > maxArraySize THEN @
                 ELSE @ + ElementsFound(c, connected) + 1]
  BY <1>3 DEF FillSize
<1> DEFINE room == Room(c)'
<1>6. /\ memorySize[t] \in Nat /\ memorySize'[t] \in Nat /\ room \in Nat
      /\ memorySize[t] + room <= memorySize'[t]
  <2> DEFINE elements == ElementsFound(c, connected)
  <2>1. elements \in Nat /\ (connected /\ Elements[c] > maxArraySize => elements = 0)
    <3>1. Elements[c] \in Nat
      BY <1>15
    <3> QED
      BY <3>1 DEF ElementsFound
  <2>2. numberOfElements'[c] = elements
    BY <1>15, <1>5 DEF IInv, SubscriberTypeOK
  <2>3. /\ memorySize[t] \in Nat
        /\ memorySize'[t] = IF connected /\ Elements[c] > maxArraySize THEN memorySize[t]
                            ELSE memorySize[t] + elements + 1
    BY <1>5 DEF IInv, SubscriberTypeOK
  <2> HIDE DEF elements
  <2>4. room = IF elements > 0 THEN elements + 1 ELSE 0
    BY <2>2 DEF Room, Size
  <2> QED
    BY <2>1, <2>3, <2>4
<1>7. \A p \in b .. c - 1 : Room(p)' = Room(p) /\ p \in RangeOf(t)
  <2>1. \A p \in b .. c - 1 : p # c /\ p \in RangeOf(t) /\ p \in PVs
    BY <1>0, <1>15
  <2>2. \A p \in PVs : p # c => numberOfElements'[p] = numberOfElements[p]
    BY <1>15, <1>5 DEF IInv, SubscriberTypeOK
  <2> QED
    BY <2>1, <2>2 DEF Room, Size
<1> HIDE DEF room, b
<1>8. /\ pre \in [0 .. numberOfPvs -> Nat] /\ pre[b] = 0 /\ pre[c] <= memorySize[t]
      /\ \A p \in b .. c - 1 : pre[p + 1] = pre[p] + Room(p)
      /\ \A p, q \in b .. c : p < q => pre[p] + Room(p) <= pre[q]
  BY <1>1, <1>2, <1>3 DEF Laid, Prefix, Reached, Measures, b
<1>9. PICK more \in Measures :
      /\ more[c + 1] = pre[c] + room
      /\ \A p \in 0 .. numberOfPvs : p # c + 1 => more[p] = pre[p]
      /\ c \in 0 .. numberOfPvs /\ c + 1 \in 0 .. numberOfPvs
      /\ b .. c \subseteq 0 .. numberOfPvs
  <2>1. /\ c \in 0 .. numberOfPvs /\ c + 1 \in 0 .. numberOfPvs
        /\ b .. c \subseteq 0 .. numberOfPvs
    BY <1>0, <1>15
  <2>2. pre[c] + room \in Nat
    BY <2>1, <1>6, <1>8
  <2> DEFINE m == [pre EXCEPT ![c + 1] = pre[c] + room]
  <2>3. /\ m \in Measures /\ m[c + 1] = pre[c] + room
        /\ \A p \in 0 .. numberOfPvs : p # c + 1 => m[p] = pre[p]
    BY <2>1, <2>2, <1>8 DEF Measures
  <2> QED
    BY <2>1, <2>3
<1>10. Reached(t)' = c + 1
  BY <1>1 DEF Reached
<1>11. Prefix(t, more, Reached(t))'
  <2>1. more[b] = 0
    BY <1>15, <1>8, <1>9
  <2>2. ASSUME NEW p \in b .. c PROVE more[p + 1] = more[p] + Room(p)'
    <3>0. p # c + 1 /\ p \in 0 .. numberOfPvs
      BY <1>15, <1>9
    <3>1. CASE p = c
      BY <3>0, <3>1, <1>9 DEF room
    <3>2. CASE p # c
      <4>1. p \in b .. c - 1 /\ p + 1 \in b .. c /\ p + 1 # c + 1
        BY <3>2, <1>15
      <4> QED
        BY <4>1, <3>0, <1>7, <1>8, <1>9
    <3> QED
      BY <3>1, <3>2
  <2>3. ASSUME NEW p \in b .. c + 1, NEW q \in b .. c + 1, p < q
        PROVE  more[p] + Room(p)' <= more[q]
    <3>0. p \in b .. c /\ p # c + 1 /\ p \in 0 .. numberOfPvs
      BY <2>3, <1>15, <1>9
    <3>1. CASE q # c + 1
      <4>1. q \in b .. c /\ p \in b .. c - 1 /\ q \in 0 .. numberOfPvs
        BY <2>3, <3>1, <1>15, <1>9
      <4> QED
        BY <4>1, <2>3, <3>0, <3>1, <1>7, <1>8, <1>9
    <3>2. CASE q = c + 1 /\ p = c
      BY <3>0, <3>2, <1>6, <1>8, <1>9 DEF room
    <3>3. CASE q = c + 1 /\ p # c
      <4>1. p \in b .. c - 1 /\ p < c /\ c \in b .. c
        BY <3>0, <3>3, <1>15
      <4>2. pre[p] + Room(p) <= pre[c] /\ Room(p)' = Room(p)
        BY <4>1, <3>0, <1>7, <1>8
      <4>3. numberOfElements[p] \in Nat
        <5>1. p \in PVs
          BY <4>1, <1>0, <1>7
        <5> QED
          BY <5>1 DEF IInv, SubscriberTypeOK
      <4>4. Room(p) \in Nat /\ pre[p] \in Nat /\ pre[c] \in Nat /\ room \in Nat
        BY <4>3, <3>0, <1>6, <1>8, <1>9 DEF Room, Size
      <4>5. more[p] = pre[p] /\ more[q] = pre[c] + room
        BY <3>0, <3>3, <1>9
      <4> QED
        BY <4>2, <4>4, <4>5
    <3> QED
      BY <3>1, <3>2, <3>3
  <2>4. (c + 1) - 1 = c /\ RangeBegin(t)' = b
    BY <1>0, <1>15 DEF b
  <2> QED
    BY <2>1, <2>2, <2>3, <2>4, <1>10 DEF Prefix
<1>12. Laid(t, more)'
  <2>1. more[c + 1] <= memorySize'[t]
    <3>1. pre[c] \in Nat
      BY <1>8, <1>9
    <3> QED
      BY <3>1, <1>6, <1>8, <1>9
  <2> QED
    BY <2>1, <1>0, <1>1, <1>4, <1>10, <1>11 DEF Laid
<1>13. InRange(t)'
  <2>1. c + 1 \in b .. RangeEnd(t)
    BY <1>0, <1>15
  <2> QED
    BY <2>1, <1>0, <1>1, <1>9, <1>12 DEF InRange, Measures, b
<1>14. NotPlaced(t)' /\ Subscribing(t)'
  BY <1>0, <1>1, <1>4 DEF IInv, ThreadInv, NotPlaced, Subscribing
<1> QED
  BY <1>13, <1>14 DEF ThreadInv

\* Once its first loop is over, a thread's sums are there for good.
LEMMA Counted ==
    ASSUME RangesAreApart, IInv, NEW t \in Ids, tpc[t] # "startup", tpc'[t] \notin {"startup", "fill"},
           tpc[t] = "fill" => pos[t] >= RangeEnd(t),
           UNCHANGED <<numberOfElements, memorySize>>
    PROVE  /\ RangeBegin(t) \in Nat /\ RangeEnd(t) \in Nat /\ RangeBegin(t) < RangeEnd(t)
           /\ RangeEnd(t) <= numberOfPvs
           /\ RangeOf(t) = RangeBegin(t) .. RangeEnd(t) - 1 /\ RangeOf(t) \subseteq PVs
           /\ RangeBegin(t)' = RangeBegin(t) /\ RangeEnd(t)' = RangeEnd(t) /\ RangeOf(t)' = RangeOf(t)
           /\ pos[t] \in RangeBegin(t) .. RangeEnd(t)
           /\ \E pre \in Measures :
                 Laid(t, pre) /\ Prefix(t, pre, RangeEnd(t))
                 /\ Prefix(t, pre, Reached(t))' /\ pre[Reached(t)]' <= memorySize'[t]
<1>0. /\ RangeBegin(t) \in Nat /\ RangeEnd(t) \in Nat /\ RangeBegin(t) < RangeEnd(t)
      /\ RangeEnd(t) <= numberOfPvs
      /\ RangeOf(t) = RangeBegin(t) .. RangeEnd(t) - 1 /\ RangeOf(t) \subseteq PVs
      /\ RangeBegin(t)' = RangeBegin(t) /\ RangeEnd(t)' = RangeEnd(t) /\ RangeOf(t)' = RangeOf(t)
  BY RangeBounds DEF RangeBegin, RangeEnd, RangeOf
<1>1. pos[t] \in RangeBegin(t) .. RangeEnd(t)
  BY DEF IInv, ThreadInv, InRange
<1>2. PICK pre \in Measures : Laid(t, pre)
  BY DEF IInv, ThreadInv, InRange
<1>3. Reached(t) = RangeEnd(t) /\ Reached(t)' = RangeEnd(t)
  BY <1>0, <1>1 DEF Reached
<1>4. Prefix(t, pre, RangeEnd(t)) /\ pre[RangeEnd(t)] <= memorySize[t]
  BY <1>2, <1>3 DEF Laid
<1>5. Prefix(t, pre, Reached(t))'
  BY <1>0, <1>3, <1>4 DEF Prefix, Room, Size
<1>6. pre[Reached(t)]' <= memorySize'[t]
  BY <1>3, <1>4
<1> QED
  BY <1>0, <1>1, <1>2, <1>4, <1>5, <1>6

LEMMA AllocateKeeps ==
    ASSUME RangesAreApart, IInv, NEW t \in Ids, Allocate(t)
    PROVE  ThreadInv(t)'
<1>1. /\ tpc[t] = "fill" /\ tpc'[t] = "layout" /\ pos[t] >= RangeEnd(t) /\ pos'[t] = RangeBegin(t)
      /\ memoryOffset'[t] = 0
      /\ UNCHANGED <<numberOfElements, memorySize, place, subscribed>>
  BY DEF Allocate, NextLoop, layoutVars, IInv, SubscriberTypeOK
<1>2. /\ RangeBegin(t) \in Nat /\ RangeBegin(t) < RangeEnd(t) /\ RangeEnd(t) \in Nat
      /\ RangeOf(t) = RangeBegin(t) .. RangeEnd(t) - 1
      /\ RangeBegin(t)' = RangeBegin(t) /\ RangeEnd(t)' = RangeEnd(t) /\ RangeOf(t)' = RangeOf(t)
  BY <1>1, Counted
<1>3. PICK pre \in Measures : /\ Prefix(t, pre, Reached(t))'
                              /\ pre[Reached(t)]' <= memorySize'[t]
                              /\ Prefix(t, pre, RangeEnd(t))
  BY <1>1, Counted
<1>4. PlacedIn(t) = {} /\ PlacedIn(t)' = {} /\ SubscribedIn(t) = {} /\ SubscribedIn(t)' = {}
  BY <1>1, <1>2 DEF PlacedIn, SubscribedIn
<1>5. Laid(t, pre)'
  <2>1. pre[RangeBegin(t)] = 0
    BY <1>3 DEF Prefix
  <2> QED
    BY <2>1, <1>1, <1>3, <1>4 DEF Laid
<1>6. InRange(t)'
  BY <1>1, <1>2, <1>5 DEF InRange, Measures
<1>7. NotPlaced(t)' /\ Subscribing(t)'
  BY <1>1, <1>2, <1>4 DEF IInv, ThreadInv, NotPlaced, Subscribing
<1> QED
  BY <1>6, <1>7 DEF ThreadInv

LEMMA PlaceKeeps ==
    ASSUME RangesAreApart, IInv, NEW t \in Ids, GivePlace(t)
    PROVE  ThreadInv(t)'
<1>1. /\ tpc[t] = "layout" /\ tpc'[t] = "layout" /\ pos[t] < RangeEnd(t)
      /\ UNCHANGED <<numberOfElements, memorySize, subscribed>>
  BY DEF GivePlace, InLoop
<1>2. /\ RangeBegin(t) \in Nat /\ RangeEnd(t) \in Nat /\ RangeEnd(t) <= numberOfPvs
      /\ RangeOf(t) = RangeBegin(t) .. RangeEnd(t) - 1 /\ RangeOf(t) \subseteq PVs
      /\ RangeBegin(t)' = RangeBegin(t) /\ RangeEnd(t)' = RangeEnd(t) /\ RangeOf(t)' = RangeOf(t)
      /\ pos[t] \in RangeBegin(t) .. RangeEnd(t)
  BY <1>1, Counted
<1>3. PICK pre \in Measures : /\ Laid(t, pre) /\ Prefix(t, pre, RangeEnd(t))
                              /\ Prefix(t, pre, Reached(t))'
                              /\ pre[Reached(t)]' <= memorySize'[t]
  BY <1>1, Counted
<1>4. PICK c \in RangeOf(t) : c = pos[t]
  BY <1>1, <1>2
<1>5. c \in PVs /\ c \in Nat /\ c + 1 \in RangeBegin(t) .. RangeEnd(t)
  BY <1>2
<1>6. pos'[t] = c + 1 /\ memoryOffset'[t] = memoryOffset[t] + Room(c)
  BY <1>4 DEF GivePlace, IInv, SubscriberTypeOK
<1>7. memoryOffset[t] = pre[c] /\ pre[c + 1] = pre[c] + Room(c)
  BY <1>1, <1>2, <1>3, <1>4 DEF Laid, Prefix
<1>8. PlacedIn(t)' = PlacedIn(t) \cup {c} /\ SubscribedIn(t) = {} /\ SubscribedIn(t)' = {}
  BY <1>1, <1>2, <1>4, <1>6 DEF PlacedIn, SubscribedIn
<1>9. place' = [place EXCEPT ![c] = [buffer |-> t, at |-> pre[c]]]
  BY <1>4, <1>7 DEF GivePlace
<1>10. \A p \in PlacedIn(t)' : place'[p] = [buffer |-> t, at |-> pre[p]]
  <2>1. place \in [PVs -> [buffer : Ids \cup {NoThread}, at : Nat]]
    BY DEF IInv, SubscriberTypeOK
  <2>2. place'[c] = [buffer |-> t, at |-> pre[c]]
    BY <2>1, <1>5, <1>9
  <2>3. \A p \in PVs : p # c => place'[p] = place[p]
    BY <2>1, <1>9
  <2>4. \A p \in PlacedIn(t) : p \in PVs /\ place[p] = [buffer |-> t, at |-> pre[p]]
    BY <1>2, <1>3 DEF Laid, PlacedIn
  <2> QED
    BY <2>2, <2>3, <2>4, <1>8
<1>11. Laid(t, pre)'
  BY <1>1, <1>3, <1>6, <1>7, <1>10 DEF Laid
<1>12. InRange(t)'
  BY <1>1, <1>2, <1>5, <1>6, <1>11 DEF InRange, Measures
<1>13. NotPlaced(t)'
  <2>1. \A p \in RangeOf(t) \ PlacedIn(t) : place[p].buffer = NoThread
    BY DEF IInv, ThreadInv, NotPlaced
  <2>2. \A p \in PVs : p # c => place'[p] = place[p]
    BY <1>9 DEF IInv, SubscriberTypeOK
  <2> QED
    BY <2>1, <2>2, <1>2, <1>8 DEF NotPlaced
<1>14. Subscribing(t)'
  BY <1>1, <1>2, <1>8 DEF IInv, ThreadInv, Subscribing
<1> QED
  BY <1>12, <1>13, <1>14 DEF ThreadInv

\* The steps that place nothing.
LEMMA PlacesStay ==
    ASSUME RangesAreApart, IInv, NEW t \in Ids, tpc[t] \notin {"startup", "fill"},
           tpc'[t] \in {"subscribe", "main", "ended"},
           tpc[t] = "layout" => pos[t] >= RangeEnd(t), pos'[t] \in RangeBegin(t) .. RangeEnd(t),
           UNCHANGED <<numberOfElements, memorySize, place>>
    PROVE  InRange(t)' /\ NotPlaced(t)'
<1>2. /\ RangeBegin(t) \in Nat /\ RangeEnd(t) \in Nat
      /\ RangeOf(t) = RangeBegin(t) .. RangeEnd(t) - 1
      /\ RangeBegin(t)' = RangeBegin(t) /\ RangeEnd(t)' = RangeEnd(t) /\ RangeOf(t)' = RangeOf(t)
      /\ pos[t] \in RangeBegin(t) .. RangeEnd(t)
  BY Counted
<1>3. PICK pre \in Measures : /\ Laid(t, pre) /\ Prefix(t, pre, Reached(t))'
                              /\ pre[Reached(t)]' <= memorySize'[t]
  BY Counted
<1>4. PlacedIn(t) = RangeOf(t) /\ PlacedIn(t)' = RangeOf(t)
  BY <1>2 DEF PlacedIn
<1>5. Laid(t, pre)'
  BY <1>3, <1>4 DEF Laid
<1>6. InRange(t)'
  BY <1>2, <1>5 DEF InRange, Measures
<1>7. NotPlaced(t)'
  BY <1>2, <1>4 DEF NotPlaced
<1> QED
  BY <1>6, <1>7

LEMMA PlacesDoneKeeps ==
    ASSUME RangesAreApart, IInv, NEW t \in Ids, PlacesDone(t)
    PROVE  ThreadInv(t)'
<1>0. /\ RangeBegin(t) \in Nat /\ RangeEnd(t) \in Nat /\ RangeBegin(t) < RangeEnd(t)
      /\ RangeOf(t) = RangeBegin(t) .. RangeEnd(t) - 1 /\ RangeOf(t)' = RangeOf(t)
  BY RangeBounds DEF RangeBegin, RangeEnd, RangeOf
<1>1. /\ tpc[t] = "layout" /\ tpc'[t] = "subscribe" /\ pos[t] >= RangeEnd(t)
      /\ pos'[t] = RangeBegin(t)
      /\ UNCHANGED <<numberOfElements, memorySize, place, subscribed>>
  BY DEF PlacesDone, NextLoop, layoutVars, IInv, SubscriberTypeOK
<1>2. InRange(t)' /\ NotPlaced(t)'
  <2>1. pos'[t] \in RangeBegin(t) .. RangeEnd(t)
    BY <1>0, <1>1
  <2> QED
    BY <2>1, <1>1, PlacesStay
<1>3. SubscribedIn(t) = {} /\ SubscribedIn(t)' = {}
  BY <1>0, <1>1 DEF SubscribedIn
<1>4. Subscribing(t)'
  BY <1>0, <1>1, <1>3 DEF IInv, ThreadInv, Subscribing
<1> QED
  BY <1>2, <1>4 DEF ThreadInv

LEMMA SubscribeKeeps ==
    ASSUME RangesAreApart, IInv, NEW t \in Ids, Subscribe(t)
    PROVE  ThreadInv(t)'
<1>0. /\ RangeBegin(t) \in Nat /\ RangeEnd(t) \in Nat
      /\ RangeOf(t) = RangeBegin(t) .. RangeEnd(t) - 1 /\ RangeOf(t)' = RangeOf(t)
  BY RangeBounds DEF RangeBegin, RangeEnd, RangeOf
<1>1. /\ tpc[t] = "subscribe" /\ tpc'[t] = "subscribe" /\ pos[t] < RangeEnd(t)
      /\ pos'[t] = pos[t] + 1 /\ pos[t] \in RangeBegin(t) .. RangeEnd(t)
      /\ UNCHANGED <<numberOfElements, memorySize, place>>
  BY DEF Subscribe, InLoop, layoutVars, IInv, SubscriberTypeOK, ThreadInv, InRange
<1>2. InRange(t)' /\ NotPlaced(t)'
  <2>1. pos'[t] \in RangeBegin(t) .. RangeEnd(t)
    BY <1>0, <1>1
  <2> QED
    BY <2>1, <1>1, PlacesStay
<1>3. PICK c \in RangeOf(t) : c = pos[t]
  BY <1>0, <1>1
<1>4. SubscribedIn(t)' = SubscribedIn(t) \cup
                         (IF numberOfElements[c] > 0 THEN {c} ELSE {})
  <2>1. \A p \in RangeOf(t) : p < c + 1 <=> p < c \/ p = c
    BY <1>0
  <2>2. pos[t] = c /\ pos'[t] = c + 1
    BY <1>1, <1>3
  <2> QED
    BY <2>1, <2>2, <1>0, <1>1 DEF SubscribedIn
<1>5. subscribed' = subscribed \cup (IF numberOfElements[c] > 0 THEN {c} ELSE {})
  BY <1>3 DEF Subscribe
<1>6. Subscribing(t)'
  <2>1. \A p \in RangeOf(t) : p \in subscribed <=> p \in SubscribedIn(t)
    BY DEF IInv, ThreadInv, Subscribing
  <2> QED
    BY <2>1, <1>0, <1>4, <1>5 DEF Subscribing
<1> QED
  BY <1>2, <1>6 DEF ThreadInv

LEMMA RemapKeeps ==
    ASSUME RangesAreApart, IInv, NEW t \in Ids, Remap(t)
    PROVE  ThreadInv(t)'
<1>0. /\ RangeBegin(t) \in Nat /\ RangeEnd(t) \in Nat /\ RangeBegin(t) < RangeEnd(t)
      /\ RangeOf(t) = RangeBegin(t) .. RangeEnd(t) - 1 /\ RangeOf(t)' = RangeOf(t)
  BY RangeBounds DEF RangeBegin, RangeEnd, RangeOf
<1>1. /\ tpc[t] = "subscribe" /\ tpc'[t] = "main" /\ pos[t] >= RangeEnd(t)
      /\ pos'[t] = RangeBegin(t) /\ pos[t] \in RangeBegin(t) .. RangeEnd(t)
      /\ UNCHANGED <<numberOfElements, memorySize, place, subscribed>>
  BY DEF Remap, NextLoop, IInv, SubscriberTypeOK, ThreadInv, InRange
<1>2. InRange(t)' /\ NotPlaced(t)'
  <2>1. pos'[t] \in RangeBegin(t) .. RangeEnd(t)
    BY <1>0, <1>1
  <2> QED
    BY <2>1, <1>1, PlacesStay
<1>3. SubscribedIn(t)' = SubscribedIn(t)
  BY <1>0, <1>1 DEF SubscribedIn
<1>4. Subscribing(t)'
  BY <1>0, <1>1, <1>3 DEF IInv, ThreadInv, Subscribing
<1> QED
  BY <1>2, <1>4 DEF ThreadInv

LEMMA CleanContextKeeps ==
    ASSUME RangesAreApart, IInv, NEW t \in Ids, CleanContext(t)
    PROVE  ThreadInv(t)'
<1>0. RangeOf(t)' = RangeOf(t)
  BY DEF RangeBegin, RangeEnd, RangeOf
<1>1. /\ tpc[t] = "main" /\ tpc'[t] = "ended"
      /\ UNCHANGED <<pos, numberOfElements, memorySize, place, subscribed>>
  BY DEF CleanContext, layoutVars, IInv, SubscriberTypeOK
<1>2. InRange(t)' /\ NotPlaced(t)'
  <2>1. pos'[t] \in RangeBegin(t) .. RangeEnd(t)
    BY <1>1 DEF IInv, ThreadInv, InRange
  <2> QED
    BY <2>1, <1>1, PlacesStay
<1>3. SubscribedIn(t)' = SubscribedIn(t)
  BY <1>0, <1>1 DEF SubscribedIn
<1>4. Subscribing(t)'
  BY <1>0, <1>1, <1>3 DEF IInv, ThreadInv, Subscribing
<1> QED
  BY <1>2, <1>4 DEF ThreadInv

\* A thread's step is within its own range.
LEMMA OthersUntouched ==
    ASSUME RangesAreApart, IInv, NEW t \in Ids, Startup(t) \/ CleanContext(t), NEW u \in Ids, u # t
    PROVE  Untouched(u)
<1>0. SubscriberTypeOK
  BY DEF IInv
<1>1. \A p \in RangeOf(u) : p \in PVs /\ p \notin RangeOf(t)
  <2>1. RangeOf(u) \subseteq PVs
    BY RangeBounds
  <2> QED
    BY <2>1, RangeOfBuffer
<1>2. CASE TakeNumber(t)
  BY <1>0, <1>2 DEF TakeNumber, Untouched, SubscriberTypeOK, layoutVars
<1>3. /\ RangeBegin(t) \in Nat /\ RangeEnd(t) \in Nat
      /\ RangeOf(t) = RangeBegin(t) .. RangeEnd(t) - 1
  BY RangeBounds DEF RangeOf
<1>4. ASSUME NEW stage, stage # "startup", InLoop(t, stage)
      PROVE  pos[t] \in RangeOf(t) /\ \A p \in RangeOf(u) : p # pos[t]
  <2>1. pos[t] \in RangeBegin(t) .. RangeEnd(t) /\ pos[t] < RangeEnd(t)
    BY <1>4 DEF InLoop, IInv, ThreadInv, InRange
  <2>2. pos[t] \in RangeOf(t)
    BY <2>1, <1>3
  <2> QED
    BY <2>2, <1>1
<1>5. CASE FillSize(t)
  <2>1. \A p \in RangeOf(u) : p # pos[t]
    BY <1>4, <1>5 DEF FillSize
  <2>2. PICK e, m : /\ numberOfElements' = [numberOfElements EXCEPT ![pos[t]] = e]
                    /\ memorySize' = [memorySize EXCEPT ![t] = m]
    BY <1>5 DEF FillSize
  <2>3. \A p \in RangeOf(u) : numberOfElements'[p] = numberOfElements[p]
    BY <2>1, <2>2, <1>0, <1>1 DEF SubscriberTypeOK
  <2>4. memorySize'[u] = memorySize[u]
    BY <2>2, <1>0 DEF SubscriberTypeOK
  <2> QED
    BY <2>3, <2>4, <1>0, <1>5 DEF FillSize, Untouched, SubscriberTypeOK
<1>6. CASE Allocate(t)
  BY <1>0, <1>6 DEF Allocate, NextLoop, Untouched, SubscriberTypeOK, layoutVars
<1>7. CASE GivePlace(t)
  <2>1. \A p \in RangeOf(u) : p # pos[t]
    BY <1>4, <1>7 DEF GivePlace
  <2>2. \A p \in RangeOf(u) : place'[p] = place[p]
    BY <2>1, <1>0, <1>1, <1>7 DEF GivePlace, SubscriberTypeOK
  <2> QED
    BY <2>2, <1>0, <1>7 DEF GivePlace, Untouched, SubscriberTypeOK
<1>8. CASE PlacesDone(t)
  BY <1>0, <1>8 DEF PlacesDone, NextLoop, Untouched, SubscriberTypeOK, layoutVars
<1>9. CASE Subscribe(t)
  <2>1. \A p \in RangeOf(u) : p # pos[t]
    BY <1>4, <1>9 DEF Subscribe
  <2>2. \A p \in RangeOf(u) : p \in subscribed' <=> p \in subscribed
    BY <2>1, <1>9 DEF Subscribe
  <2> QED
    BY <2>2, <1>0, <1>9 DEF Subscribe, Untouched, SubscriberTypeOK, layoutVars
<1>10. CASE Remap(t)
  BY <1>0, <1>10 DEF Remap, NextLoop, Untouched, SubscriberTypeOK
<1>11. CASE CleanContext(t)
  BY <1>0, <1>11 DEF CleanContext, Untouched, SubscriberTypeOK, layoutVars
<1> QED
  BY <1>2, <1>5, <1>6, <1>7, <1>8, <1>9, <1>10, <1>11 DEF Startup

\* Steps of the callbacks, the sender and Channel Access.
Outside ==
    \/ \E p \in PVs : Change(p) \/ GetValueCallback(p) \/ GetTimeoutCallback(p)
    \/ Synchronise \/ Stop \/ StopDone \/ UNCHANGED subscriberVars

LEMMA OutsideTouchesNothing ==
    ASSUME Outside
    PROVE  UNCHANGED <<threadVars, layoutVars, subscribed, initialisationDone>>
  BY DEF Outside, Change, GetValueCallback, GetTimeoutCallback, Synchronise, Stop, StopDone, subscriberVars

LEMMA NextThreads ==
    ASSUME RangesAreApart, IInv, [SubscriberNext]_subscriberVars, NEW u \in Ids
    PROVE  ThreadInv(u)'
<1>0. ThreadInv(u)
  BY DEF IInv
<1>1. ASSUME NEW t \in Ids, Startup(t) \/ CleanContext(t) PROVE ThreadInv(u)'
  <2>1. CASE u # t
    BY <1>0, <1>1, <2>1, OthersUntouched, Frame
  <2>2. CASE u = t
    BY <1>1, <2>2, TakeNumberKeeps, FillSizeKeeps, AllocateKeeps, PlaceKeeps,
       PlacesDoneKeeps, SubscribeKeeps, RemapKeeps, CleanContextKeeps DEF Startup
  <2> QED
    BY <2>1, <2>2
<1>2. CASE Outside
  <2>1. Untouched(u)
    BY <1>2, OutsideTouchesNothing DEF Untouched, threadVars, layoutVars
  <2> QED
    BY <1>0, <2>1, Frame
<1> QED
  BY <1>1, <1>2 DEF SubscriberNext, Outside

-----------------------------------------------------------------------------
(* The count of finished threads and the remap.                            *)

\* A thread that has not finished keeps the count below the number of threads.
LEMMA NotDoneYet ==
    ASSUME IInv, NEW t \in Ids, tpc[t] \notin {"main", "ended"}
    PROVE  ~InitialisationDone /\ initialisationDone \in Nat
<1>1. Finished # Ids
  BY DEF Finished
<1> QED
  BY <1>1, DoneMeansAll DEF IInv, SubscriberTypeOK

LEMMA NextFinished ==
    ASSUME IInv, [SubscriberNext]_subscriberVars
    PROVE  initialisationDone' = Cardinality(Finished)'
<1>0. SubscriberTypeOK /\ initialisationDone = Cardinality(Finished)
  BY DEF IInv
<1>1. ASSUME NEW t \in Ids,
             TakeNumber(t) \/ FillSize(t) \/ Allocate(t) \/ GivePlace(t) \/ PlacesDone(t)
                 \/ Subscribe(t) \/ CleanContext(t)
      PROVE  initialisationDone' = initialisationDone /\ Finished' = Finished
  <2>1. /\ initialisationDone' = initialisationDone
        /\ \A u \in Ids \ {t} : tpc'[u] = tpc[u]
        /\ tpc'[t] \in {"main", "ended"} <=> tpc[t] \in {"main", "ended"}
    BY <1>0, <1>1 DEF TakeNumber, FillSize, Allocate, GivePlace, PlacesDone, Subscribe,
       CleanContext, NextLoop, InLoop, SubscriberTypeOK
  <2> QED
    BY <2>1 DEF Finished
<1>2. ASSUME NEW t \in Ids, Remap(t)
      PROVE  initialisationDone' = Cardinality(Finished)'
  <2>1. t \notin Finished /\ Finished' = Finished \cup {t}
    BY <1>0, <1>2 DEF Remap, NextLoop, Finished, SubscriberTypeOK
  <2>2. IsFiniteSet(Finished)
    BY AllFinished DEF Finished
  <2>3. Cardinality(Finished \cup {t}) = Cardinality(Finished) + 1
    BY <2>1, <2>2, FS_AddElement
  <2>4. initialisationDone' = initialisationDone + 1
    BY <1>2 DEF Remap
  <2> QED
    BY <2>1, <2>3, <2>4, <1>0
<1>3. CASE Outside
  <2>1. UNCHANGED <<tpc, initialisationDone>>
    BY <1>3, OutsideTouchesNothing DEF threadVars
  <2> QED
    BY <2>1, <1>0 DEF Finished
<1> QED
  BY <1>0, <1>1, <1>2, <1>3 DEF SubscriberNext, Outside, Startup

LEMMA NextOffset ==
    ASSUME RangesAreApart, IInv, [SubscriberNext]_subscriberVars
    PROVE  OffsetInv'
<1>0. SubscriberTypeOK /\ OffsetInv /\ \A t \in Ids : ThreadInv(t)
  BY DEF IInv
<1>1. \A p \in PVs : BufferOf(p)' = BufferOf(p)
  BY DEF BufferOf
<1>2. ASSUME UNCHANGED <<place, offset, initialisationDone>>,
             InitialisationDone => UNCHANGED memorySize
      PROVE  OffsetInv'
  <2>1. InitialisationDone' = InitialisationDone
    BY <1>2 DEF InitialisationDone
  <2>2. InitialisationDone => Base' = Base
    BY <1>2 DEF Base
  <2> QED
    BY <1>0, <1>1, <1>2, <2>1, <2>2 DEF OffsetInv
<1>3. ASSUME NEW t \in Ids, TakeNumber(t) \/ Allocate(t) \/ PlacesDone(t)
                                \/ Subscribe(t) \/ CleanContext(t)
      PROVE  OffsetInv'
  BY <1>2, <1>3 DEF TakeNumber, Allocate, PlacesDone, Subscribe, CleanContext, layoutVars
<1>4. ASSUME NEW t \in Ids, FillSize(t) PROVE OffsetInv'
  <2>1. ~InitialisationDone
    BY <1>4, NotDoneYet DEF FillSize, InLoop
  <2> QED
    BY <1>2, <1>4, <2>1 DEF FillSize
<1>5. ASSUME NEW t \in Ids, GivePlace(t) PROVE OffsetInv'
  <2>1. ~InitialisationDone
    BY <1>5, NotDoneYet DEF GivePlace, InLoop
  <2>2. ~InitialisationDone'
    BY <1>5, <2>1 DEF GivePlace, InitialisationDone
  <2>3. /\ place' = [place EXCEPT ![pos[t]] = [buffer |-> t, at |-> memoryOffset[t]]]
        /\ offset' = [offset EXCEPT ![pos[t]] = memoryOffset[t]]
    BY <1>5 DEF GivePlace
  <2>4. ASSUME NEW p \in PVs, place'[p].buffer # NoThread
        PROVE  offset'[p] = place'[p].at
    <3>1. CASE p = pos[t]
      BY <1>0, <2>3, <3>1 DEF SubscriberTypeOK
    <3>2. CASE p # pos[t]
      <4>1. place'[p] = place[p] /\ offset'[p] = offset[p]
        BY <1>0, <2>3, <3>2 DEF SubscriberTypeOK
      <4> QED
        BY <4>1, <1>0, <2>1, <2>4 DEF OffsetInv
    <3> QED
      BY <3>1, <3>2
  <2> QED
    BY <2>2, <2>4 DEF OffsetInv
<1>6. ASSUME NEW t \in Ids, Remap(t) PROVE OffsetInv'
  <2>1. /\ tpc[t] = "subscribe" /\ tpc'[t] = "main"
        /\ \A u \in Ids \ {t} : tpc'[u] = tpc[u]
        /\ initialisationDone' = initialisationDone + 1
        /\ UNCHANGED <<place, memorySize>>
        /\ offset' = IF ImTheLastOne THEN [p \in PVs |-> offset[p] + Base[BufferOf(p)]]
                     ELSE offset
    BY <1>0, <1>6 DEF Remap, NextLoop, SubscriberTypeOK
  <2>2. ~InitialisationDone /\ initialisationDone \in Nat
    BY <2>1, NotDoneYet
  <2>3. InitialisationDone' <=> ImTheLastOne
    <3>1. numberOfPoolThreads \in Nat
      OBVIOUS
    <3> QED
      BY <2>1, <2>2, <3>1 DEF InitialisationDone, ImTheLastOne
  <2>4. CASE ~ImTheLastOne
    BY <1>0, <2>1, <2>2, <2>3, <2>4 DEF OffsetInv
  <2>5. CASE ImTheLastOne
    <3>1. \A u \in Ids \ {t} : tpc[u] \in {"main", "ended"}
      <4>1. Finished' \in SUBSET Ids /\ Cardinality(Finished') = initialisationDone'
        BY NextFinished, <1>6 DEF Finished, SubscriberNext, Startup
      <4>2. Finished' = Ids
        BY <4>1, <2>3, <2>5, AllFinished DEF InitialisationDone
      <4> QED
        BY <4>2, <2>1 DEF Finished
    <3>2. ASSUME NEW p \in PVs PROVE offset[p] = place[p].at
      <4> DEFINE u == BufferOf(p)
      <4>1. /\ u \in Ids /\ p \in RangeOf(u)
            /\ p \in PlacedIn(u) => place[p].buffer # NoThread
        BY <1>0, PlacedPv
      <4> HIDE DEF u
      <4>2. tpc[u] \in {"subscribe", "main", "ended"}
        BY <2>1, <3>1, <4>1
      <4>3. p \in PlacedIn(u)
        BY <4>1, <4>2 DEF PlacedIn
      <4> QED
        BY <4>1, <4>3, <1>0, <2>2 DEF OffsetInv
    <3>3. ASSUME NEW p \in PVs
          PROVE  offset'[p] = Base'[BufferOf(p)'] + place'[p].at
      <4>1. Base' = Base /\ place'[p] = place[p]
        BY <2>1 DEF Base
      <4>2. BufferOf(p) \in 0 .. numberOfPoolThreads
        BY RangeOfBuffer DEF Ids
      <4>3. Base[BufferOf(p)] \in Nat
        BY <1>0, <4>2, BaseSums DEF SubscriberTypeOK
      <4>4. place[p].at \in Nat
        BY <1>0 DEF SubscriberTypeOK
      <4>5. offset'[p] = place[p].at + Base[BufferOf(p)]
        BY <2>1, <2>5, <3>2
      <4> HIDE DEF Base
      <4> QED
        BY <4>1, <4>3, <4>4, <4>5, <1>1
    <3> QED
      BY <3>3, <2>3, <2>5 DEF OffsetInv
  <2> QED
    BY <2>4, <2>5
<1>7. CASE Outside
  BY <1>2, <1>7, OutsideTouchesNothing DEF layoutVars
<1> QED
  BY <1>3, <1>4, <1>5, <1>6, <1>7 DEF SubscriberNext, Outside, Startup

-----------------------------------------------------------------------------
(* The flags.                                                              *)

LEMMA NextSeen ==
    ASSUME IInv, [SubscriberNext]_subscriberVars
    PROVE  SeenBySubscription'
<1>0. SubscriberTypeOK /\ SeenBySubscription
  BY DEF IInv
<1>1. ASSUME NEW t \in Ids, Startup(t) \/ CleanContext(t) PROVE SeenBySubscription'
  <2>1. valueSeen' = valueSeen /\ subscribed \subseteq subscribed'
    BY <1>1 DEF Startup, TakeNumber, FillSize, Allocate, GivePlace, PlacesDone, Subscribe,
       Remap, CleanContext, caVars
  <2> QED
    BY <2>1, <1>0 DEF SeenBySubscription
<1>2. ASSUME NEW p \in PVs, GetValueCallback(p) PROVE SeenBySubscription'
  <2>1. p \in subscribed /\ subscribed' = subscribed
        /\ \A q \in PVs \ {p} : valueSeen'[q] = valueSeen[q]
    BY <1>0, <1>2 DEF GetValueCallback, SubscriberTypeOK
  <2> QED
    BY <2>1, <1>0 DEF SeenBySubscription
<1>3. ASSUME NEW p \in PVs, Change(p) \/ GetTimeoutCallback(p)
      PROVE  SeenBySubscription'
  BY <1>0, <1>3 DEF Change, GetTimeoutCallback, SeenBySubscription
<1>4. CASE Synchronise \/ Stop \/ StopDone \/ UNCHANGED subscriberVars
  BY <1>0, <1>4 DEF Synchronise, Stop, StopDone, subscriberVars, caVars, SeenBySubscription
<1> QED
  BY <1>1, <1>2, <1>3, <1>4 DEF SubscriberNext

\* Only Subscribe writes a value without a flag, and before the subscription.
LEMMA NextFlagged ==
    ASSUME RangesAreApart, IInv, [SubscriberNext]_subscriberVars
    PROVE  ChangesAreFlagged'
<1>0. SubscriberTypeOK /\ ChangesAreFlagged /\ SeenBySubscription
  BY DEF IInv
<1>1. ASSUME NEW t \in Ids, Subscribe(t) PROVE ChangesAreFlagged'
  <2>1. /\ pos[t] \in RangeOf(t) /\ RangeOf(t) \subseteq PVs /\ pos[t] \in Nat
    <3>1. /\ RangeBegin(t) \in Nat /\ RangeEnd(t) \in Nat /\ RangeOf(t) \subseteq PVs
          /\ RangeOf(t) = RangeBegin(t) .. RangeEnd(t) - 1
      BY RangeBounds DEF RangeOf
    <3>2. tpc[t] = "subscribe" /\ pos[t] < RangeEnd(t) /\ pos[t] \in RangeBegin(t) .. RangeEnd(t)
      BY <1>1 DEF Subscribe, InLoop, IInv, ThreadInv, InRange
    <3> QED
      BY <3>1, <3>2
  <2>2. pos[t] \notin subscribed
    <3>1. pos[t] \notin SubscribedIn(t)
      BY <1>1, <2>1 DEF Subscribe, InLoop, SubscribedIn
    <3> QED
      BY <2>1, <3>1 DEF IInv, ThreadInv, Subscribing
  <2>3. valueSeen[pos[t]] = 0
    BY <1>0, <2>1, <2>2 DEF SeenBySubscription
  <2>4. \A p \in PVs \ {pos[t]} : pvMemory'[p] = pvMemory[p]
    <3>1. \/ pvMemory' = pvMemory
          \/ \E got \in {pvMemory[pos[t]].value, source[pos[t]]} :
                 pvMemory' = [pvMemory EXCEPT ![pos[t]].value = got]
      BY <1>1 DEF Subscribe
    <3>2. \/ pvMemory' = pvMemory
          \/ \E new : pvMemory' = [pvMemory EXCEPT ![pos[t]] = new]
      BY <3>1
    <3> QED
      BY <3>2, <1>0 DEF SubscriberTypeOK
  <2>5. UNCHANGED <<copy, changedFlagMem, valueSeen>>
    BY <1>1 DEF Subscribe, caVars
  <2> QED
    BY <2>3, <2>4, <2>5, <1>0 DEF ChangesAreFlagged
<1>2. ASSUME UNCHANGED <<pvMemory, copy, changedFlagMem, valueSeen>> PROVE ChangesAreFlagged'
  BY <1>0, <1>2 DEF ChangesAreFlagged
<1>3. ASSUME NEW t \in Ids, Startup(t) \/ CleanContext(t) PROVE ChangesAreFlagged'
  BY <1>1, <1>2, <1>3 DEF Startup, TakeNumber, FillSize, Allocate, GivePlace, PlacesDone,
     Remap, CleanContext, caVars
<1>4. ASSUME NEW p \in PVs, GetValueCallback(p) PROVE ChangesAreFlagged'
  <2>1. /\ \A q \in PVs \ {p} : pvMemory'[q] = pvMemory[q] /\ valueSeen'[q] = valueSeen[q]
        /\ changedFlagMem' = changedFlagMem \cup {p} /\ copy' = copy
    BY <1>0, <1>4 DEF GetValueCallback, RaiseFlag, SubscriberTypeOK
  <2> QED
    BY <2>1, <1>0 DEF ChangesAreFlagged
<1>5. ASSUME NEW p \in PVs, GetTimeoutCallback(p) PROVE ChangesAreFlagged'
  <2>1. UNCHANGED <<copy, changedFlagMem, valueSeen>>
    BY <1>5 DEF GetTimeoutCallback
  <2>2. PICK change \in stampSeen[p] + 1 .. source[p] :
           pvMemory' = [pvMemory EXCEPT ![p].stamp = change]
    BY <1>5 DEF GetTimeoutCallback
  <2>3. \A q \in PVs : pvMemory'[q].value = pvMemory[q].value
    BY <2>2, <1>0 DEF SubscriberTypeOK
  <2> QED
    BY <2>1, <2>3, <1>0 DEF ChangesAreFlagged
<1>6. CASE Synchronise
  BY <1>6 DEF Synchronise, CopyBuffers, ChangesAreFlagged
<1>7. ASSUME (\E p \in PVs : Change(p)) \/ Stop \/ StopDone \/ UNCHANGED subscriberVars
      PROVE  ChangesAreFlagged'
  BY <1>2, <1>7 DEF Change, Stop, StopDone, subscriberVars, caVars
<1> QED
  BY <1>3, <1>4, <1>5, <1>6, <1>7 DEF SubscriberNext

-----------------------------------------------------------------------------
(* The theorems.                                                           *)

LEMMA InitInv ==
    ASSUME RangesAreApart
    PROVE  SubscriberInit => IInv
<1> SUFFICES ASSUME SubscriberInit PROVE IInv
  OBVIOUS
<1>1. SubscriberTypeOK
  BY InitType
<1>2. ASSUME NEW t \in Ids PROVE ThreadInv(t)
  <2>1. tpc[t] = "startup" /\ PlacedIn(t) = {} /\ SubscribedIn(t) = {}
    BY DEF SubscriberInit, PlacedIn, SubscribedIn
  <2>2. RangeOf(t) \subseteq PVs
    BY RangeBounds
  <2>3. \A p \in RangeOf(t) : place[p].buffer = NoThread /\ p \notin subscribed
    BY <2>2 DEF SubscriberInit
  <2> QED
    BY <2>1, <2>3 DEF ThreadInv, InRange, NotPlaced, Subscribing
<1>3. initialisationDone = 0 /\ Finished = {}
  BY DEF SubscriberInit, Finished
<1>4. Cardinality(Finished) = 0
  BY <1>3, FS_EmptySet
<1>5. OffsetInv
  <2>1. ~InitialisationDone
    BY <1>3 DEF InitialisationDone
  <2>2. \A p \in PVs : place[p].buffer = NoThread
    BY DEF SubscriberInit
  <2> QED
    BY <2>1, <2>2 DEF OffsetInv
<1>6. SeenBySubscription /\ ChangesAreFlagged
  BY DEF SubscriberInit, SeenBySubscription, ChangesAreFlagged
<1> QED
  BY <1>1, <1>2, <1>3, <1>4, <1>5, <1>6 DEF IInv

LEMMA NextInv ==
    ASSUME RangesAreApart
    PROVE  IInv /\ [SubscriberNext]_subscriberVars => IInv'
<1> SUFFICES ASSUME IInv, [SubscriberNext]_subscriberVars PROVE IInv'
  OBVIOUS
<1>1. SubscriberTypeOK'
  BY NextType
<1>2. \A t \in Ids : ThreadInv(t)'
  BY NextThreads
<1>3. (initialisationDone = Cardinality(Finished))'
  BY NextFinished
<1>4. OffsetInv' /\ SeenBySubscription' /\ ChangesAreFlagged'
  BY NextOffset, NextSeen, NextFlagged
<1> QED
  BY <1>1, <1>2, <1>3, <1>4 DEF IInv

LEMMA Invariance ==
    ASSUME RangesAreApart
    PROVE  SubscriberSpec => []IInv
  BY InitInv, NextInv, PTL DEF SubscriberSpec

\* Where the ranges are apart: the offsets stay within Nat, the count of threads
\* within their number, and no loop leaves the list (FillMemorySizes, Execute).
THEOREM TypeCorrect ==
    ASSUME RangesAreApart
    PROVE  SubscriberSpec => []SubscriberTypeOK
<1>1. IInv => SubscriberTypeOK
  BY DEF IInv
<1> QED
  BY <1>1, Invariance, PTL

\* If the configuration keeps the ranges apart, the places of the PVs never
\* overlap and lie within the buffers that the first loop has measured; once the
\* last thread has remapped them, the offsets find them in the copy of
\* Synchronise, and no PV is left out (FillMemorySizes, CreateSubscriptions and
\* the remap of Execute).
THEOREM PlacesAreRight == SubscriberSpec => []EachPvHasItsPlace
<1>1. CASE RangesAreApart
  BY <1>1, InvPlaces, Invariance, PTL
<1>2. CASE ~RangesAreApart
  <2>1. EachPvHasItsPlace
    BY <1>2 DEF EachPvHasItsPlace
  <2> QED
    BY <2>1, PTL
<1> QED
  BY <1>1, <1>2

\* Where the ranges are apart, the value a callback leaves is flagged until the
\* sender has copied it (GetValueCallback, Synchronise).
THEOREM FlagsAreComplete ==
    ASSUME RangesAreApart
    PROVE  SubscriberSpec => []ChangesAreFlagged
<1>1. IInv => ChangesAreFlagged
  BY DEF IInv
<1> QED
  BY <1>1, Invariance, PTL

\* A buffer ends before the next ones begin.
LEMMA BuffersApart ==
    ASSUME memorySize \in [Ids -> Nat], NEW j \in Ids, NEW k \in Ids, j < k
    PROVE  Base[j] + memorySize[j] <= Base[k]
<1> DEFINE Before(i) == Base[j] + memorySize[j] <= Base[i]
           Wrong == {i \in Ids : j < i /\ ~Before(i)}
<1>0. j \in Nat /\ Ids \subseteq Nat /\ \A i \in Ids : i <= numberOfPoolThreads - 1
  BY DEF Ids
<1>1. \A i \in Ids : /\ Base[i] \in Nat /\ memorySize[i] \in Nat
                     /\ Base[i + 1] = Base[i] + memorySize[i]
  <2>1. \A i \in Ids : i \in 0 .. numberOfPoolThreads
    BY DEF Ids
  <2>2. Base \in [0 .. numberOfPoolThreads -> Nat]
    BY BaseSums
  <2>3. \A i \in Ids : Base[i + 1] = Base[i] + memorySize[i]
    BY BaseSums
  <2> HIDE DEF Before, Wrong
  <2> QED
    BY <2>1, <2>2, <2>3
<1> HIDE DEF Before
<1>2. Wrong = {}
  <2> SUFFICES ASSUME Wrong # {} PROVE FALSE
    OBVIOUS
  <2>1. PICK i \in Wrong : \A h \in Wrong : i <= h
    <3>1. Wrong \in SUBSET Nat
      BY <1>0
    <3> QED
      BY <3>1, Minimum
  <2>2. i \in Ids /\ i \in Nat /\ j < i /\ ~Before(i)
    BY <1>0
  <2>3. i - 1 \in Ids /\ (i - 1) + 1 = i /\ i - 1 < i
    BY <2>2, <1>0 DEF Ids
  <2>4. Base[i] = Base[i - 1] + memorySize[i - 1]
    BY <1>1, <2>3
  <2>5. CASE i - 1 = j
    BY <2>2, <2>4, <2>5, <1>1 DEF Before
  <2>6. CASE i - 1 # j
    <3>1. j < i - 1 /\ i - 1 \notin Wrong
      BY <2>1, <2>2, <2>3, <2>6, <1>0
    <3>2. Base[j] + memorySize[j] <= Base[i - 1]
      BY <3>1, <2>3 DEF Before
    <3> QED
      BY <3>2, <2>2, <2>3, <2>4, <1>1 DEF Before
  <2> QED
    BY <2>5, <2>6
<1> QED
  BY <1>2 DEF Before

\* What the sender copies holds the bytes of each PV apart from the others'.
CopyIsApart ==
    InitialisationDone =>
        \A p, q \in LaidOut :
            p # q => offset[p] + Size(p) <= offset[q] \/ offset[q] + Size(q) <= offset[p]

\* If the configuration keeps the ranges apart, no two PVs share bytes of the
\* memory that Synchronise copies, those of two threads as little as those of one
\* (the remap of Execute).
THEOREM CopiesNeverOverlap ==
    ASSUME RangesAreApart
    PROVE  SubscriberSpec => []CopyIsApart
<1>1. SubscriberTypeOK /\ EachPvHasItsPlace => CopyIsApart
  <2> SUFFICES ASSUME SubscriberTypeOK, EachPvHasItsPlace, InitialisationDone,
                      NEW p \in LaidOut, NEW q \in LaidOut, p # q
               PROVE  offset[p] + Size(p) <= offset[q] \/ offset[q] + Size(q) <= offset[p]
    BY DEF CopyIsApart
  <2> DEFINE j == place[p].buffer
             k == place[q].buffer
  <2>1. /\ p \in PVs /\ q \in PVs /\ p \in Nat /\ q \in Nat
        /\ j \in Ids /\ k \in Ids /\ j \in Nat /\ k \in Nat
        /\ place[p].at \in Nat /\ place[q].at \in Nat
        /\ Size(p) \in Nat /\ Size(q) \in Nat
    <3>1. /\ p \in PVs /\ q \in PVs
          /\ place[p].buffer # NoThread /\ place[q].buffer # NoThread
      BY DEF LaidOut
    <3>2. /\ place[p] \in [buffer : Ids \cup {NoThread}, at : Nat]
          /\ place[q] \in [buffer : Ids \cup {NoThread}, at : Nat]
          /\ numberOfElements[p] \in Nat /\ numberOfElements[q] \in Nat
      BY <3>1 DEF SubscriberTypeOK
    <3>3. /\ j \in Ids /\ k \in Ids /\ Ids \subseteq Nat /\ PVs \subseteq Nat
          /\ place[p].at \in Nat /\ place[q].at \in Nat
      BY <3>1, <3>2 DEF Ids, PVs
    <3>4. Size(p) \in Nat /\ Size(q) \in Nat
      BY <3>2 DEF Size
    <3> QED
      BY <3>1, <3>3, <3>4
  <2>2. /\ offset[p] = Base[j] + place[p].at /\ offset[q] = Base[k] + place[q].at
        /\ place[p].at + Size(p) <= memorySize[j] /\ place[q].at + Size(q) <= memorySize[k]
    BY DEF EachPvHasItsPlace, OffsetsFindThePvs, PlacesAreApart
  <2>3. /\ j = k /\ p < q => place[p].at + Size(p) <= place[q].at
        /\ j = k /\ q < p => place[q].at + Size(q) <= place[p].at
    BY DEF EachPvHasItsPlace, PlacesAreApart
  <2>4. /\ Base[j] \in Nat /\ Base[k] \in Nat
        /\ memorySize[j] \in Nat /\ memorySize[k] \in Nat
    <3>1. j \in 0 .. numberOfPoolThreads /\ k \in 0 .. numberOfPoolThreads
      BY <2>1 DEF Ids
    <3>2. Base \in [0 .. numberOfPoolThreads -> Nat] /\ memorySize \in [Ids -> Nat]
      BY BaseSums DEF SubscriberTypeOK
    <3> QED
      BY <3>1, <3>2, <2>1
  <2>5. /\ j < k => Base[j] + memorySize[j] <= Base[k]
        /\ k < j => Base[k] + memorySize[k] <= Base[j]
    BY <2>1, BuffersApart DEF SubscriberTypeOK
  <2> HIDE DEF j, k
  <2>6. CASE j = k
    BY <2>6, <2>1, <2>2, <2>3, <2>4
  <2>7. CASE j # k
    BY <2>7, <2>1, <2>2, <2>4, <2>5
  <2> QED
    BY <2>6, <2>7
<1> QED
  BY <1>1, TypeCorrect, PlacesAreRight, PTL

=============================================================================
