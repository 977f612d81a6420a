------------------------- MODULE SenderQueueProofs --------------------------
(***************************************************************************)
(* Theorems about the window and what is sent of it: SenderQueue, for every *)
(* queue, pool and size of PVs, and SenderSlice, one call that sends one of *)
(* its slices, for every slice, every size and every maximal fragment.     *)
(***************************************************************************)
EXTENDS SenderQueue, SenderSlice, SequenceTheorems, TLAPS

USE QueueAssumption

LEMMA WindowSize == maxSignalPerThread \in Nat
  BY DEF maxSignalPerThread

\* A position is a position of the queue.
LEMMA PositionType ==
    ASSUME currentIdx \in PVs, NEW n \in Nat
    PROVE  Position(n) \in PVs
  BY DEF Position, PVs

\* Positions are offsets from the front, turned around once.
LEMMA PositionValue ==
    ASSUME currentIdx \in PVs, NEW n \in 0 .. NumberOfVariables
    PROVE  Position(n) = IF currentIdx + n < NumberOfVariables
                         THEN currentIdx + n ELSE currentIdx + n - NumberOfVariables
  BY DEF Position, PVs

-----------------------------------------------------------------------------
(* Type correctness.                                                       *)

LEMMA InitTypeOK == Init => TypeOK
  BY WindowSize DEF Init, TypeOK, PVs

LEMMA SwapType ==
    ASSUME NEW list \in [PVs -> PVs], NEW p \in PVs, NEW q \in PVs
    PROVE  Swap(list, p, q) \in [PVs -> PVs]
  BY DEF Swap

LEMMA BeforeType ==
    ASSUME NEW at \in PVs
    PROVE  (IF at = 0 THEN NumberOfVariables - 1 ELSE at - 1) \in PVs
  BY DEF PVs

LEMMA MainTypeOK == TypeOK /\ MainStep => TypeOK'
<1> SUFFICES ASSUME TypeOK, MainStep PROVE TypeOK'
  OBVIOUS
<1> USE DEF TypeOK, loopVars, queueVars, flagVars, poolVars
<1>0. PVs \subseteq Nat /\ \A n \in Nat : Position(n) \in PVs
  BY PositionType DEF PVs
<1>0a. CASE ReadCounters
  BY <1>0a DEF ReadCounters
<1>1. CASE Synchronise
  <2>1. chunckCounter + 1 \in Nat /\ PVs \subseteq PVs /\ maxSignalPerThread \in Nat
    BY WindowSize
  <2>2. nVariables' \in Nat /\ chunckCounter' \in Nat /\ pc' \in {"sort", "cut"}
    <3>1. CASE chunkCounterRead >= numberOfChunks
      BY <1>1, <3>1 DEF Synchronise
    <3>2. CASE ~(chunkCounterRead >= numberOfChunks)
      BY <1>1, <2>1, <3>2 DEF Synchronise
    <3> QED
      BY <3>1, <3>2
  <2>3. carried' \subseteq PVs
    <3>1. ASSUME NEW o \in 0 .. currentChangePos - 1
          PROVE  indexList[Position(o)] \in PVs
      <4>1. o \in Nat
        OBVIOUS
      <4>2. Position(o) \in PVs
        BY <1>0, <4>1
      <4> QED
        BY <4>2
    <3>2. FirstPVs(currentChangePos) \subseteq PVs
      BY <3>1 DEF FirstPVs
    <3> QED
      BY <1>1, <3>2 DEF Synchronise
  <2>4. sourceFlag' = {} /\ changeFlag' = sourceFlag /\ inMemory' = PVs
    BY <1>1 DEF Synchronise
  <2> QED
    BY <1>1, <2>1, <2>2, <2>3, <2>4 DEF Synchronise
<1>2. CASE Examine
  <2>1. Position(i) \in PVs /\ Position(currentChangePos) \in PVs
    BY <1>0
  <2>2. PvSize[Position(i)] \in Nat
    BY <2>1
  <2>3. Swap(indexList, Position(currentChangePos), Position(i)) \in [PVs -> PVs]
    BY <2>1, SwapType
  <2>4. /\ indexList' \in [PVs -> PVs] /\ sortSize' \in Nat
        /\ nVariables' \in Nat /\ i' \in Nat /\ j' \in Nat
        /\ pc' \in {"sort", "bubble"}
    BY <1>2, <2>2, <2>3 DEF Examine
  <2> QED
    BY <1>2, <2>4 DEF Examine
<1>3. CASE Bubble
  <2>1. Position(j) \in PVs
    BY <1>0
  <2> DEFINE before == IF Position(j) = 0 THEN NumberOfVariables - 1
                       ELSE Position(j) - 1
  <2>2. Swap(indexList, before, Position(j)) \in [PVs -> PVs]
    BY <2>1, SwapType, BeforeType
  <2>3. indexList' \in [PVs -> PVs] /\ j' \in Nat
    BY <1>3, <2>2 DEF Bubble
  <2> QED
    BY <1>3, <2>3 DEF Bubble
<1>4. CASE Inserted
  BY <1>4 DEF Inserted
<1>5. CASE Sorted
  BY <1>5 DEF Sorted
<1>6. ASSUME NEW n \in 0 .. maxSignalPerThread, Cut(n)
      PROVE  TypeOK'
  BY <1>6, WindowSize DEF Cut, Left
<1>7. CASE Publish
  <2>0. nVariables \in 0 .. maxSignalPerThread
    BY <1>7, WindowSize DEF Publish
  <2>1. Position(nVariables) \in PVs
    BY <1>0
  <2>2. \A n \in 1 .. nVariables : indexList[Position(n - 1)] \in PVs
    <3> SUFFICES ASSUME NEW n \in 1 .. nVariables
                 PROVE  indexList[Position(n - 1)] \in PVs
      OBVIOUS
    <3>1. n - 1 \in Nat
      BY WindowSize
    <3>2. Position(n - 1) \in PVs
      BY <3>1, <1>0
    <3> QED
      BY <3>2
  <2>3. [n \in 1 .. nVariables |-> indexList[Position(n - 1)]] \in Seq(PVs)
    BY <2>2, WindowSize
  <2>4. 0 \in 0 .. maxSignalPerThread
    BY WindowSize
  <2> QED
    BY <1>7, <2>0, <2>1, <2>3, <2>4 DEF Publish, NextFront
<1> QED
  BY <1>0a, <1>1, <1>2, <1>3, <1>4, <1>5, <1>6, <1>7 DEF MainStep

LEMMA ShareType == ASSUME TypeOK, NEW t \in Pool PROVE Share(t) \in Nat
<1> DEFINE n == numberOfChangedVariables
<1>1. n \in Nat
  BY WindowSize DEF TypeOK
<1>2. n \div NumberOfPoolThreads \in Nat /\ n % NumberOfPoolThreads \in Nat
  BY <1>1
<1> QED
  BY <1>2 DEF Share

LEMMA PoolTypeOK ==
    ASSUME TypeOK, NEW t \in Pool, PoolStep(t)
    PROVE  TypeOK'
<1> USE DEF TypeOK, loopVars, queueVars, flagVars, poolVars
<1>1. SubSeq(window, Share(t) + 1, Len(window)) \in Seq(PVs)
  BY ShareType, SubSeqProperties
<1>2. CASE SliceSent(t)
  BY <1>1, <1>2 DEF SliceSent, Take
<1>3. ASSUME NEW n \in 0 .. Share(t), SliceFails(t, n)
      PROVE  TypeOK'
  BY <1>1, <1>3 DEF SliceFails, Take
<1>4. CASE Reconnect(t)
  BY <1>4 DEF Reconnect
<1> QED
  BY <1>2, <1>3, <1>4 DEF PoolStep

\* Every variable keeps its type, for every queue and pool.
THEOREM TypeCorrect == Spec => []TypeOK
<1>1. TypeOK /\ [Next]_vars => TypeOK'
  <2> SUFFICES ASSUME TypeOK, [Next]_vars PROVE TypeOK'
    OBVIOUS
  <2>1. CASE MainStep
    BY <2>1, MainTypeOK
  <2>2. CASE \E t \in Pool : PoolStep(t)
    BY <2>2, PoolTypeOK
  <2>3. ASSUME NEW pv \in PVs, Change(pv)
        PROVE  TypeOK'
    BY <2>3 DEF Change, TypeOK, loopVars, queueVars, poolVars
  <2>4. CASE UNCHANGED vars
    BY <2>4 DEF TypeOK, vars, loopVars, queueVars, flagVars, poolVars
  <2> QED
    BY <2>1, <2>2, <2>3, <2>4 DEF Next
<1> QED
  BY InitTypeOK, <1>1, PTL DEF Spec

-----------------------------------------------------------------------------
(* The queue stays a permutation of the PVs.                               *)

LEMMA SwapKeepsPermutation ==
    ASSUME NEW list \in [PVs -> PVs], NEW a \in PVs, NEW b \in PVs,
           \A p, q \in PVs : list[p] = list[q] => p = q,
           NEW p \in PVs, NEW q \in PVs,
           Swap(list, a, b)[p] = Swap(list, a, b)[q]
    PROVE  p = q
  BY DEF Swap

LEMMA PermutationStep ==
    TypeOK /\ QueueIsPermutation /\ [Next]_vars => QueueIsPermutation'
<1> SUFFICES ASSUME TypeOK, QueueIsPermutation, [Next]_vars
             PROVE  QueueIsPermutation'
  OBVIOUS
<1>0. PVs \subseteq Nat /\ \A n \in Nat : Position(n) \in PVs
  BY PositionType DEF PVs, TypeOK
<1>1. CASE indexList' = indexList
  BY <1>1 DEF QueueIsPermutation
<1>2. ASSUME NEW a \in PVs, NEW b \in PVs, indexList' = Swap(indexList, a, b)
      PROVE  QueueIsPermutation'
  <2>1. indexList \in [PVs -> PVs] /\ \A p, q \in PVs : indexList[p] = indexList[q] => p = q
    BY DEF TypeOK, QueueIsPermutation
  <2> SUFFICES ASSUME NEW p \in PVs, NEW q \in PVs, indexList'[p] = indexList'[q]
               PROVE  p = q
    BY DEF QueueIsPermutation, PVs
  <2> QED
    BY <1>2, <2>1, SwapKeepsPermutation
<1>3. CASE Examine
  <2>1. Position(i) \in PVs /\ Position(currentChangePos) \in PVs
    BY <1>0 DEF TypeOK
  <2>2. \/ indexList' = Swap(indexList, Position(currentChangePos), Position(i))
        \/ indexList' = indexList
    BY <1>3 DEF Examine
  <2> QED
    BY <1>1, <1>2, <2>1, <2>2
<1>4. CASE Bubble
  <2>1. Position(j) \in PVs
    BY <1>0 DEF TypeOK
  <2> DEFINE before == IF Position(j) = 0 THEN NumberOfVariables - 1
                       ELSE Position(j) - 1
  <2>2. indexList' = Swap(indexList, before, Position(j))
    BY <1>4 DEF Bubble
  <2> HIDE DEF before
  <2>3. before \in PVs
    BY <2>1, BeforeType DEF before
  <2> QED
    BY <1>2, <2>1, <2>2, <2>3
<1>5. CASE ReadCounters \/ Synchronise \/ Inserted \/ Sorted \/ Publish
           \/ \E n \in 0 .. maxSignalPerThread : Cut(n)
  BY <1>1, <1>5 DEF ReadCounters, Synchronise, Inserted, Sorted, Cut, Publish, queueVars
<1>6. ASSUME NEW t \in Pool, PoolStep(t)
      PROVE  indexList' = indexList
  BY <1>6 DEF PoolStep, SliceSent, SliceFails, Take, Reconnect, queueVars
<1>7. ASSUME NEW pv \in PVs, Change(pv)
      PROVE  indexList' = indexList
  BY <1>7 DEF Change, queueVars
<1>8. CASE UNCHANGED vars
  BY <1>1, <1>8 DEF vars, queueVars
<1> QED
  BY <1>1, <1>3, <1>4, <1>5, <1>6, <1>7, <1>8 DEF Next, MainStep

\* Every PV stays in the queue, once, whatever is sorted and sent.
THEOREM QueueStaysPermutation == Spec => []QueueIsPermutation
<1>1. Init => QueueIsPermutation
  BY DEF Init, QueueIsPermutation
<1> QED
  BY <1>1, TypeCorrect, PermutationStep, PTL DEF Spec

-----------------------------------------------------------------------------
(* The sort puts the changed PVs first.                                    *)

LEMMA PositionInjective ==
    ASSUME currentIdx \in PVs,
           NEW m \in 0 .. NumberOfVariables - 1, NEW n \in 0 .. NumberOfVariables - 1,
           Position(m) = Position(n)
    PROVE  m = n
<1>1. /\ currentIdx \in 0 .. NumberOfVariables - 1
      /\ m \in 0 .. NumberOfVariables /\ n \in 0 .. NumberOfVariables
  BY DEF PVs
<1> QED
  BY <1>1, PositionValue

LEMMA PositionBefore ==
    ASSUME currentIdx \in PVs, NEW n \in 1 .. NumberOfVariables - 1
    PROVE  (IF Position(n) = 0 THEN NumberOfVariables - 1 ELSE Position(n) - 1)
               = Position(n - 1)
<1>1. /\ currentIdx \in 0 .. NumberOfVariables - 1
      /\ n \in 0 .. NumberOfVariables /\ n - 1 \in 0 .. NumberOfVariables
  BY DEF PVs
<1> QED
  BY <1>1, PositionValue

LEMMA ExamineSorted == TypeOK /\ SortInv /\ Examine => SortInv'
<1> SUFFICES ASSUME TypeOK, SortInv, Examine PROVE SortInv'
  OBVIOUS
<1> DEFINE ccp == currentChangePos
           Flagged(o) == indexList[Position(o)] \in changeFlag
<1>1. /\ currentIdx \in PVs /\ ccp \in Nat /\ i \in Nat /\ i < NumberOfVariables
      /\ indexList \in [PVs -> PVs]
      /\ \A o \in 0 .. NumberOfVariables - 1 : Flagged(o) => o < ccp \/ o >= i
      /\ pc = "sort" /\ currentIdx' = currentIdx /\ changeFlag' = changeFlag
      /\ currentChangePos' = currentChangePos
  BY DEF TypeOK, SortInv, SortedSoFar, Examine, flagVars
<1>2. \A o : Position(o)' = Position(o)
  BY <1>1 DEF Position
<1>3. CASE ~Flagged(i)
  <2>1. i' = i + 1 /\ pc' = "sort" /\ indexList' = indexList
    BY <1>1, <1>3 DEF Examine
  <2> QED
    BY <1>1, <1>2, <1>3, <2>1 DEF SortInv, SortedSoFar
<1>4. CASE Flagged(i)
  <2>1. /\ i' = i /\ pc' = "bubble" /\ j' = ccp
        /\ indexList' = Swap(indexList, Position(ccp), Position(i))
    BY <1>1, <1>4 DEF Examine
  <2> SUFFICES ASSUME NEW o \in 0 .. NumberOfVariables - 1,
                      indexList'[Position(o)] \in changeFlag, ~(o <= ccp), ~(o > i)
               PROVE  FALSE
    BY <1>1, <1>2, <2>1 DEF SortInv, SortedSoFar
  <2>2. ccp \in 0 .. NumberOfVariables - 1 /\ i \in 0 .. NumberOfVariables - 1
    BY <1>1
  <2>3. Position(o) \in PVs /\ Position(ccp) \in PVs /\ Position(i) \in PVs
    BY <1>1, <2>2, PositionType
  <2>4. Position(o) # Position(ccp)
    BY <1>1, <2>2, PositionInjective
  <2>5. CASE o = i
    <3>1. indexList'[Position(o)] = indexList[Position(ccp)]
      BY <1>1, <2>1, <2>3, <2>4, <2>5 DEF Swap
    <3> QED
      BY <1>1, <2>2, <2>5, <3>1
  <2>6. CASE o # i
    <3>1. Position(o) # Position(i)
      BY <1>1, <2>2, <2>6, PositionInjective
    <3>2. indexList'[Position(o)] = indexList[Position(o)]
      BY <1>1, <2>1, <2>3, <2>4, <3>1 DEF Swap
    <3> QED
      BY <1>1, <2>2, <2>6, <3>2
  <2> QED
    BY <2>5, <2>6
<1> QED
  BY <1>3, <1>4

LEMMA BubbleSorted == TypeOK /\ SortInv /\ Bubble => SortInv'
<1> SUFFICES ASSUME TypeOK, SortInv, Bubble PROVE SortInv'
  OBVIOUS
<1> DEFINE ccp == currentChangePos
           before == IF Position(j) = 0 THEN NumberOfVariables - 1
                     ELSE Position(j) - 1
<1>1. /\ currentIdx \in PVs /\ ccp \in Nat /\ i \in Nat /\ j \in Nat
      /\ indexList \in [PVs -> PVs]
      /\ \A o \in 0 .. NumberOfVariables - 1 :
            indexList[Position(o)] \in changeFlag => o <= ccp \/ o > i
      /\ i < NumberOfVariables /\ j <= ccp /\ j > 0
  BY DEF TypeOK, SortInv, SortedSoFar, Bubble
<1>2. /\ pc' = "bubble" /\ i' = i /\ j' = j - 1 /\ currentIdx' = currentIdx
      /\ changeFlag' = changeFlag /\ currentChangePos' = currentChangePos
      /\ indexList' = Swap(indexList, before, Position(j))
  BY DEF Bubble, flagVars
<1>3. \A o : Position(o)' = Position(o)
  BY <1>2 DEF Position
<1> HIDE DEF before
<1> SUFFICES ASSUME NEW o \in 0 .. NumberOfVariables - 1,
                    indexList'[Position(o)] \in changeFlag, ~(o <= ccp), ~(o > i)
             PROVE  FALSE
  BY <1>1, <1>2, <1>3 DEF SortInv, SortedSoFar
<1>4. /\ j \in 0 .. NumberOfVariables - 1 /\ j \in 1 .. NumberOfVariables - 1
      /\ j - 1 \in 0 .. NumberOfVariables - 1 /\ o # j /\ o # j - 1
  BY <1>1
<1>5. before = Position(j - 1)
  BY <1>1, <1>4, PositionBefore DEF before
<1>6. /\ Position(o) # Position(j) /\ Position(o) # Position(j - 1)
      /\ Position(o) \in PVs /\ Position(j) \in PVs /\ Position(j - 1) \in PVs
  BY <1>1, <1>4, PositionInjective, PositionType
<1>7. indexList'[Position(o)] = indexList[Position(o)]
  BY <1>1, <1>2, <1>5, <1>6 DEF Swap
<1> QED
  BY <1>1, <1>7

LEMMA SortStep == TypeOK /\ SortInv /\ [Next]_vars => SortInv'
<1> SUFFICES ASSUME TypeOK, SortInv, [Next]_vars PROVE SortInv'
  OBVIOUS
<1> USE DEF loopVars, queueVars, flagVars, poolVars
<1>1. CASE ReadCounters \/ Synchronise
  BY <1>1 DEF ReadCounters, Synchronise, SortInv, SortedSoFar
<1>2. CASE Inserted
  <2>1. \A o : Position(o)' = Position(o)
    BY <1>2 DEF Inserted, Position
  <2> QED
    BY <1>2, <2>1 DEF Inserted, SortInv, SortedSoFar, TypeOK
<1>3. CASE Sorted \/ Publish \/ \E n \in 0 .. maxSignalPerThread : Cut(n)
  BY <1>3 DEF Sorted, Publish, Cut, SortInv
<1>4. ASSUME UNCHANGED <<pc, i, j, indexList, currentIdx, currentChangePos, changeFlag>>
      PROVE  SortInv'
  <2>1. \A o : Position(o)' = Position(o)
    BY <1>4 DEF Position
  <2> QED
    BY <1>4, <2>1 DEF SortInv, SortedSoFar
<1>5. ASSUME NEW t \in Pool, PoolStep(t)
      PROVE  SortInv'
  BY <1>4, <1>5 DEF PoolStep, SliceSent, SliceFails, Take, Reconnect
<1>6. ASSUME NEW pv \in PVs, Change(pv)
      PROVE  SortInv'
  BY <1>4, <1>6 DEF Change
<1>7. CASE UNCHANGED vars
  BY <1>4, <1>7 DEF vars
<1> QED
  BY <1>1, <1>2, <1>3, <1>5, <1>6, <1>7, ExamineSorted, BubbleSorted
     DEF Next, MainStep

\* The loop invariant of the sort.
THEOREM SortInvariant == Spec => []SortInv
<1>1. Init => SortInv
  BY DEF Init, SortInv
<1> QED
  BY <1>1, TypeCorrect, SortStep, PTL DEF Spec

LEMMA OffsetOfPosition ==
    ASSUME currentIdx \in PVs, NEW p \in PVs
    PROVE  Offset(p) \in 0 .. NumberOfVariables - 1 /\ Position(Offset(p)) = p
<1>1. /\ currentIdx \in 0 .. NumberOfVariables - 1
      /\ p \in 0 .. NumberOfVariables - 1
  BY DEF PVs
<1>2. Offset(p) = IF p >= currentIdx THEN p - currentIdx
                  ELSE p + NumberOfVariables - currentIdx
  BY <1>1 DEF Offset
<1> QED
  BY <1>1, <1>2, PositionValue

\* What the sort starts from: what was carried over lies in front, and nowhere
\* else, for the queue is a permutation.
LEMMA SynchroniseFront ==
    TypeOK /\ QueueIsPermutation /\ FrontInv /\ Synchronise => FrontInv'
<1> SUFFICES ASSUME TypeOK, QueueIsPermutation, FrontInv, Synchronise PROVE FrontInv'
  OBVIOUS
<1> DEFINE ccp == currentChangePos
<1>1. /\ currentIdx \in PVs /\ ccp \in Nat /\ ccp <= NumberOfVariables
      /\ indexList \in [PVs -> PVs] /\ PVs = 0 .. NumberOfVariables - 1
      /\ pc' \in {"sort", "cut"} /\ i' = 0
      /\ indexList' = indexList /\ currentIdx' = currentIdx /\ currentChangePos' = ccp
  BY DEF TypeOK, FrontInv, Synchronise, queueVars, PVs
<1>2. \A o : Position(o)' = Position(o)
  BY <1>1 DEF Position
<1>3. CASE pc' = "cut"
  BY <1>3 DEF FrontInv
<1>4. CASE pc' = "sort"
  <2>1. carried' = {indexList[Position(o)] : o \in 0 .. ccp - 1}
    BY <1>4 DEF Synchronise, FirstPVs
  <2>2. \A o \in 0 .. ccp - 1 : indexList[Position(o)] \in carried'
    BY <2>1
  <2>3. ASSUME NEW o \in 0 .. NumberOfVariables - 1, indexList[Position(o)] \in carried'
        PROVE  o < ccp
    <3>1. PICK k \in 0 .. ccp - 1 : indexList[Position(o)] = indexList[Position(k)]
      BY <2>1, <2>3
    <3>2. k \in 0 .. NumberOfVariables - 1 /\ k \in Nat /\ o \in Nat
      BY <1>1
    <3>3. Position(o) \in PVs /\ Position(k) \in PVs
      BY <1>1, <3>2, PositionType
    <3>4. Position(o) = Position(k)
      BY <3>1, <3>3 DEF QueueIsPermutation
    <3> QED
      BY <1>1, <3>2, <3>4, PositionInjective
  <2>4. \A o \in 0 .. NumberOfVariables - 1 :
            /\ o < ccp => indexList[Position(o)] \in carried'
            /\ indexList[Position(o)] \in carried' => o < ccp
    BY <1>1, <2>2, <2>3
  <2>5. \A o \in 0 .. NumberOfVariables - 1 : AllOrNoneAt(o, o < ccp)'
    BY <1>1, <1>2, <2>4 DEF AllOrNoneAt, Waiting
  <2>6. \A o \in 0 .. ccp - 1 : indexList'[Position(o)'] \in carried'
    BY <1>1, <1>2, <2>2
  <2> QED
    BY <1>1, <1>4, <2>5, <2>6 DEF FrontInv
<1> QED
  BY <1>1, <1>3, <1>4

LEMMA ExamineFront == TypeOK /\ SortInv /\ FrontInv /\ Examine => FrontInv'
<1> SUFFICES ASSUME TypeOK, SortInv, FrontInv, Examine, carried \cap changeFlag = {}
             PROVE  FrontInv'
  BY DEF FrontInv, Examine, flagVars
<1> DEFINE ccp == currentChangePos
           Flagged(o) == indexList[Position(o)] \in changeFlag
           At(o) == indexList[Position(o)]
<1>1. /\ currentIdx \in PVs /\ ccp \in Nat /\ i \in 0 .. NumberOfVariables - 1
      /\ indexList \in [PVs -> PVs] /\ ccp <= NumberOfVariables
      /\ \A o \in 0 .. NumberOfVariables - 1 :
            (o < ccp => At(o) \in changeFlag \cup carried) /\ (At(o) \in carried => o < ccp)
      /\ i < ccp => \A o \in 0 .. ccp - 1 : At(o) \in carried
      /\ pc = "sort" /\ currentIdx' = currentIdx /\ currentChangePos' = ccp
      /\ changeFlag' = changeFlag /\ carried' = carried
  BY DEF TypeOK, FrontInv, AllOrNoneAt, Waiting, Examine, flagVars
<1>2. \A o : Position(o)' = Position(o)
  BY <1>1 DEF Position
<1>3. CASE ~Flagged(i)
  <2>1. i' = i + 1 /\ pc' = "sort" /\ indexList' = indexList
    BY <1>1, <1>3 DEF Examine
  <2> QED
    BY <1>1, <1>2, <2>1 DEF FrontInv, AllOrNoneAt, Waiting
<1>4. CASE Flagged(i)
  <2>1. /\ i' = i /\ pc' = "bubble"
        /\ indexList' = Swap(indexList, Position(ccp), Position(i))
    BY <1>1, <1>4 DEF Examine
  <2>2. ccp <= i
    BY <1>1, <1>4
  <2>3. ccp \in 0 .. NumberOfVariables - 1
    BY <1>1, <2>2
  <2>4. Position(ccp) \in PVs /\ Position(i) \in PVs
    BY <1>1, <2>3, PositionType
  <2>5. ASSUME NEW o \in 0 .. NumberOfVariables - 1
        PROVE  /\ o <= ccp => indexList'[Position(o)] \in changeFlag \cup carried
               /\ indexList'[Position(o)] \in carried => o <= ccp
    <3>0. Position(o) \in PVs
      BY <1>1, PositionType
    <3>1. CASE o = ccp
      <4>1. indexList'[Position(o)] = At(i)
        BY <1>1, <2>1, <2>4, <3>1 DEF Swap
      <4> QED
        BY <1>4, <3>1, <4>1
    <3>2. CASE o = i /\ o # ccp
      <4>1. Position(o) # Position(ccp)
        BY <1>1, <2>3, <3>2, PositionInjective
      <4>2. indexList'[Position(o)] = At(ccp)
        BY <1>1, <2>1, <2>4, <3>2, <4>1 DEF Swap
      <4>3. At(ccp) \notin carried
        BY <1>1, <2>3
      <4> QED
        BY <1>1, <2>2, <2>3, <3>2, <4>2, <4>3
    <3>3. CASE o # i /\ o # ccp
      <4>1. Position(o) # Position(ccp) /\ Position(o) # Position(i)
        BY <1>1, <2>3, <3>3, PositionInjective
      <4>2. indexList'[Position(o)] = At(o)
        BY <1>1, <2>1, <2>4, <3>0, <4>1 DEF Swap
      <4>3. /\ o < ccp => At(o) \in changeFlag \cup carried
            /\ At(o) \in carried => o < ccp
        BY <1>1
      <4> QED
        BY <2>3, <3>3, <4>2, <4>3
    <3> QED
      BY <3>1, <3>2, <3>3
  <2> QED
    BY <1>1, <1>2, <2>1, <2>2, <2>5 DEF FrontInv, AllOrNoneAt, Waiting
<1> QED
  BY <1>3, <1>4

LEMMA BubbleFront == TypeOK /\ SortInv /\ FrontInv /\ Bubble => FrontInv'
<1> SUFFICES ASSUME TypeOK, SortInv, FrontInv, Bubble, carried \cap changeFlag = {}
             PROVE  FrontInv'
  BY DEF FrontInv, Bubble, flagVars
<1> DEFINE ccp == currentChangePos
           before == IF Position(j) = 0 THEN NumberOfVariables - 1
                     ELSE Position(j) - 1
           At(o) == indexList[Position(o)]
<1>1. /\ currentIdx \in PVs /\ ccp \in Nat /\ i \in 0 .. NumberOfVariables - 1 /\ j \in Nat
      /\ indexList \in [PVs -> PVs] /\ j <= ccp /\ j > 0 /\ ccp <= i
      /\ \A o \in 0 .. NumberOfVariables - 1 :
            (o <= ccp => At(o) \in changeFlag \cup carried) /\ (At(o) \in carried => o <= ccp)
  BY DEF TypeOK, SortInv, FrontInv, AllOrNoneAt, Waiting, Bubble
<1>2. /\ pc' = "bubble" /\ i' = i /\ currentIdx' = currentIdx
      /\ changeFlag' = changeFlag /\ carried' = carried /\ currentChangePos' = ccp
      /\ indexList' = Swap(indexList, before, Position(j))
  BY DEF Bubble, flagVars
<1>3. \A o : Position(o)' = Position(o)
  BY <1>2 DEF Position
<1> HIDE DEF before
<1>4. j \in 1 .. NumberOfVariables - 1 /\ j - 1 \in 0 .. NumberOfVariables - 1
  BY <1>1
<1>5. before = Position(j - 1)
  BY <1>1, <1>4, PositionBefore DEF before
<1>6. Position(j) \in PVs /\ Position(j - 1) \in PVs /\ Position(j) # Position(j - 1)
  BY <1>1, <1>4, PositionType, PositionInjective
<1>7. ASSUME NEW o \in 0 .. NumberOfVariables - 1
      PROVE  /\ o <= ccp => indexList'[Position(o)] \in changeFlag \cup carried
             /\ indexList'[Position(o)] \in carried => o <= ccp
  <2>1. CASE o = j
    <3>1. indexList'[Position(o)] = At(j - 1)
      BY <1>1, <1>2, <1>5, <1>6, <2>1 DEF Swap
    <3> QED
      BY <1>1, <1>4, <2>1, <3>1
  <2>2. CASE o = j - 1
    <3>1. indexList'[Position(o)] = At(j)
      BY <1>1, <1>2, <1>5, <1>6, <2>2 DEF Swap
    <3> QED
      BY <1>1, <1>4, <2>2, <3>1
  <2>3. CASE o # j /\ o # j - 1
    <3>1. Position(o) # Position(j) /\ Position(o) # Position(j - 1)
      BY <1>1, <1>4, <2>3, PositionInjective
    <3>2. indexList'[Position(o)] = At(o)
      BY <1>1, <1>2, <1>5, <1>6, <3>1, PositionType DEF Swap
    <3> QED
      BY <1>1, <3>2
  <2> QED
    BY <2>1, <2>2, <2>3
<1> QED
  BY <1>1, <1>2, <1>3, <1>7 DEF FrontInv, AllOrNoneAt, Waiting

LEMMA InsertedFront == TypeOK /\ SortInv /\ FrontInv /\ Inserted => FrontInv'
<1> SUFFICES ASSUME TypeOK, SortInv, FrontInv, Inserted, carried \cap changeFlag = {}
             PROVE  FrontInv'
  BY DEF FrontInv, Inserted, flagVars
<1>1. /\ currentChangePos \in Nat /\ i \in Nat /\ i < NumberOfVariables
      /\ currentChangePos <= i
      /\ \A o \in 0 .. NumberOfVariables - 1 : AllOrNoneAt(o, o <= currentChangePos)
      /\ pc' = "sort" /\ i' = i + 1 /\ currentChangePos' = currentChangePos + 1
      /\ indexList' = indexList /\ currentIdx' = currentIdx
      /\ changeFlag' = changeFlag /\ carried' = carried
  BY DEF TypeOK, SortInv, FrontInv, Inserted, flagVars
<1>2. \A o : Position(o)' = Position(o)
  BY <1>1 DEF Position
<1> QED
  BY <1>1, <1>2 DEF FrontInv, AllOrNoneAt, Waiting

LEMMA FrontStep ==
    TypeOK /\ QueueIsPermutation /\ SortInv /\ FrontInv /\ [Next]_vars => FrontInv'
<1> SUFFICES ASSUME TypeOK, QueueIsPermutation, SortInv, FrontInv, [Next]_vars
             PROVE  FrontInv'
  OBVIOUS
<1> USE DEF loopVars, queueVars, flagVars, poolVars
<1>1. CASE ReadCounters
  BY <1>1 DEF ReadCounters, FrontInv
<1>2. CASE Sorted
  BY <1>2 DEF Sorted, FrontInv
<1>3. ASSUME NEW n \in 0 .. maxSignalPerThread, Cut(n)
      PROVE  FrontInv'
  <2>1. currentChangePos' <= NumberOfVariables
    BY <1>3, WindowSize DEF Cut, Left, TypeOK
  <2> QED
    BY <1>3, <2>1 DEF Cut, FrontInv
<1>4. CASE Publish
  BY <1>4 DEF Publish, FrontInv
<1>5. ASSUME UNCHANGED <<pc, i, indexList, currentIdx, currentChangePos, changeFlag, carried>>
      PROVE  FrontInv'
  <2>1. \A o : Position(o)' = Position(o)
    BY <1>5 DEF Position
  <2> QED
    BY <1>5, <2>1 DEF FrontInv, AllOrNoneAt, Waiting
<1>6. ASSUME NEW t \in Pool, PoolStep(t)
      PROVE  FrontInv'
  BY <1>5, <1>6 DEF PoolStep, SliceSent, SliceFails, Take, Reconnect
<1>7. ASSUME NEW pv \in PVs, Change(pv)
      PROVE  FrontInv'
  BY <1>5, <1>7 DEF Change
<1>8. CASE UNCHANGED vars
  BY <1>5, <1>8 DEF vars
<1> QED
  BY <1>1, <1>2, <1>3, <1>4, <1>6, <1>7, <1>8, SynchroniseFront, ExamineFront,
     BubbleFront, InsertedFront DEF Next, MainStep

LEMMA FrontInvariant == Spec => []FrontInv
<1>1. Init => FrontInv
  BY DEF Init, FrontInv
<1> QED
  BY <1>1, TypeCorrect, QueueStaysPermutation, SortInvariant, FrontStep, PTL DEF Spec

\* When the sort is over, and no PV that was left from before changed again,
\* the PVs that changed and no others lie before currentChangePos.
THEOREM ChangedComeFirst == Spec => []ChangedAreFirst
<1>1. TypeOK /\ SortInv /\ FrontInv => ChangedAreFirst
  <2> SUFFICES ASSUME TypeOK, SortInv, FrontInv, SortIsOver, carried \cap changeFlag = {}
               PROVE  /\ currentChangePos <= NumberOfVariables
                      /\ \A p \in PVs :
                            indexList[p] \in Waiting <=> Offset(p) < currentChangePos
    BY DEF ChangedAreFirst
  <2>1. currentChangePos <= NumberOfVariables
    BY DEF FrontInv, SortIsOver
  <2>2. ASSUME NEW p \in PVs
        PROVE  indexList[p] \in Waiting <=> Offset(p) < currentChangePos
    <3>1. Offset(p) \in 0 .. NumberOfVariables - 1 /\ Position(Offset(p)) = p
      BY OffsetOfPosition DEF TypeOK
    <3>2. indexList[p] \in changeFlag =>
              Offset(p) < currentChangePos \/ Offset(p) >= NumberOfVariables
      BY <3>1 DEF SortInv, SortedSoFar, SortIsOver
    <3>3. AllOrNoneAt(Offset(p), Offset(p) < currentChangePos)
      BY <3>1 DEF FrontInv, SortIsOver
    <3> QED
      BY <3>1, <3>2, <3>3 DEF AllOrNoneAt, Waiting
  <2> QED
    BY <2>1, <2>2
<1> QED
  BY <1>1, TypeCorrect, SortInvariant, FrontInvariant, PTL

-----------------------------------------------------------------------------
(* The window holds every PV at most once.                                 *)

\* Positions are different, so the PVs cut from the front are.
LEMMA PublishedWindow ==
    TypeOK /\ QueueIsPermutation /\ Publish => WindowHasNoDuplicates'
<1> SUFFICES ASSUME TypeOK, QueueIsPermutation, Publish,
                    NEW m \in 1 .. Len(window'), NEW n \in 1 .. Len(window'),
                    window'[m] = window'[n]
             PROVE  m = n
  BY DEF WindowHasNoDuplicates
<1>1. window' = [k \in 1 .. nVariables |-> indexList[Position(k - 1)]]
  BY DEF Publish
<1>2. nVariables \in Nat /\ nVariables <= NumberOfVariables
  BY WindowSize DEF TypeOK, Publish
<1>3. Len(window') = nVariables
  BY <1>1, <1>2
<1>4. /\ m \in 1 .. nVariables /\ n \in 1 .. nVariables
      /\ m - 1 \in 0 .. NumberOfVariables - 1 /\ n - 1 \in 0 .. NumberOfVariables - 1
  BY <1>2, <1>3
<1>5. indexList[Position(m - 1)] = indexList[Position(n - 1)]
  BY <1>1, <1>4
<1>6. Position(m - 1) \in PVs /\ Position(n - 1) \in PVs /\ currentIdx \in PVs
  <2>1. m - 1 \in Nat /\ n - 1 \in Nat /\ currentIdx \in PVs
    BY <1>4 DEF TypeOK
  <2> QED
    BY <2>1, PositionType
<1>7. Position(m - 1) = Position(n - 1)
  BY <1>5, <1>6 DEF QueueIsPermutation
<1>8. m - 1 = n - 1
  BY <1>4, <1>6, <1>7, PositionInjective
<1> QED
  BY <1>4, <1>8

\* A slice is taken from the front of the window.
LEMMA TakenWindow ==
    ASSUME TypeOK, WindowHasNoDuplicates, NEW t \in Pool, NEW n, Take(t, n)
    PROVE  WindowHasNoDuplicates'
<1>1. /\ window \in Seq(PVs) /\ Share(t) \in Nat
      /\ window' = SubSeq(window, Share(t) + 1, Len(window))
  BY ShareType DEF Take, TypeOK
<1>2. \A k \in 1 .. Len(window') :
         Share(t) + k \in 1 .. Len(window) /\ window'[k] = window[Share(t) + k]
  BY <1>1, SubSeqProperties
<1>3. Len(window') \in Nat
  BY <1>1, SubSeqProperties
<1> SUFFICES ASSUME NEW a \in 1 .. Len(window'), NEW b \in 1 .. Len(window'),
                    a # b
             PROVE  window'[a] # window'[b]
  BY DEF WindowHasNoDuplicates
<1>4. Share(t) + a # Share(t) + b
  BY <1>1, <1>3
<1> QED
  BY <1>2, <1>4 DEF WindowHasNoDuplicates

\* The window has as many different PVs as positions, in every queue.
THEOREM WindowIsDistinct == Spec => []WindowHasNoDuplicates
<1>1. Init => WindowHasNoDuplicates
  BY DEF Init, WindowHasNoDuplicates
<1>2. TypeOK /\ QueueIsPermutation /\ WindowHasNoDuplicates /\ [Next]_vars
          => WindowHasNoDuplicates'
  <2> SUFFICES ASSUME TypeOK, QueueIsPermutation, WindowHasNoDuplicates, [Next]_vars
               PROVE  WindowHasNoDuplicates'
    OBVIOUS
  <2>1. CASE window' = window
    BY <2>1 DEF WindowHasNoDuplicates
  <2>2. CASE MainStep /\ ~Publish
    BY <2>1, <2>2 DEF MainStep, ReadCounters, Synchronise, Examine, Bubble,
                      Inserted, Sorted, Cut, poolVars
  <2>3. ASSUME NEW t \in Pool, PoolStep(t)
        PROVE  WindowHasNoDuplicates'
    BY <2>1, <2>3, TakenWindow DEF PoolStep, SliceSent, SliceFails, Reconnect
  <2>4. CASE (\E pv \in PVs : Change(pv)) \/ UNCHANGED vars
    BY <2>1, <2>4 DEF Change, vars, poolVars
  <2> QED
    BY <2>2, <2>3, <2>4, PublishedWindow DEF Next
<1> QED
  BY <1>1, <1>2, TypeCorrect, QueueStaysPermutation, PTL DEF Spec

-----------------------------------------------------------------------------
(* One call of SendVariables, with its own variables: a call may be at any *)
(* point whatever the queue does.                                          *)

\* The PV being written is one of the slice.
LEMMA CurrentPv ==
    ASSUME SliceTypeOK, stage = "fragment"
    PROVE  cntVariables \in Slice /\ totalSize[cntVariables] \in Nat
<1>1. cntVariables \in 0 .. nVarsPerThread /\ cntVariables < nVarsPerThread
    BY DEF SliceTypeOK
<1>2. cntVariables \in Slice
    BY <1>1, SliceAssumption DEF SliceAssumption, Slice
<1>3. totalSize[cntVariables] \in Sizes
    BY <1>2 DEF SliceTypeOK
<1> QED
    BY <1>2, <1>3, SliceAssumption DEF SliceAssumption

LEMMA SliceTypeStep ==
    ASSUME SliceTypeOK, [SliceNext]_sliceVars PROVE SliceTypeOK'
<1> USE SliceAssumption DEF SliceTypeOK, Slice, Fragments
<1>1. CASE BeginMessage
    BY <1>1 DEF BeginMessage, FreshCount
<1>2. CASE Return
    BY <1>2 DEF Return
<1>3. CASE BeginPv
    BY <1>3 DEF BeginPv
<1>4. CASE SkipPv
    BY <1>4 DEF SkipPv
<1>5. CASE WriteFragment
    <2>1. totalSize[cntVariables] \in Nat /\ cntVariables \in Slice
        BY <1>5, CurrentPv DEF WriteFragment
    <2>2. ActualSize \in 1 .. maxVarSize
        BY <1>5, <2>1 DEF WriteFragment, ActualSize, Shorter
    <2>3. [pv |-> cntVariables, from |-> varOffset, len |-> ActualSize] \in Fragments
        BY <2>1, <2>2
    <2>4. varOffset' \in Nat
        BY <1>5, <2>2 DEF WriteFragment
    <2> QED
        BY <1>5, <2>1, <2>3, <2>4 DEF WriteFragment
<1>6. CASE EndPv
    BY <1>6 DEF EndPv, OffsetOfNextPv
<1>7. CASE EndMessage
    BY <1>7 DEF EndMessage
<1>8. CASE WriteFails
    BY <1>8 DEF WriteFails
<1>9. CASE UNCHANGED sliceVars
    BY <1>9 DEF sliceVars
<1> QED
    BY <1>1, <1>2, <1>3, <1>4, <1>5, <1>6, <1>7, <1>8, <1>9 DEF SliceNext

\* The types of the model hold in every state.
THEOREM SliceTypeCorrect == SliceSpec => []SliceTypeOK
<1>1. SliceInit => SliceTypeOK
    <2> SUFFICES ASSUME SliceInit PROVE SliceTypeOK
        OBVIOUS
    <2>1. 0 \in 0 .. nVarsPerThread
        BY SliceAssumption DEF SliceAssumption
    <2> QED
        BY <2>1 DEF SliceInit, SliceTypeOK
<1> QED
    BY <1>1, SliceTypeStep, PTL DEF SliceSpec

-----------------------------------------------------------------------------

\* No fragment reaches beyond its PV, whatever offset the loops carry over from
\* one PV to the next (PrioritySender.cpp 629-631).
THEOREM FragmentsStayWithinPv == SliceSpec => []FragmentsWithinPv
<1>1. SliceInit => FragmentsWithinPv
    BY DEF SliceInit, FragmentsWithinPv
<1>2. SliceTypeOK /\ FragmentsWithinPv /\ [SliceNext]_sliceVars => FragmentsWithinPv'
    <2> SUFFICES ASSUME SliceTypeOK, FragmentsWithinPv, [SliceNext]_sliceVars
                 PROVE  FragmentsWithinPv'
        OBVIOUS
    <2>1. totalSize' = totalSize
        BY DEF SliceNext, sliceVars, BeginMessage, Return, BeginPv, SkipPv, WriteFragment,
               WriteFails, EndPv, EndMessage
    <2>2. CASE WriteFragment
        <3>1. totalSize[cntVariables] \in Nat /\ varOffset \in Nat
            BY <2>2, CurrentPv DEF WriteFragment, SliceTypeOK
        <3>2. varOffset + ActualSize <= totalSize[cntVariables]
            BY <2>2, <3>1, SliceAssumption DEF SliceAssumption, WriteFragment, ActualSize, Shorter
        <3> QED
            BY <2>1, <2>2, <3>1, <3>2 DEF WriteFragment, FragmentsWithinPv
    <2>3. CASE ~WriteFragment
        <3>1. sent' = sent
            BY <2>3 DEF SliceNext, sliceVars, BeginMessage, Return, BeginPv, SkipPv, WriteFails,
                        EndPv, EndMessage
        <3> QED
            BY <2>1, <3>1 DEF FragmentsWithinPv
    <2> QED
        BY <2>2, <2>3
<1> QED
    BY <1>1, <1>2, SliceTypeCorrect, PTL DEF SliceSpec

-----------------------------------------------------------------------------

InOne(p) == totalSize[p] > 0 =>
                [pv |-> p, from |-> 0, len |-> totalSize[p]] \in sent

\* With one fragment for each PV: the PVs gone through are written, and an
\* offset is never carried over.
WholeInv ==
    OneFragmentEach /\ ~err =>
        /\ \A p \in 0 .. cntVariables - 1 : InOne(p)
        /\ stage # "fragment" => varOffset = 0
        /\ stage = "fragment" =>
              \/ condition /\ varOffset = 0 /\ totalSize[cntVariables] > 0
              \/ /\ InOne(cntVariables)
                 /\ condition => varOffset = totalSize[cntVariables]
                 /\ ~condition => varOffset = 0
        /\ stage = "done" => cntVariables = nVarsPerThread

LEMMA WholeStep ==
    ASSUME SliceTypeOK, WholeInv, [SliceNext]_sliceVars PROVE WholeInv'
<1> USE SliceAssumption DEF SliceTypeOK, Slice
<1>1. CASE BeginMessage
    BY <1>1 DEF BeginMessage, WholeInv, InOne, OneFragmentEach, condition
<1>2. CASE Return
    BY <1>2 DEF Return, WholeInv, InOne, OneFragmentEach, condition
<1>3. CASE BeginPv
    BY <1>3 DEF BeginPv, WholeInv, InOne, OneFragmentEach, condition
<1>4. CASE SkipPv
    BY <1>4 DEF SkipPv, WholeInv, InOne, OneFragmentEach, condition
<1>5. CASE WriteFragment
    <2> SUFFICES ASSUME OneFragmentEach, ~err'
                 PROVE  /\ \A p \in 0 .. cntVariables - 1 : InOne(p)'
                        /\ InOne(cntVariables)'
                        /\ condition' => varOffset' = totalSize[cntVariables]
                        /\ ~condition' => varOffset' = 0
        BY <1>5 DEF WriteFragment, WholeInv, OneFragmentEach
    <2>1. ~err
        BY <1>5 DEF WriteFragment, WholeInv
    <2>2. varOffset = 0
        BY <1>5, <2>1 DEF WriteFragment, WholeInv
    <2>3. totalSize[cntVariables] \in Nat /\ totalSize[cntVariables] <= maxVarSize
        BY <1>5, CurrentPv DEF WriteFragment, OneFragmentEach
    <2>4. ActualSize = totalSize[cntVariables]
        BY <2>2, <2>3 DEF ActualSize, Shorter
    <2> QED
        BY <1>5, <2>1, <2>2, <2>3, <2>4 DEF WriteFragment, WholeInv, InOne, condition
<1>6. CASE EndPv
    <2> SUFFICES ASSUME OneFragmentEach, ~err
                 PROVE  /\ \A p \in 0 .. cntVariables : InOne(p)
                        /\ OffsetOfNextPv = 0
        BY <1>6 DEF EndPv, WholeInv, OneFragmentEach, InOne
    <2>1. totalSize[cntVariables] \in Nat /\ cntVariables \in Nat
        BY <1>6, CurrentPv DEF EndPv
    <2>2. /\ InOne(cntVariables)
          /\ condition => varOffset = totalSize[cntVariables]
          /\ ~condition => varOffset = 0
        BY <1>6, <2>1 DEF EndPv, WholeInv
    <2>3. \A p \in 0 .. cntVariables - 1 : InOne(p)
        BY DEF WholeInv
    <2>4. OffsetOfNextPv = 0
        BY <2>1, <2>2 DEF OffsetOfNextPv
    <2> QED
        BY <2>1, <2>2, <2>3, <2>4
<1>7. CASE EndMessage
    BY <1>7 DEF EndMessage, WholeInv, InOne, OneFragmentEach, condition
<1>8. CASE WriteFails
    BY <1>8 DEF WriteFails, WholeInv
<1>9. CASE UNCHANGED sliceVars
    BY <1>9 DEF sliceVars, WholeInv, InOne, OneFragmentEach, condition
<1> QED
    BY <1>1, <1>2, <1>3, <1>4, <1>5, <1>6, <1>7, <1>8, <1>9 DEF SliceNext

\* When every PV fits in a fragment, SendVariables returns without error only
\* after it has written every PV of the slice (PrioritySender.cpp 578-768).
THEOREM UnfragmentedSliceIsWhole == SliceSpec => []SliceIsWholeUnfragmented
<1>1. SliceInit => WholeInv
    BY SliceAssumption DEF SliceAssumption, SliceInit, WholeInv, Slice
<1>2. SliceTypeOK /\ WholeInv => SliceIsWholeUnfragmented
    <2> SUFFICES ASSUME SliceTypeOK, WholeInv, OneFragmentEach, stage = "done", ~err,
                        NEW p \in Slice, NEW b \in 0 .. totalSize[p] - 1
                 PROVE  \E f \in sent : f.pv = p /\ f.from <= b /\ b < f.from + f.len
        BY DEF SliceIsWholeUnfragmented, Whole
    <2>1. InOne(p) /\ totalSize[p] \in Nat
        BY SliceAssumption DEF SliceAssumption, WholeInv, SliceTypeOK, Slice
    <2>2. totalSize[p] > 0
        BY <2>1
    <2> QED
        BY <2>1, <2>2 DEF InOne
<1> QED
    BY <1>1, <1>2, WholeStep, SliceTypeCorrect, PTL DEF SliceSpec

=============================================================================
