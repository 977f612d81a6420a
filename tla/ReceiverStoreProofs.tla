------------------------ MODULE ReceiverStoreProofs -------------------------
(***************************************************************************)
(* Proofs about ReceiverStore for any list of PVs, any number of put       *)
(* threads and connections.                                                *)
(***************************************************************************)
EXTENDS ReceiverStore, SequenceTheorems, TLAPS

USE ReceiverAssumption

-----------------------------------------------------------------------------
(* The ranges of the put threads.                                          *)

LEMMA DivFacts ==
    ASSUME NEW n \in Nat, NEW d \in Nat \ {0}
    PROVE  /\ n \div d \in Nat
           /\ d * (n \div d) <= n
           /\ n < d * (n \div d) + d
  BY SMT

LEMMA RangeStarts ==
    ASSUME NEW n \in Nat, NEW threads \in Nat \ {0}
    PROVE  \E e \in Int : e < n /\ RangeOf(n, threads, 0) = 0 .. e
<1> DEFINE per == n \div threads
<1>1. per \in Nat /\ threads * per <= n
  BY DivFacts
<1>2. per <= n
  <2>1. per <= threads * per
    BY <1>1
  <2> QED
    BY <1>1, <2>1
<1>3. 0 * per = 0 /\ (0 + 1) * per = per
  BY <1>1
<1>4. RangeOf(n, threads, 0) = 0 .. (IF n - per < threads THEN n ELSE per) - 1
  BY <1>3 DEF RangeOf
<1>5. (IF n - per < threads THEN n ELSE per) - 1 \in Int
  BY <1>1
<1>6. (IF n - per < threads THEN n ELSE per) - 1 < n
  BY <1>1, <1>2
<1> QED
  BY <1>4, <1>5, <1>6

\* No PV is left out by the ranges, for every length and number of threads.
LEMMA RangesCoverAll ==
    ASSUME NEW n \in Nat, NEW threads \in Nat \ {0}, NEW p \in 0 .. n - 1
    PROVE  \E t \in 0 .. threads - 1 : p \in RangeOf(n, threads, t)
<1> DEFINE per == n \div threads
<1> HIDE DEF per
<1>1. per \in Nat /\ threads * per <= n /\ n < threads * per + threads
  BY DivFacts DEF per
<1>2. ASSUME NEW t \in 0 .. threads - 1
      PROVE  RangeOf(n, threads, t) =
                t * per .. (IF n - (t + 1) * per < threads THEN n ELSE (t + 1) * per) - 1
  BY DEF RangeOf, per
<1>3. CASE threads * per <= p
  <2> DEFINE last == threads - 1
  <2>1. last \in 0 .. threads - 1 /\ (last + 1) * per = threads * per
    BY <1>1
  <2>2. last * per <= threads * per /\ last * per \in Int
    BY <1>1
  <2>3. RangeOf(n, threads, last) = last * per .. n - 1
    BY <1>1, <1>2, <2>1
  <2>4. p \in last * per .. n - 1
    BY <1>1, <1>3, <2>2
  <2> QED
    BY <2>1, <2>3, <2>4
<1>4. CASE p < threads * per
  <2>1. per \in Nat \ {0}
    BY <1>1, <1>4
  <2> DEFINE t == p \div per
  <2> HIDE DEF t
  <2>2. t \in Nat /\ per * t <= p /\ p < per * t + per
    BY <2>1, DivFacts DEF t
  <2>3. t < threads
    <3> SUFFICES ASSUME t >= threads PROVE FALSE
      BY <2>2
    <3>1. per * t >= per * threads
      BY <2>1, <2>2
    <3> QED
      BY <1>1, <1>4, <2>2, <3>1
  <2>4. t \in 0 .. threads - 1 /\ t * per = per * t /\ (t + 1) * per = per * t + per
    BY <1>1, <2>2, <2>3
  <2>5. p \in t * per .. (IF n - (t + 1) * per < threads THEN n ELSE (t + 1) * per) - 1
    BY <1>1, <2>2, <2>4
  <2> QED
    BY <1>2, <2>4, <2>5
<1> QED
  BY <1>1, <1>3, <1>4

-----------------------------------------------------------------------------
(* Type correctness.                                                       *)

LEMMA Starts ==
    ASSUME NEW t \in PutThreads
    PROVE  t * (numberOfVariables \div numberOfInitThreads) \in 0 .. numberOfVariables
<1> DEFINE per == numberOfVariables \div numberOfInitThreads
<1>1. per \in Nat /\ numberOfInitThreads * per <= numberOfVariables
  BY DivFacts
<1>2. t \in Nat /\ t <= numberOfInitThreads
  BY DEF PutThreads
<1>3. t * per \in Nat /\ t * per <= numberOfInitThreads * per
  <2> HIDE DEF per
  <2> QED
    BY <1>1, <1>2
<1> QED
  BY <1>1, <1>3

LEMMA InitType == StoreInit => StoreTypeOK
<1> SUFFICES ASSUME StoreInit PROVE StoreTypeOK
  OBVIOUS
<1>1. Zero \in StoredValues /\ Own \in StoredValues
  BY DEF Zero, Own, StoredValues, Stamps
<1>2. NoVariable \in [index : PVs \cup {0}, content : Contents, stamp : Stamps]
  BY DEF NoVariable, Stamps
<1>3. contentOf \in Seq(Contents) /\ Len(contentOf) <= MaxMessages
  BY DEF StoreInit
<1>4. next \in [PutThreads -> 0 .. numberOfVariables]
  BY DEF StoreInit
<1> QED
  BY <1>1, <1>2, <1>3, <1>4 DEF StoreInit, StoreTypeOK

\* What the store makes of a received variable is a value.
LEMMA StoredType ==
    ASSUME StoreTypeOK, NEW c \in Clients, index[c] \in PVs, NEW converts \in BOOLEAN
    PROVE  Stored(c, converts) \in StoredValues
<1>1. received[c] \in [index : PVs \cup {0}, content : Contents, stamp : Stamps]
  BY DEF StoreTypeOK
<1>2. memory[index[c]] \in StoredValues
  BY DEF StoreTypeOK
<1>3. received[c].index \in PVs
  <2>1. 0 \in PVs
    BY DEF PVs, StoreTypeOK
  <2> QED
    BY <1>1, <2>1
<1>4. CASE Size[index[c]] = "fits"
  BY <1>1, <1>3, <1>4 DEF Stored, StoredValues
<1>5. CASE Size[index[c]] = "larger" /\ converts
  BY <1>1, <1>2, <1>3, <1>5 DEF Stored, StoredValues
<1>6. CASE Size[index[c]] # "fits" /\ ~(Size[index[c]] = "larger" /\ converts)
  BY <1>2, <1>6 DEF Stored, StoredValues
<1> QED
  BY <1>4, <1>5, <1>6

\* memory always holds received contents.
ContentsInv == \A p \in PVs :
    /\ memory[p].content \in Contents
    /\ memoryPrec[p] = memory[p].content

LEMMA StoredContent ==
    ASSUME StoreTypeOK, ContentsInv, NEW c \in Clients, index[c] \in PVs,
           NEW converts \in BOOLEAN
    PROVE  Stored(c, converts).content \in Contents
<1>1. received[c] \in [index : PVs \cup {0}, content : Contents, stamp : Stamps]
  BY DEF StoreTypeOK
<1>2. memory[index[c]].content \in Contents /\ memory[index[c]] \in StoredValues
  BY DEF ContentsInv, StoreTypeOK
<1>3. CASE Size[index[c]] = "fits"
  BY <1>1, <1>3 DEF Stored
<1>4. CASE Size[index[c]] = "larger" /\ converts
  BY <1>1, <1>2, <1>4 DEF Stored, StoredValues
<1>5. CASE Size[index[c]] # "fits" /\ ~(Size[index[c]] = "larger" /\ converts)
  BY <1>2, <1>5 DEF Stored
<1> QED
  BY <1>3, <1>4, <1>5

\* A connection that is past the lookup holds the position of the name it
\* received, and so does every mapped index.
MappingInv ==
    /\ \A i \in PVs : pvMapping[i] \in {Unmapped, LocalIndex[i]}
    /\ \A c \in Clients :
           /\ cpc[c] # "free" =>
                /\ received[c].index \in PVs
                /\ received[c].stamp \in 1 .. Len(contentOf)
                /\ contentOf[received[c].stamp] = received[c].content
           /\ cpc[c] \in {"map", "store"} => index[c] = LocalIndex[received[c].index]
           /\ cpc[c] = "map" => index[c] \in PVs

BaseInv == StoreTypeOK /\ ContentsInv /\ MappingInv

LEMMA ReceiveBase ==
    ASSUME BaseInv, NEW c \in Clients, NEW i \in PVs, NEW content \in Contents,
           Receive(c, i, content)
    PROVE  BaseInv'
<1> USE DEF clientVars, storeVars, putVars, targetVars
<1>1. contentOf' \in Seq(Contents) /\ Len(contentOf') = Len(contentOf) + 1
      /\ Len(contentOf) \in Nat
      /\ contentOf'[Len(contentOf) + 1] = content
      /\ \A n \in 1 .. Len(contentOf) : contentOf'[n] = contentOf[n]
  BY DEF BaseInv, StoreTypeOK, Receive
<1>2. Len(contentOf') <= MaxMessages /\ Len(contentOf) + 1 \in Stamps
  BY <1>1 DEF Receive, Stamps
<1>3. received' \in [Clients -> [index : PVs \cup {0}, content : Contents, stamp : Stamps]]
  BY <1>2 DEF BaseInv, StoreTypeOK, Receive
<1>4. cpc' \in [Clients -> {"free", "lookup", "search", "map", "store"}]
  BY DEF BaseInv, StoreTypeOK, Receive
<1>5. StoreTypeOK' /\ ContentsInv'
  BY <1>1, <1>2, <1>3, <1>4 DEF BaseInv, StoreTypeOK, ContentsInv, Receive
<1>6. ASSUME NEW d \in Clients, cpc'[d] # "free"
      PROVE  /\ received'[d].index \in PVs
             /\ received'[d].stamp \in 1 .. Len(contentOf')
             /\ contentOf'[received'[d].stamp] = received'[d].content
  <2>1. CASE d = c
    BY <1>1, <2>1 DEF BaseInv, StoreTypeOK, Receive
  <2>2. CASE d # c
    <3>1. received'[d] = received[d] /\ cpc'[d] = cpc[d]
      BY <2>2 DEF BaseInv, StoreTypeOK, Receive
    <3> QED
      BY <1>1, <1>6, <3>1 DEF BaseInv, MappingInv
  <2> QED
    BY <2>1, <2>2
<1>7. ASSUME NEW d \in Clients, cpc'[d] \in {"map", "store"}
      PROVE  /\ index'[d] = LocalIndex[received'[d].index]
             /\ cpc'[d] = "map" => index'[d] \in PVs
  <2>1. d # c
    BY <1>7 DEF BaseInv, StoreTypeOK, Receive
  <2>2. received'[d] = received[d] /\ cpc'[d] = cpc[d] /\ index' = index
    BY <2>1 DEF BaseInv, StoreTypeOK, Receive
  <2> QED
    BY <1>7, <2>2 DEF BaseInv, MappingInv
<1>8. pvMapping' = pvMapping
  BY DEF Receive
<1> QED
  BY <1>5, <1>6, <1>7, <1>8 DEF BaseInv, MappingInv

LEMMA FindBase ==
    ASSUME BaseInv, NEW c \in Clients, Lookup(c) \/ Search(c) \/ MapIndex(c)
    PROVE  BaseInv'
<1> USE DEF clientVars, storeVars, putVars, targetVars
<1>1. received[c].index \in PVs /\ LocalIndex[received[c].index] \in PVs \cup {NotFound}
  BY DEF BaseInv, MappingInv, Lookup, Search, MapIndex
<1>2. CASE Lookup(c)
  <2>1. pvMapping[received[c].index] \in PVs \cup {Unmapped}
    BY <1>1 DEF BaseInv, StoreTypeOK
  <2>2. StoreTypeOK' /\ ContentsInv'
    BY <1>2, <2>1 DEF BaseInv, StoreTypeOK, ContentsInv, Lookup
  <2>3. MappingInv'
    BY <1>1, <1>2, <2>1 DEF BaseInv, StoreTypeOK, MappingInv, Lookup
  <2> QED
    BY <2>2, <2>3 DEF BaseInv
<1>3. CASE Search(c)
  <2>1. StoreTypeOK' /\ ContentsInv'
    BY <1>1, <1>3 DEF BaseInv, StoreTypeOK, ContentsInv, Search, SearchResult, AfterSearch
  <2>2. MappingInv'
    BY <1>1, <1>3 DEF BaseInv, StoreTypeOK, MappingInv, Search, SearchResult, AfterSearch
  <2> QED
    BY <2>1, <2>2 DEF BaseInv
<1>4. CASE MapIndex(c)
  <2>1. index[c] \in PVs /\ index[c] = LocalIndex[received[c].index]
    BY <1>4 DEF BaseInv, MappingInv, MapIndex
  <2>2. StoreTypeOK' /\ ContentsInv'
    BY <1>4, <2>1 DEF BaseInv, StoreTypeOK, ContentsInv, MapIndex
  <2>3. MappingInv'
    BY <1>1, <1>4, <2>1 DEF BaseInv, StoreTypeOK, MappingInv, MapIndex
  <2> QED
    BY <2>2, <2>3 DEF BaseInv
<1> QED
  BY <1>2, <1>3, <1>4

LEMMA StoreBase ==
    ASSUME BaseInv, NEW c \in Clients, Store(c) PROVE BaseInv'
<1> USE DEF clientVars, storeVars, putVars, targetVars
<1>1. NoVariable \in [index : PVs \cup {0}, content : Contents, stamp : Stamps]
  BY DEF NoVariable, Stamps
<1>2. /\ cpc' \in [Clients -> {"free", "lookup", "search", "map", "store"}]
      /\ index' \in [Clients -> PVs \cup {Unmapped, NotFound}]
      /\ received' \in [Clients -> [index : PVs \cup {0}, content : Contents, stamp : Stamps]]
  BY <1>1 DEF BaseInv, StoreTypeOK, Store
<1>3. memory' \in [PVs -> StoredValues] /\ memoryPrec' \in [PVs -> Contents]
      /\ changeFlag' \subseteq PVs /\ ContentsInv'
  <2>1. CASE index[c] \in PVs
    <3>0. PICK converts \in BOOLEAN :
              /\ memory' = [memory EXCEPT ![index[c]] = Stored(c, converts)]
              /\ memoryPrec' = [memoryPrec EXCEPT ![index[c]] = Stored(c, converts).content]
              /\ changeFlag' = Flagged(index[c], Stored(c, converts).content)
      BY <2>1 DEF Store
    <3>1. Stored(c, converts) \in StoredValues /\ Stored(c, converts).content \in Contents
      BY <2>1, StoredType, StoredContent DEF BaseInv
    <3> DEFINE v == Stored(c, converts)
               p == index[c]
    <3>2. /\ memory' = [memory EXCEPT ![p] = v]
          /\ memoryPrec' = [memoryPrec EXCEPT ![p] = v.content]
          /\ changeFlag' \in {changeFlag, changeFlag \cup {p}}
      BY <3>0 DEF Flagged
    <3> HIDE DEF v, p
    <3>3. p \in PVs /\ v \in StoredValues /\ v.content \in Contents
      BY <2>1, <3>1 DEF v, p
    <3>4. memory' \in [PVs -> StoredValues] /\ memoryPrec' \in [PVs -> Contents]
          /\ changeFlag' \subseteq PVs
      BY <3>2, <3>3 DEF BaseInv, StoreTypeOK
    <3>5. ContentsInv'
      BY <3>2, <3>3 DEF BaseInv, StoreTypeOK, ContentsInv
    <3> QED
      BY <3>4, <3>5
  <2>2. CASE index[c] \notin PVs
    BY <2>2 DEF BaseInv, StoreTypeOK, ContentsInv, Store
  <2> QED
    BY <2>1, <2>2
<1>4. StoreTypeOK'
  BY <1>2, <1>3 DEF BaseInv, StoreTypeOK, Store
<1>5. MappingInv'
  <2>1. \A d \in Clients : d # c =>
            cpc'[d] = cpc[d] /\ received'[d] = received[d] /\ index'[d] = index[d]
    BY DEF BaseInv, StoreTypeOK, Store
  <2>2. cpc'[c] = "free" /\ pvMapping' = pvMapping /\ contentOf' = contentOf
    BY DEF BaseInv, StoreTypeOK, Store
  <2> QED
    BY <2>1, <2>2 DEF BaseInv, MappingInv
<1> QED
  BY <1>3, <1>4, <1>5 DEF BaseInv

LEMMA PutBase ==
    ASSUME BaseInv, NEW t \in PutThreads, PutStep(t) PROVE BaseInv'
<1> USE DEF clientVars, storeVars, putVars, targetVars
<1>0. /\ UNCHANGED <<cpc, received, index, pvMapping, memory, memoryPrec, contentOf>>
  BY DEF PutStep, BeginCycle, EndCycle, Synchronise, Skip, Put, PutFails
<1>1. ContentsInv' /\ MappingInv'
  BY <1>0 DEF BaseInv, ContentsInv, MappingInv
<1>2. CASE BeginCycle(t)
  BY <1>1, <1>2, Starts DEF BaseInv, StoreTypeOK, BeginCycle
<1>3. CASE EndCycle(t)
  BY <1>1, <1>3 DEF BaseInv, StoreTypeOK, EndCycle
<1>4. CASE Synchronise
  BY <1>1, <1>4 DEF BaseInv, StoreTypeOK, Synchronise
<1>5. ASSUME NEW p \in PVs, Skip(t, p) \/ Put(t, p) \/ PutFails(t, p)
      PROVE  BaseInv'
  <2>1. next' \in [PutThreads -> 0 .. numberOfVariables]
    <3>1. p + 1 \in 0 .. numberOfVariables
      BY DEF PVs
    <3>2. next' = [next EXCEPT ![t] = p + 1]
      BY <1>5 DEF Skip, Put, PutFails
    <3> QED
      BY <3>1, <3>2 DEF BaseInv, StoreTypeOK
  <2>2. failures' \in 0 .. MaxFailures /\ putFailed' \subseteq PVs
    <3>1. \/ failures' = failures
          \/ failures < MaxFailures /\ failures' = failures + 1
      <4>1. CASE Skip(t, p)
        BY <4>1 DEF Skip
      <4>2. CASE Put(t, p)
        BY <4>2 DEF Put
      <4>3. CASE PutFails(t, p)
        BY <4>3 DEF PutFails
      <4> QED
        BY <1>5, <4>1, <4>2, <4>3
    <3>2. putFailed' \in {putFailed, putFailed \ {p}, putFailed \cup {p}}
      BY <1>5 DEF Skip, Put, PutFails
    <3>3. failures' \in 0 .. MaxFailures
      BY <3>1 DEF BaseInv, StoreTypeOK
    <3> QED
      BY <3>2, <3>3 DEF BaseInv, StoreTypeOK
  <2>3. target' \in [PVs -> StoredValues]
    <3>1. CASE Put(t, p)
      <4>1. PICK v, s \in ValueRead(p) :
                target' = [target EXCEPT ![p] =
                    [content |-> v.content, from |-> v.from, stamp |-> s.stamp]]
        BY <3>1 DEF Put
      <4>2. v \in StoredValues /\ s \in StoredValues
        BY DEF ValueRead, BaseInv, StoreTypeOK
      <4>3. [content |-> v.content, from |-> v.from, stamp |-> s.stamp] \in StoredValues
        BY <4>2 DEF StoredValues
      <4> QED
        BY <4>1, <4>3 DEF BaseInv, StoreTypeOK
    <3>2. CASE ~Put(t, p)
      BY <1>5, <3>2 DEF BaseInv, StoreTypeOK, Skip, PutFails
    <3> QED
      BY <3>1, <3>2
  <2>4. UNCHANGED <<changeFlag, memory2, changeFlag2, tpc>>
    BY <1>5 DEF Skip, Put, PutFails
  <2> QED
    BY <1>0, <1>1, <2>1, <2>2, <2>3, <2>4 DEF BaseInv, StoreTypeOK
<1> QED
  BY <1>2, <1>3, <1>4, <1>5 DEF PutStep

LEMMA BaseStep == BaseInv /\ [StoreNext]_receiverVars => BaseInv'
<1> SUFFICES ASSUME BaseInv, [StoreNext]_receiverVars PROVE BaseInv'
  OBVIOUS
<1>1. CASE UNCHANGED receiverVars
  BY <1>1 DEF BaseInv, StoreTypeOK, ContentsInv, MappingInv, receiverVars, clientVars, storeVars, putVars,
              targetVars
<1>2. CASE StoreNext
  BY <1>2, ReceiveBase, FindBase, StoreBase, PutBase DEF StoreNext, ClientStep
<1> QED
  BY <1>1, <1>2

LEMMA Base == StoreSpec => []BaseInv
<1>1. StoreInit => BaseInv
  <2>1. StoreInit => ContentsInv
    BY DEF StoreInit, ContentsInv, Zero
  <2>2. StoreInit => MappingInv
    BY DEF StoreInit, MappingInv
  <2> QED
    BY <2>1, <2>2, InitType DEF BaseInv
<1> QED
  BY <1>1, BaseStep, PTL DEF StoreSpec

\* The variables of the receiver keep their types, for every instance.
THEOREM TypeCorrect == StoreSpec => []StoreTypeOK
<1>1. BaseInv => StoreTypeOK
  BY DEF BaseInv
<1> QED
  BY <1>1, Base, PTL

\* A flag that was taken has a thread that puts the PV, whatever the numbers of
\* PVs and threads.
THEOREM RangesAreComplete == StoreSpec => []RangesCover
<1>1. BaseInv => RangesCover
  <2> SUFFICES ASSUME BaseInv, NEW p \in changeFlag2
               PROVE  \E t \in PutThreads : p \in PutRange(t)
    BY DEF RangesCover
  <2>1. p \in 0 .. numberOfVariables - 1
    BY DEF BaseInv, StoreTypeOK, PVs
  <2>2. numberOfVariables \in Nat /\ numberOfInitThreads \in Nat \ {0}
    BY ReceiverAssumption
  <2> QED
    BY <2>1, <2>2, RangesCoverAll DEF PutThreads, PutRange
<1> QED
  BY <1>1, Base, PTL

-----------------------------------------------------------------------------
(* From the store to the PVs of the receiving side.                        *)

IsPair(v) == v.stamp \in 1 .. Len(contentOf) /\ contentOf[v.stamp] = v.content

\* The PV p may hold a value that came under this index.
NameOf(p, from) == from # None => LocalIndex[from] = p

\* What thread 0 took still is in memory, or p is flagged again.
CopyInv ==
    /\ tpc[0] = "copy" => next[0] = 0
    /\ tpc[0] = "scan" =>
           \A p \in OwnPVs : memory2[p].content = memory[p].content \/ p \in changeFlag

\* A PV that is flagged holds value and timestamp of one message.
PairInv ==
    \A p \in PVs : Size[p] = "fits" =>
        /\ p \in changeFlag => IsPair(memory[p])
        /\ p \in changeFlag2 => IsPair(memory2[p])

NamesInv ==
    \A p \in PVs :
        NameOf(p, memory[p].from) /\ NameOf(p, memory2[p].from) /\ NameOf(p, target[p].from)

StoreInv ==
    /\ BaseInv /\ CopyInv /\ PairInv /\ NamesInv
    /\ NoChangeLost /\ PutsArePairs

\* The PVs of thread 0 begin at 0, and no other thread puts them.
LEMMA OwnFacts ==
    /\ 0 \in PutThreads
    /\ OwnPVs \subseteq PVs
    /\ \A p \in OwnPVs : p \in PutRange(0)
                         /\ \A t \in PutThreads : p \in PutRange(t) => t = 0
    /\ \E e \in Int : PutRange(0) = 0 .. e
<1>1. PICK e \in Int : e < numberOfVariables /\ PutRange(0) = 0 .. e
  BY RangeStarts DEF PutRange
<1>2. 0 \in PutThreads
  BY DEF PutThreads
<1>3. OwnPVs \subseteq PVs
  BY <1>1 DEF OwnPVs, PVs
<1> QED
  BY <1>1, <1>2, <1>3 DEF OwnPVs

\* A message that arrives changes nothing but the messages received.
LEMMA PairsGrow ==
    ASSUME BaseInv, NEW c \in Clients, NEW i \in PVs, NEW content \in Contents,
           Receive(c, i, content),
           NEW n \in 1 .. Len(contentOf)
    PROVE  n \in 1 .. Len(contentOf') /\ contentOf'[n] = contentOf[n]
  BY DEF BaseInv, StoreTypeOK, Receive

LEMMA ReceiveStore ==
    ASSUME StoreInv, NEW c \in Clients, NEW i \in PVs, NEW content \in Contents,
           Receive(c, i, content)
    PROVE  StoreInv'
<1>1. BaseInv'
  BY ReceiveBase DEF StoreInv
<1>2. UNCHANGED <<memory, memoryPrec, memory2, changeFlag, changeFlag2, tpc, next, target,
                  putFailed>>
  BY DEF Receive, putVars, targetVars
<1>3. \A v : IsPair(v) => v.stamp \in 1 .. Len(contentOf') /\ contentOf'[v.stamp] = v.content
  BY PairsGrow DEF StoreInv, IsPair
<1>4. PairInv'
  <2>1. \A p \in PVs : Size[p] = "fits" =>
            /\ p \in changeFlag => IsPair(memory[p])'
            /\ p \in changeFlag2 => IsPair(memory2[p])'
    BY <1>2, <1>3 DEF StoreInv, PairInv, IsPair
  <2> QED
    BY <1>2, <2>1 DEF PairInv
<1>5. PutsArePairs'
  BY <1>2, PairsGrow DEF StoreInv, PutsArePairs, OwnPVs
<1>6. CopyInv' /\ NamesInv' /\ NoChangeLost'
  BY <1>2 DEF StoreInv, CopyInv, NamesInv, NameOf, NoChangeLost, UpToDate, Pending
<1> QED
  BY <1>1, <1>4, <1>5, <1>6 DEF StoreInv

LEMMA FindStore ==
    ASSUME StoreInv, NEW c \in Clients, Lookup(c) \/ Search(c) \/ MapIndex(c)
    PROVE  StoreInv'
<1>1. BaseInv'
  BY FindBase DEF StoreInv
<1>2. UNCHANGED <<memory, memoryPrec, memory2, changeFlag, changeFlag2, tpc, next, target,
                  putFailed, contentOf>>
  BY DEF Lookup, Search, MapIndex, storeVars, putVars, targetVars
<1> QED
  BY <1>1, <1>2 DEF StoreInv, CopyInv, NamesInv, NameOf, NoChangeLost, UpToDate, Pending,
                    PairInv, IsPair, PutsArePairs

LEMMA StoreStore ==
    ASSUME StoreInv, NEW c \in Clients, Store(c) PROVE StoreInv'
<1>1. BaseInv'
  BY StoreBase DEF StoreInv
<1>2. UNCHANGED <<memory2, changeFlag2, tpc, next, target, putFailed, contentOf>>
  BY DEF Store, putVars, targetVars
<1>3. CASE index[c] \notin PVs
  <2>1. UNCHANGED <<memory, memoryPrec, changeFlag>>
    BY <1>3 DEF Store
  <2> QED
    BY <1>1, <1>2, <2>1 DEF StoreInv, CopyInv, NamesInv, NameOf, NoChangeLost, UpToDate, Pending,
                            PairInv, IsPair, PutsArePairs
<1>4. CASE index[c] \in PVs
  <2>0. PICK converts \in BOOLEAN :
            /\ memory' = [memory EXCEPT ![index[c]] = Stored(c, converts)]
            /\ changeFlag' = Flagged(index[c], Stored(c, converts).content)
    BY <1>4 DEF Store
  <2> DEFINE q == index[c]
             v == Stored(c, converts)
             m == received[c]
  <2>1. /\ memory' = [memory EXCEPT ![q] = v]
        /\ changeFlag' = IF v.content # memoryPrec[q] THEN changeFlag \cup {q} ELSE changeFlag
        /\ cpc[c] = "store"
    BY <2>0 DEF Store, Flagged
  <2>2. /\ m.index \in PVs /\ q = LocalIndex[m.index]
        /\ m.stamp \in 1 .. Len(contentOf) /\ contentOf[m.stamp] = m.content
    BY <2>1 DEF StoreInv, BaseInv, MappingInv
  <2>3. Size[q] = "fits" => v = [content |-> m.content, from |-> m.index, stamp |-> m.stamp]
    BY DEF Stored
  <2>4. v.from = m.index \/ v.from = memory[q].from
    <3>1. memory[q] \in StoredValues
      BY <1>4 DEF StoreInv, BaseInv, StoreTypeOK
    <3> QED
      BY <3>1 DEF Stored, StoredValues
  <2> HIDE DEF q, v, m
  <2>5. q \in PVs /\ memory \in [PVs -> StoredValues] /\ memoryPrec[q] = memory[q].content
    BY <1>4 DEF q, StoreInv, BaseInv, StoreTypeOK, ContentsInv
  <2>6. /\ memory'[q] = v
        /\ \A p \in PVs : p # q => memory'[p] = memory[p]
        /\ changeFlag \subseteq changeFlag' /\ changeFlag' \subseteq changeFlag \cup {q}
        /\ v.content # memory[q].content => q \in changeFlag'
    BY <2>1, <2>5
  <2>7. CopyInv'
    <3>1. \A p \in OwnPVs : p \in PVs
      BY OwnFacts
    <3>2. \A p \in OwnPVs :
              memory2[p].content = memory[p].content \/ p \in changeFlag =>
              memory2[p].content = memory'[p].content \/ p \in changeFlag'
      BY <2>6, <3>1
    <3> QED
      BY <1>2, <3>2 DEF StoreInv, CopyInv
  <2>8. PairInv'
    <3>1. Size[q] = "fits" => IsPair(memory'[q])
      BY <2>2, <2>3, <2>6 DEF IsPair
    <3>2. \A p \in PVs : Size[p] = "fits" =>
              /\ p \in changeFlag' => IsPair(memory'[p])
              /\ p \in changeFlag2 => IsPair(memory2[p])
      BY <2>6, <3>1 DEF StoreInv, PairInv
    <3> QED
      BY <1>2, <3>2 DEF PairInv, IsPair
  <2>9. NamesInv'
    <3>1. NameOf(q, v.from)
      BY <2>2, <2>4, <2>5 DEF StoreInv, NamesInv, NameOf
    <3> QED
      BY <1>2, <2>6, <3>1 DEF StoreInv, NamesInv, NameOf
  <2>10. NoChangeLost'
    <3> SUFFICES ASSUME NEW p \in OwnPVs PROVE UpToDate(p)' \/ Pending(p)'
      BY DEF NoChangeLost
    <3>1. p \in PVs /\ (UpToDate(p) \/ Pending(p))
      BY OwnFacts DEF StoreInv, NoChangeLost
    <3>2. CASE p \in changeFlag'
      BY <3>2 DEF Pending
    <3>3. CASE p \notin changeFlag'
      <4>1. memory'[p].content = memory[p].content
        BY <2>6, <3>1, <3>3
      <4>2. Pending(p) => Pending(p)'
        BY <1>2, <2>6 DEF Pending
      <4>3. UpToDate(p) => UpToDate(p)'
        BY <1>2, <4>1 DEF UpToDate, Own
      <4> QED
        BY <3>1, <4>2, <4>3
    <3> QED
      BY <3>2, <3>3
  <2>11. PutsArePairs'
    BY <1>2 DEF StoreInv, PutsArePairs
  <2> QED
    BY <1>1, <2>7, <2>8, <2>9, <2>10, <2>11 DEF StoreInv
<1> QED
  BY <1>3, <1>4

LEMMA CycleStore ==
    ASSUME StoreInv, NEW t \in PutThreads, BeginCycle(t) \/ EndCycle(t)
    PROVE  StoreInv'
<1>1. BaseInv'
  BY PutBase DEF StoreInv, PutStep
<1>2. /\ UNCHANGED <<memory, memoryPrec, memory2, changeFlag, changeFlag2, target, putFailed,
                     contentOf>>
      /\ tpc \in [PutThreads -> {"cycle", "copy", "scan"}]
      /\ next \in [PutThreads -> 0 .. numberOfVariables]
  BY DEF BeginCycle, EndCycle, storeVars, targetVars, StoreInv, BaseInv, StoreTypeOK
<1>3. PairInv' /\ NamesInv' /\ PutsArePairs'
  BY <1>2 DEF StoreInv, PairInv, IsPair, NamesInv, NameOf, PutsArePairs
<1>4. CASE t # 0
  <2>1. tpc'[0] = tpc[0] /\ next'[0] = next[0]
    BY <1>2, <1>4, OwnFacts DEF BeginCycle, EndCycle
  <2> QED
    BY <1>1, <1>2, <1>3, <2>1 DEF StoreInv, CopyInv, NoChangeLost, UpToDate, Pending
<1>5. CASE t = 0 /\ BeginCycle(t)
  <2>1. 0 * (numberOfVariables \div numberOfInitThreads) = 0
    BY DivFacts
  <2>2. tpc[0] = "cycle" /\ tpc'[0] = "copy" /\ next'[0] = 0
    BY <1>2, <1>5, <2>1, OwnFacts DEF BeginCycle
  <2> QED
    BY <1>1, <1>2, <1>3, <2>2 DEF StoreInv, CopyInv, NoChangeLost, UpToDate, Pending
<1>6. CASE t = 0 /\ EndCycle(t)
  <2>1. tpc[0] = "scan" /\ tpc'[0] = "cycle" /\ next[0] \notin PutRange(0) /\ next[0] \in Nat
    BY <1>2, <1>6, OwnFacts DEF EndCycle
  <2>2. \A p \in OwnPVs : ~(next[0] <= p)
    BY <2>1, OwnFacts
  <2> QED
    BY <1>1, <1>2, <1>3, <2>1, <2>2 DEF StoreInv, CopyInv, NoChangeLost, UpToDate, Pending
<1> QED
  BY <1>4, <1>5, <1>6

LEMMA SynchroniseStore == ASSUME StoreInv, Synchronise PROVE StoreInv'
<1>1. BaseInv'
  BY PutBase, OwnFacts DEF StoreInv, PutStep
<1>2. /\ UNCHANGED <<memory, memoryPrec, next, target, putFailed, contentOf>>
      /\ memory2' = memory /\ changeFlag2' = changeFlag /\ changeFlag' = {}
      /\ tpc[0] = "copy" /\ tpc'[0] = "scan" /\ next[0] = 0
  BY OwnFacts DEF Synchronise, storeVars, targetVars, StoreInv, CopyInv, BaseInv, StoreTypeOK
<1>3. PairInv' /\ NamesInv' /\ PutsArePairs' /\ CopyInv'
  BY <1>2 DEF StoreInv, PairInv, IsPair, NamesInv, NameOf, PutsArePairs, CopyInv
<1>4. NoChangeLost'
  <2>1. \A p \in OwnPVs : 0 <= p
    BY OwnFacts DEF PVs
  <2> QED
    BY <1>2, <2>1 DEF StoreInv, NoChangeLost, UpToDate, Pending
<1> QED
  BY <1>1, <1>3, <1>4 DEF StoreInv

\* Thread t deals with PV p: it skips it, puts it or fails to.
LEMMA ScanStore ==
    ASSUME StoreInv, NEW t \in PutThreads, NEW p \in PVs,
           Skip(t, p) \/ Put(t, p) \/ PutFails(t, p)
    PROVE  StoreInv'
<1>1. BaseInv'
  BY PutBase DEF StoreInv, PutStep
<1>2. /\ UNCHANGED <<memory, memoryPrec, memory2, changeFlag, changeFlag2, tpc, contentOf>>
      /\ next' = [next EXCEPT ![t] = p + 1] /\ next[t] = p /\ p \in PutRange(t)
      /\ tpc[t] = "scan"
      /\ next \in [PutThreads -> 0 .. numberOfVariables]
      /\ target \in [PVs -> StoredValues]
  BY DEF Skip, Put, PutFails, Scanning, storeVars, StoreInv, BaseInv, StoreTypeOK
<1>3. PairInv' /\ CopyInv'
  <2>1. tpc[0] = "copy" => t # 0
    BY <1>2
  <2>2. tpc[0] = "copy" => next'[0] = next[0]
    BY <1>2, <2>1, OwnFacts
  <2> QED
    BY <1>2, <2>2 DEF StoreInv, PairInv, IsPair, CopyInv
<1>4. \A q \in PVs : q # p => target'[q] = target[q] /\ (q \in putFailed' <=> q \in putFailed)
  <2>1. CASE Skip(t, p)
    BY <2>1 DEF Skip, targetVars
  <2>2. CASE Put(t, p)
    BY <1>2, <2>2 DEF Put
  <2>3. CASE PutFails(t, p)
    BY <2>3 DEF PutFails
  <2> QED
    BY <2>1, <2>2, <2>3
<1>5. \A q \in OwnPVs : q # p => (Pending(q) => Pending(q)')
  <2> SUFFICES ASSUME NEW q \in OwnPVs, q # p, Pending(q) PROVE Pending(q)'
    OBVIOUS
  <2>1. next[0] \in Int /\ next'[0] = IF t = 0 THEN p + 1 ELSE next[0]
    BY <1>2, OwnFacts
  <2>2. q \in Int /\ p \in Int
    BY OwnFacts DEF PVs
  <2>3. next[0] <= q => next'[0] <= q
    BY <1>2, <2>1, <2>2
  <2> QED
    BY <1>2, <2>3 DEF Pending
<1>6. NamesInv'
  <2>1. CASE Put(t, p)
    <3>1. PICK v, s \in ValueRead(p) :
              target' = [target EXCEPT ![p] =
                  [content |-> v.content, from |-> v.from, stamp |-> s.stamp]]
      BY <2>1 DEF Put
    <3>2. target'[p].from = v.from
      BY <1>2, <3>1
    <3>3. v = memory2[p] \/ v = memory[p]
      BY DEF ValueRead
    <3>4. NameOf(p, v.from)
      BY <3>3 DEF StoreInv, NamesInv
    <3> QED
      BY <1>2, <1>4, <3>2, <3>4 DEF StoreInv, NamesInv, NameOf
  <2>2. CASE ~Put(t, p)
    <3>1. target' = target
      BY <2>2 DEF Skip, PutFails, targetVars
    <3> QED
      BY <1>2, <3>1 DEF StoreInv, NamesInv, NameOf
  <2> QED
    BY <2>1, <2>2
<1>7. CASE p \notin OwnPVs
  <2>1. \A q \in OwnPVs : q # p /\ q \in PVs
    BY <1>7, OwnFacts
  <2>2. NoChangeLost'
    BY <1>2, <1>4, <1>5, <2>1 DEF StoreInv, NoChangeLost, UpToDate, Own
  <2>3. PutsArePairs'
    BY <1>2, <1>4, <2>1 DEF StoreInv, PutsArePairs, Own
  <2> QED
    BY <1>1, <1>3, <1>6, <2>2, <2>3 DEF StoreInv
<1>8. CASE p \in OwnPVs
  <2>1. t = 0 /\ tpc[0] = "scan" /\ Unlocked
    BY <1>2, <1>8, OwnFacts DEF Unlocked
  <2>2. FlagRead(p) = {(p \in changeFlag2)} /\ ValueRead(p) = {memory2[p]}
    BY <2>1 DEF FlagRead, ValueRead
  <2>3. \A q \in OwnPVs : q # p => UpToDate(q)' \/ Pending(q)'
    BY <1>2, <1>4, <1>5, OwnFacts DEF StoreInv, NoChangeLost, UpToDate, Own
  <2>4. memory2[p].content = memory[p].content \/ p \in changeFlag
    BY <1>8, <2>1 DEF StoreInv, CopyInv
  <2>5. CASE Skip(t, p)
    <3>1. p \notin changeFlag2 /\ target' = target /\ putFailed' = putFailed
      BY <2>2, <2>5 DEF Skip, targetVars
    <3>2. UpToDate(p)' \/ Pending(p)'
      BY <1>2, <1>8, <3>1 DEF StoreInv, NoChangeLost, UpToDate, Pending
    <3> QED
      BY <1>1, <1>2, <1>3, <1>6, <2>3, <3>1, <3>2 DEF StoreInv, NoChangeLost, PutsArePairs
  <2>6. CASE PutFails(t, p)
    <3>1. target' = target /\ p \in putFailed'
      BY <2>6 DEF PutFails
    <3>2. UpToDate(p)'
      BY <3>1 DEF UpToDate
    <3> QED
      BY <1>1, <1>2, <1>3, <1>6, <2>3, <3>1, <3>2 DEF StoreInv, NoChangeLost, PutsArePairs
  <2>7. CASE Put(t, p)
    <3>1. p \in changeFlag2
      BY <2>2, <2>7 DEF Put
    <3>2. target'[p] = [content |-> memory2[p].content, from |-> memory2[p].from,
                        stamp |-> memory2[p].stamp]
      BY <1>2, <2>2, <2>7 DEF Put
    <3>3. UpToDate(p)' \/ Pending(p)'
      BY <1>2, <2>4, <3>2 DEF UpToDate, Pending
    <3>4. Size[p] = "fits" => IsPair(target'[p])
      BY <3>1, <3>2 DEF StoreInv, PairInv, IsPair
    <3>5. PutsArePairs'
      <4>1. \A q \in OwnPVs : q # p => q \in PVs /\ target'[q] = target[q]
        BY <1>4, OwnFacts
      <4> QED
        BY <1>2, <3>4, <4>1 DEF StoreInv, PutsArePairs, IsPair, Own
    <3> QED
      BY <1>1, <1>3, <1>6, <2>3, <3>3, <3>5 DEF StoreInv, NoChangeLost
  <2> QED
    BY <2>5, <2>6, <2>7
<1> QED
  BY <1>7, <1>8

LEMMA StoreStep == StoreInv /\ [StoreNext]_receiverVars => StoreInv'
<1> SUFFICES ASSUME StoreInv, [StoreNext]_receiverVars PROVE StoreInv'
  OBVIOUS
<1>1. CASE UNCHANGED receiverVars
  <2>1. BaseInv'
    BY BaseStep DEF StoreInv
  <2> QED
    BY <1>1, <2>1 DEF StoreInv, CopyInv, NamesInv, NameOf, NoChangeLost, UpToDate, Pending,
                      PairInv, IsPair, PutsArePairs, receiverVars, clientVars, storeVars, putVars,
                      targetVars
<1>2. CASE StoreNext
  BY <1>2, ReceiveStore, FindStore, StoreStore, CycleStore, SynchroniseStore, ScanStore
  DEF StoreNext, ClientStep, PutStep
<1> QED
  BY <1>1, <1>2

LEMMA StoreInvariant == StoreSpec => []StoreInv
<1>1. StoreInit => StoreInv
  <2>1. StoreInit => BaseInv
    <3>1. StoreInit => ContentsInv /\ MappingInv
      BY DEF StoreInit, ContentsInv, MappingInv, Zero
    <3> QED
      BY <3>1, InitType DEF BaseInv
  <2>2. StoreInit => CopyInv /\ PairInv /\ NamesInv
    BY OwnFacts DEF StoreInit, CopyInv, PairInv, NamesInv, NameOf, Zero, Own
  <2>3. StoreInit => NoChangeLost /\ PutsArePairs
    BY OwnFacts DEF StoreInit, NoChangeLost, UpToDate, PutsArePairs, Zero, Own
  <2> QED
    BY <2>1, <2>2, <2>3 DEF StoreInv
<1> QED
  BY <1>1, StoreStep, PTL DEF StoreSpec

\* Of the PVs only thread 0 puts, no change is ever dropped between the store
\* and the receiving side (ReadVarValueAndSkip, Synchronise and the cycle).
THEOREM NoOwnChangeLost == StoreSpec => []NoChangeLost
<1>1. StoreInv => NoChangeLost
  BY DEF StoreInv
<1> QED
  BY <1>1, StoreInvariant, PTL

\* No change of a PV only thread 0 puts is lost, and every flag that is taken
\* has a thread, for any number of PVs and threads.
THEOREM NothingIsLostOnTheWay == StoreSpec => []NothingIsLost
<1>1. NoChangeLost /\ RangesCover => NothingIsLost
  BY DEF NothingIsLost
<1> QED
  BY <1>1, NoOwnChangeLost, RangesAreComplete, PTL

\* Their value and timestamp were received in one message.
THEOREM OwnPutsArePairs == StoreSpec => []PutsArePairs
<1>1. StoreInv => PutsArePairs
  BY DEF StoreInv
<1> QED
  BY <1>1, StoreInvariant, PTL

\* A value reaches only the PV of the name it was sent under, whatever the
\* connections and the order in which they search and map.
THEOREM ValuesReachTheirPv == StoreSpec => []NamesMatch
<1>1. StoreInv => NamesMatch
  BY DEF StoreInv, NamesInv, NameOf, NamesMatch
<1> QED
  BY <1>1, StoreInvariant, PTL

=============================================================================
