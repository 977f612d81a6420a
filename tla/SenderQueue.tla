---------------------------- MODULE SenderQueue -----------------------------
(***************************************************************************)
(* The queue of PrioritySender: what the main thread decides to send.      *)
(* In every cycle PrioritySenderCycleLoop takes the changed flags of the   *)
(* data source, moves the changed PVs to the front of the queue (or makes  *)
(* a plain FIFO step), cuts a window from the front and publishes it; the  *)
(* pool threads send the window in slices.                                 *)
(*                                                                         *)
(* Queue positions are the indices of indexList; an offset is a position   *)
(* counted from currentIdx.  A value is abstracted to whether it is the    *)
(* latest one of its PV: a PV is a member of inMemory, inPublished or      *)
(* delivered when the sender's memory, the memory of the pool or the       *)
(* receiver holds its latest value.                                        *)
(*                                                                         *)
(* The barrier between the main thread and the pool is that of module      *)
(* SenderPool, one step per slice: a window is published only when every   *)
(* thread is back (PublishExclusive), and each position of the window is   *)
(* taken at most once (SlicesPartition).                                   *)
(***************************************************************************)
EXTENDS Integers, Sequences, FiniteSets

CONSTANTS
    NumberOfVariables,      \* PVs
    NumberOfPoolThreads,    \* slices of a window
    NumberOfSignalToBeSent, \* PVs per slice
    PvSize,                 \* numberOfElements * memorySize of each PV
    MaxBytesPerCycle,
    ResetCounter,           \* cycles until FIFO is forced
    MaxChanges,             \* bound on the changes of PVs
    MaxFailures             \* bound on the failures of connections

PVs     == 0 .. NumberOfVariables - 1
Pool    == 0 .. NumberOfPoolThreads - 1
maxSignalPerThread == NumberOfSignalToBeSent * NumberOfPoolThreads

ASSUME QueueAssumption ==
    /\ NumberOfVariables \in Nat \ {0}
    /\ NumberOfPoolThreads \in Nat \ {0}
    /\ NumberOfSignalToBeSent \in Nat \ {0}
    /\ maxSignalPerThread <= NumberOfVariables
    /\ PvSize \in [PVs -> Nat]
    /\ MaxBytesPerCycle \in Nat /\ ResetCounter \in Nat
    /\ MaxChanges \in Nat /\ MaxFailures \in Nat

\* SetDataSource: the cycles of one FIFO pass, rounded up.
numberOfChunks ==
    (NumberOfVariables + maxSignalPerThread - 1) \div maxSignalPerThread

\* Initialise: the option is read, and set to 0 exactly when it was given.
sendOnlyChanged == 0

VARIABLES
    pc,                \* the main thread: "cycle", "synch", "sort", "bubble",
                       \* "cut", "wait"
    i, j,              \* its loop variables
    sortSize,          \* pvSize, the size the insertion compares with
    nVariables,        \* the length of the window being prepared
    chunkCounterRead,  \* chunckCounter at the start of the cycle
    indexList,         \* the queue: a PV at each position
    currentIdx,        \* the position of the front
    currentChangePos,  \* the offset after the changed PVs
    chunckCounter,     \* FIFO cycles made since the last restart
    sendCounter,       \* cycles made, counted up to ResetCounter
    sourceFlag,        \* PVs flagged in the data source
    changeFlag,        \* PVs flagged in the copy of the main thread
    carried,           \* history: while the queue is sorted, the PVs that lay
                       \* before currentChangePos, changed in earlier cycles
    inMemory,          \* PVs whose latest value is in memory
    inPublished,       \* PVs whose latest value is in memoryThreads
    numberOfChangedVariables, \* the length of the published window
    window,            \* the part of it no thread has taken: PVs in order
    busy,              \* pool threads that have not returned from the window
    down,              \* pool threads that must connect again
    delivered,         \* PVs whose latest value the receiver has
    changes, failures  \* counted up to their bounds

queueVars  == <<indexList, currentIdx, currentChangePos>>
loopVars   == <<i, j, sortSize, nVariables, chunkCounterRead>>
flagVars   == <<sourceFlag, changeFlag, carried>>
poolVars   == <<numberOfChangedVariables, window, busy, down>>
vars == <<pc, loopVars, queueVars, chunckCounter, sendCounter, flagVars,
          inMemory, inPublished, poolVars, delivered, changes, failures>>

Position(offset) == (currentIdx + offset) % NumberOfVariables

\* The PVs at the first n offsets.
FirstPVs(n) == {indexList[Position(o)] : o \in 0 .. n - 1}

\* Variant with a bug: the value of p is not kept.
SwapWithoutTemp(list, p, q) == [list EXCEPT ![p] = list[q]]

Swap(list, p, q) == [list EXCEPT ![p] = list[q], ![q] = list[p]]

\* SetDataSource, then Start, which takes the first values and flags.
Init ==
    /\ pc = "cycle" /\ i = 0 /\ j = 0 /\ sortSize = 0
    /\ nVariables = 0 /\ chunkCounterRead = 0
    /\ indexList = [p \in PVs |-> p]
    /\ currentIdx = 0 /\ currentChangePos = 0
    /\ chunckCounter = 0 /\ sendCounter = 0
    /\ sourceFlag = {} /\ changeFlag = {} /\ carried = {}
    /\ inMemory = PVs /\ inPublished = {} /\ delivered = {}
    /\ numberOfChangedVariables = 0 /\ window = <<>> /\ busy = Pool /\ down = Pool
    /\ changes = 0 /\ failures = 0

-----------------------------------------------------------------------------
(* The main thread.                                                        *)

ReadCounters ==
    /\ pc = "cycle" /\ pc' = "synch"
    /\ chunkCounterRead' = chunckCounter
    /\ UNCHANGED <<i, j, sortSize, nVariables, queueVars, chunckCounter,
                   sendCounter, flagVars, inMemory, inPublished, poolVars,
                   delivered, changes, failures>>

\* Synchronise copies values and flags and clears the flags of the source.
\* Then the queue is sorted, or one more chunk of the FIFO pass is counted -
\* by now a thread that connected may have set chunckCounter back.
Synchronise ==
    /\ pc = "synch"
    /\ inMemory' = PVs
    /\ changeFlag' = sourceFlag /\ sourceFlag' = {}
    /\ i' = 0
    /\ chunkCounterRead' = 0
    /\ IF chunkCounterRead >= numberOfChunks
       THEN /\ pc' = "sort" /\ nVariables' = currentChangePos
            /\ carried' = FirstPVs(currentChangePos)
            /\ UNCHANGED chunckCounter
       ELSE /\ pc' = "cut" /\ nVariables' = maxSignalPerThread
            /\ chunckCounter' = chunckCounter + 1
            /\ UNCHANGED carried
    /\ UNCHANGED <<j, sortSize, queueVars, sendCounter, inPublished, poolVars,
                   delivered, changes, failures>>

\* One iteration of the sort: a changed PV is swapped with the PV after the
\* changed ones.  Its size is looked up by position, not by PV.
Examine ==
    LET next == Position(i)
        prev == Position(currentChangePos)
        flagged == indexList[next] \in changeFlag
    IN
    /\ pc = "sort" /\ i < NumberOfVariables
    /\ IF flagged
       THEN /\ indexList' = Swap(indexList, prev, next)
            /\ sortSize' = PvSize[next]
            /\ nVariables' = nVariables + 1
            /\ j' = currentChangePos
            /\ pc' = "bubble" /\ i' = i
       ELSE i' = i + 1 /\ UNCHANGED <<pc, indexList, sortSize, nVariables, j>>
    /\ UNCHANGED <<chunkCounterRead, currentIdx, currentChangePos,
                   chunckCounter, sendCounter, flagVars, inMemory, inPublished, poolVars,
                   delivered, changes, failures>>

\* One iteration of the insertion: forward past the larger ones ...
Bubble ==
    LET at == Position(j)
        before == IF at = 0 THEN NumberOfVariables - 1 ELSE at - 1
    IN
    /\ pc = "bubble" /\ j > 0 /\ PvSize[before] > sortSize
    /\ indexList' = Swap(indexList, before, at)
    /\ j' = j - 1
    /\ UNCHANGED <<pc, i, sortSize, nVariables, chunkCounterRead, currentIdx, currentChangePos,
                   chunckCounter, sendCounter, flagVars, inMemory, inPublished,
                   poolVars, delivered, changes, failures>>

\* Variant with a bug: currentChangePos is not moved.
InsertedNotCounted ==
    /\ pc = "bubble" /\ pc' = "sort" /\ i' = i + 1 /\ j' = 0 /\ sortSize' = 0
    /\ UNCHANGED <<nVariables, chunkCounterRead, queueVars, chunckCounter,
                   sendCounter, flagVars, inMemory, inPublished, poolVars, delivered, changes, failures>>

\* ... until the front or a smaller one: one more changed PV is in place.
Inserted ==
    LET at == Position(j)
        before == IF at = 0 THEN NumberOfVariables - 1 ELSE at - 1
    IN
    /\ pc = "bubble" /\ (j = 0 \/ PvSize[before] <= sortSize)
    /\ currentChangePos' = currentChangePos + 1
    /\ pc' = "sort" /\ i' = i + 1 /\ j' = 0 /\ sortSize' = 0
    /\ UNCHANGED <<nVariables, chunkCounterRead, indexList, currentIdx, chunckCounter,
                   sendCounter, flagVars, inMemory, inPublished, poolVars,
                   delivered, changes, failures>>

Sorted ==
    /\ pc = "sort" /\ i = NumberOfVariables
    /\ pc' = "cut" /\ i' = 0 /\ carried' = {}
    /\ UNCHANGED <<j, sortSize, nVariables, chunkCounterRead, queueVars, chunckCounter,
                   sendCounter, sourceFlag, changeFlag, inMemory, inPublished, poolVars,
                   delivered, changes, failures>>

\* The bytes of the first positions, again by position.
Bytes(n) ==
    LET total[k \in 0 .. n] ==
            IF k = 0 THEN 0 ELSE total[k - 1] + PvSize[Position(k - 1)]
    IN  total[n]

\* The window asked for, before the cap on bytes.
WindowWanted ==
    IF sendOnlyChanged = 0 \/ nVariables > maxSignalPerThread
    THEN maxSignalPerThread ELSE nVariables

\* The window has n PVs: all those asked for; or, when the position after the
\* first n + 1 exceeds the cap, one less than fit; or none when the first does.
IsWindowLength(n) ==
    \/ n = WindowWanted /\ Bytes(n) <= MaxBytesPerCycle
    \/ /\ n + 2 <= WindowWanted
       /\ Bytes(n + 1) <= MaxBytesPerCycle /\ Bytes(n + 2) > MaxBytesPerCycle
    \/ n = 0 /\ Bytes(1) > MaxBytesPerCycle

\* The changed PVs that a window of n PVs leaves.
Left(n) == IF currentChangePos > n THEN currentChangePos - n ELSE 0

\* The window is cut, the changed PVs left are counted; too many of them, or
\* the reset counter, restart the FIFO pass.
Cut(n) ==
    LET restart == \/ Left(n) > NumberOfVariables - maxSignalPerThread
                   \/ sendCounter >= ResetCounter
    IN
    /\ pc = "cut" /\ pc' = "wait"
    /\ IsWindowLength(n)
    /\ nVariables' = n
    /\ currentChangePos' = IF restart THEN 0 ELSE Left(n)
    /\ chunckCounter' = IF restart THEN 0 ELSE chunckCounter
    /\ UNCHANGED <<i, j, sortSize, chunkCounterRead, indexList, currentIdx,
                   sendCounter, flagVars, inMemory, inPublished, poolVars,
                   delivered, changes, failures>>

\* Variant with a bug: the front of the queue stays where it is.
SameFront == currentIdx

\* The front of the queue, once the window is published.
NextFront == Position(nVariables)

\* Every thread is back: the window is published, and the cycle ends.
Publish ==
    /\ pc = "wait" /\ busy = {} /\ pc' = "cycle"
    /\ inPublished' = inMemory
    /\ window' = [n \in 1 .. nVariables |-> indexList[Position(n - 1)]]
    /\ numberOfChangedVariables' = nVariables
    /\ currentIdx' = NextFront
    /\ nVariables' = 0
    /\ busy' = Pool
    /\ sendCounter' = IF sendCounter < ResetCounter THEN sendCounter + 1
                      ELSE sendCounter
    /\ UNCHANGED <<i, j, sortSize, chunkCounterRead, indexList, currentChangePos,
                   chunckCounter, flagVars, inMemory, down, delivered, changes,
                   failures>>

MainStep ==
    \/ ReadCounters \/ Synchronise \/ Examine \/ Bubble \/ Inserted \/ Sorted \/ Publish
    \/ \E n \in 0 .. maxSignalPerThread : Cut(n)

-----------------------------------------------------------------------------
(* The pool threads, one step per slice, and the data source.              *)

Share(t) ==
    numberOfChangedVariables \div NumberOfPoolThreads
        + (IF t = NumberOfPoolThreads - 1
           THEN numberOfChangedVariables % NumberOfPoolThreads ELSE 0)

\* Thread t takes the next slice; its first n PVs reach the receiver.
Take(t, n) ==
    /\ t \in busy \ down
    /\ busy' = busy \ {t}
    /\ window' = SubSeq(window, Share(t) + 1, Len(window))
    /\ delivered' = delivered \cup
                       (inPublished \cap {window[k] : k \in 1 .. n})
    /\ UNCHANGED <<pc, loopVars, queueVars, chunckCounter, sendCounter, flagVars,
                   inMemory, inPublished, numberOfChangedVariables, changes>>

SliceSent(t) == Take(t, Share(t)) /\ UNCHANGED <<down, failures>>

\* The connection fails on the way: the slice is lost from there on.
SliceFails(t, n) ==
    /\ failures < MaxFailures /\ failures' = failures + 1
    /\ Share(t) > 0
    /\ Take(t, n)
    /\ down' = down \cup {t}

\* Instead of sending, the thread connects again, and restarts the FIFO pass.
Reconnect(t) ==
    /\ t \in busy \cap down
    /\ busy' = busy \ {t} /\ down' = down \ {t}
    /\ chunckCounter' = 0
    /\ UNCHANGED <<pc, loopVars, queueVars, sendCounter, flagVars, inMemory,
                   inPublished, numberOfChangedVariables, window, delivered,
                   changes, failures>>

PoolStep(t) == SliceSent(t) \/ Reconnect(t) \/ \E n \in 0 .. Share(t) : SliceFails(t, n)

\* A PV changes: its callback stores the value and raises the flag.
Change(pv) ==
    /\ changes < MaxChanges /\ changes' = changes + 1
    /\ sourceFlag' = sourceFlag \cup {pv}
    /\ inMemory' = inMemory \ {pv}
    /\ inPublished' = inPublished \ {pv}
    /\ delivered' = delivered \ {pv}
    /\ UNCHANGED <<pc, loopVars, queueVars, chunckCounter, sendCounter,
                   changeFlag, carried, poolVars, failures>>

Next == MainStep \/ (\E t \in Pool : PoolStep(t)) \/ (\E pv \in PVs : Change(pv))

Spec == Init /\ [][Next]_vars

\* The main thread and the pool run; the receiver can be reached again.
FairSpec ==
    /\ Spec /\ WF_vars(MainStep)
    /\ \A t \in Pool : WF_vars(SliceSent(t) \/ Reconnect(t))

-----------------------------------------------------------------------------
(* Properties.                                                             *)

TypeOK ==
    /\ pc \in {"cycle", "synch", "sort", "bubble", "cut", "wait"}
    /\ i \in Nat /\ j \in Nat /\ sortSize \in Nat
    /\ nVariables \in Nat /\ chunkCounterRead \in Nat
    /\ pc = "wait" => nVariables <= maxSignalPerThread
    /\ indexList \in [PVs -> PVs] /\ currentIdx \in PVs
    /\ currentChangePos \in Nat /\ chunckCounter \in Nat /\ sendCounter \in Nat
    /\ sourceFlag \subseteq PVs /\ changeFlag \subseteq PVs /\ carried \subseteq PVs
    /\ inMemory \subseteq PVs /\ inPublished \subseteq PVs /\ delivered \subseteq PVs
    /\ numberOfChangedVariables \in 0 .. maxSignalPerThread
    /\ window \in Seq(PVs)
    /\ busy \subseteq Pool /\ down \subseteq Pool
    /\ changes \in 0 .. MaxChanges /\ failures \in 0 .. MaxFailures

\* Whatever is swapped, every PV stays in the queue, once.
QueueIsPermutation == \A p, q \in PVs : indexList[p] = indexList[q] => p = q

SortIsOver == pc = "sort" /\ i = NumberOfVariables

Offset(p) == (p + NumberOfVariables - currentIdx) % NumberOfVariables

\* While the queue is sorted, a changed PV that was examined lies among the
\* changed ones, and the insertion moves PVs only among them.
SortedSoFar ==
    \A o \in 0 .. NumberOfVariables - 1 :
        indexList[Position(o)] \in changeFlag =>
            /\ pc = "sort" => o < currentChangePos \/ o >= i
            /\ pc = "bubble" => o <= currentChangePos \/ o > i
SortInv ==
    /\ pc \in {"sort", "bubble"} => SortedSoFar
    /\ pc = "bubble" => j <= currentChangePos /\ i < NumberOfVariables

\* The PVs that changed, now or in an earlier cycle, and were not sent.
Waiting == changeFlag \cup carried

\* And the other way round, unless one of the carried PVs changed again: what
\* lies among the changed PVs did change, and the loop passes the carried ones
\* before it inserts any.
AllOrNoneAt(o, inFront) ==
    /\ inFront => indexList[Position(o)] \in Waiting
    /\ indexList[Position(o)] \in carried => inFront
FrontInv ==
    /\ pc \in {"cycle", "synch", "wait"} => currentChangePos <= NumberOfVariables
    /\ pc = "sort" /\ carried \cap changeFlag = {} =>
        /\ currentChangePos <= NumberOfVariables
        /\ \A o \in 0 .. NumberOfVariables - 1 : AllOrNoneAt(o, o < currentChangePos)
        /\ i < currentChangePos =>
               \A o \in 0 .. currentChangePos - 1 : indexList[Position(o)] \in carried
    /\ pc = "bubble" /\ carried \cap changeFlag = {} =>
        /\ currentChangePos <= i
        /\ \A o \in 0 .. NumberOfVariables - 1 : AllOrNoneAt(o, o <= currentChangePos)

\* Unless a PV changed again before it was sent, the sort leaves those that
\* changed, in this cycle or before, and no others before currentChangePos,
\* which counts them (PrioritySender.h 209-213): they are sent before every PV
\* that did not change, wherever the queue wraps around and however the
\* insertion by size moves them.
ChangedAreFirst ==
    SortIsOver /\ carried \cap changeFlag = {} =>
        /\ currentChangePos <= NumberOfVariables
        /\ \A p \in PVs : indexList[p] \in Waiting <=> Offset(p) < currentChangePos

\* "The changed variables are pushed in the first position of the queue in
\* order to be sent first" (PrioritySender.h 51-52), whichever have changed: no
\* PV that did not change lies before one that did.
NoneBeforeChanged ==
    SortIsOver =>
        \A p, q \in PVs : indexList[p] \in changeFlag /\ Offset(q) < Offset(p)
                              => indexList[q] \in Waiting

\* The published window holds as many different PVs as it has positions.
WindowHasNoDuplicates ==
    \A m, n \in 1 .. Len(window) : m # n => window[m] # window[n]

\* Once PVs stop changing and connections stop failing, the receiver gets the
\* latest value of every PV: a flag dropped during a FIFO pass, a slice lost
\* with its connection and a PV pushed back in the queue are all made good.
EventuallyDelivered == <>[](delivered = PVs)

=============================================================================
