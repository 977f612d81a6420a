-------------------------- MODULE SenderPoolProofs --------------------------
(* Theorems about SenderPool, for every pool and every window.             *)
EXTENDS SenderPool, FiniteSetTheorems, TLAPS

USE PoolAssumption

LEMMA PoolSize == numberOfPoolThreads \in Nat \ {0}
  BY FS_CardinalityType, FS_EmptySet DEF numberOfPoolThreads

LEMMA WindowSize ==
    /\ maxSignalPerThread \in Nat
    /\ WindowLengths \subseteq 0 .. maxSignalPerThread
  BY PoolSize DEF maxSignalPerThread

-----------------------------------------------------------------------------
(* Type correctness.                                                       *)

LEMMA InitTypeOK == Init => TypeOK
<1> SUFFICES ASSUME Init PROVE TypeOK
  OBVIOUS
<1>1. 0 \in 0 .. maxSignalPerThread /\ 0 \in 0 .. NumberOfVariables - 1
  BY WindowSize
<1>2. pc \in [Threads -> ThreadPc]
  BY DEF Init, ThreadPc, StartupPc
<1>3. slice \in [Threads -> [from : 0 .. NumberOfVariables - 1, len : Nat]]
  BY <1>1 DEF Init, NoSlice
<1>4. threadId \in [Threads -> Nat \cup {NoThreadNumber}]
  BY DEF Init
<1> QED
  BY <1>1, <1>2, <1>3, <1>4 DEF Init, TypeOK

\* Post moves threads and the caller of Stop() to program points that exist.
LEMMA PostTypeOK ==
    ASSUME TypeOK, Post
    PROVE  /\ posted' \in BOOLEAN
           /\ pc' \in [Threads -> ThreadPc]
           /\ pcStop' \in {"idle", "wait", "blocked", "command", "ended"}
  BY DEF TypeOK, Post, Released, ReleasedStop, ThreadPc, StartupPc, MainPc

LEMMA MainTypeOK == TypeOK /\ MainStep => TypeOK'
<1> SUFFICES ASSUME TypeOK, MainStep PROVE TypeOK'
  OBVIOUS
<1> USE DEF GotoMain, copyVars, windowVars, countVars, stopVars, threadVars,
            sliceVars
<1>1. CASE FirstPost \/ PostWindow \/ FinalPost
  BY <1>1, PostTypeOK DEF TypeOK, FirstPost, PostWindow, FinalPost
<1>2. CASE Loop \/ Decide \/ ZeroCounter \/ Drain
  BY <1>2 DEF TypeOK, Loop, Decide, ZeroCounter, Drain
<1>3. CASE ReadCounters
  BY <1>3 DEF TypeOK, ReadCounters
<1>4. CASE Publish
  <2>1. Advance(currentIdx, nVariables) \in 0 .. NumberOfVariables - 1
    BY PoolSize, WindowSize DEF TypeOK, Advance
  <2>2. 0 \in 0 .. maxSignalPerThread
    BY WindowSize
  <2> QED
    BY <1>4, <2>1, <2>2 DEF TypeOK, Publish
<1>5. ASSUME NEW n \in WindowLengths, NEW restart \in BOOLEAN,
             PrepareWindow(n, restart)
      PROVE  TypeOK'
  BY <1>5, WindowSize DEF TypeOK, PrepareWindow
<1> QED
  BY <1>1, <1>2, <1>3, <1>4, <1>5 DEF MainStep

LEMMA ThreadTypeOK ==
    ASSUME TypeOK, NEW t \in Threads, ThreadStep(t)
    PROVE  TypeOK'
<1> USE DEF Goto, copyVars, windowVars, countVars, stopVars, threadVars,
            sliceVars, ThreadPc, StartupPc, MainPc, ClosePc, NextMainStage
<1>1. CASE StartupWait(t) \/ Connected(t) \/ GiveUpConnecting(t) \/ WaitForWindow(t)
  BY <1>1 DEF TypeOK, StartupWait, Connected, GiveUpConnecting, WaitForWindow
<1>2. CASE TakeNumber(t)
  BY <1>2 DEF TypeOK, TakeNumber
<1>3. CASE Arrive(t)
  BY <1>3 DEF TypeOK, Arrive, LockAndReset
<1>4. CASE Counted(t) \/ CloseCounted(t)
  BY <1>4 DEF TypeOK, Counted, CloseCounted, StoreAndUnlock
<1>5. CASE CheckQuit(t)
  BY <1>5 DEF TypeOK, CheckQuit
<1>6. CASE Quota(t)
  <2> DEFINE n == numberOfChangedVariables
  <2>1. n \in Nat
    BY WindowSize DEF TypeOK
  <2>2. n \div numberOfPoolThreads \in Nat /\ n % numberOfPoolThreads \in Nat
    BY <2>1, PoolSize
  <2>3. Share(t) \in Nat
    BY <2>2 DEF Share
  <2> QED
    BY <1>6, <2>3 DEF TypeOK, Quota
<1>7. CASE TakeSlice(t)
  <2>1. Advance(currentIdxThreads, slice[t].len) \in 0 .. NumberOfVariables - 1
    BY DEF TypeOK, Advance
  <2> QED
    BY <1>7, <2>1 DEF TypeOK, TakeSlice
<1>8. CASE SendDone(t) \/ SendFailed(t)
  BY <1>8 DEF TypeOK, SendDone, SendFailed, NoSlice
<1>9. CASE CloseClient(t)
  BY <1>9 DEF TypeOK, CloseClient, LockAndReset
<1> QED
  BY <1>1, <1>2, <1>3, <1>4, <1>5, <1>6, <1>7, <1>8, <1>9
     DEF ThreadStep

LEMMA StopTypeOK == TypeOK /\ StopStep => TypeOK'
  BY DEF TypeOK, StopStep, StopCall, StopWait, StopCommand, copyVars,
         windowVars, countVars, stopVars, threadVars, sliceVars

\* Every variable keeps its type, in every pool.
THEOREM TypeCorrect == Spec => []TypeOK
<1>1. TypeOK /\ [Next]_vars => TypeOK'
  <2> SUFFICES ASSUME TypeOK, [Next]_vars PROVE TypeOK'
    OBVIOUS
  <2>1. CASE MainStep
    BY <2>1, MainTypeOK
  <2>2. CASE \E t \in Threads : ThreadStep(t)
    BY <2>2, ThreadTypeOK
  <2>3. CASE StopStep
    BY <2>3, StopTypeOK
  <2>4. CASE UNCHANGED vars
    BY <2>4 DEF TypeOK, vars, copyVars, windowVars, countVars, stopVars,
                threadVars, sliceVars
  <2> QED
    BY <2>1, <2>2, <2>3, <2>4 DEF Next
<1> QED
  BY InitTypeOK, <1>1, PTL DEF Spec

-----------------------------------------------------------------------------
(* The barrier.                                                            *)

LEMMA CountedThreads ==
    ASSUME TypeOK
    PROVE  /\ IsFiniteSet(arrived)
           /\ Cardinality(arrived) = numberOfPoolThreads => arrived = Threads
           /\ \A t : t \notin arrived =>
                 Cardinality(arrived \cup {t}) = Cardinality(arrived) + 1
  BY FS_Subset, FS_AddElement DEF TypeOK, numberOfPoolThreads

LEMMA BarrierInit == Init => BarrierInv
  BY FS_EmptySet DEF Init, BarrierInv, Stay, LockFree, InCriticalSection

LEMMA BarrierMain == TypeOK /\ BarrierInv /\ MainStep => BarrierInv'
<1> SUFFICES ASSUME TypeOK, BarrierInv, MainStep, ~quit' PROVE BarrierInv'
  BY DEF BarrierInv
<1>q. ~quit /\ quit' = quit
  BY DEF MainStep, FirstPost, Loop, ReadCounters, Decide, ZeroCounter, Publish,
         PostWindow, Drain, FinalPost, PrepareWindow, stopVars
<1> USE <1>q
<1> USE DEF BarrierInv, GotoMain, LockFree, InCriticalSection, copyVars,
            windowVars, countVars, stopVars
<1>1. CASE FirstPost \/ PostWindow
  BY <1>1 DEF TypeOK, FirstPost, PostWindow, Post, Released, ReleasedStop, Stay
<1>2. CASE Loop
  BY <1>2 DEF Loop
<1>3. CASE ReadCounters
  BY <1>3, CountedThreads DEF ReadCounters
<1>4. CASE Decide
  BY <1>4 DEF Decide, AllThreadsFinished
<1>5. CASE ZeroCounter
  BY <1>5, PoolSize, FS_EmptySet DEF ZeroCounter, Stay
<1>6. CASE Publish
  BY <1>6 DEF Publish
<1>7. CASE Drain \/ FinalPost
  BY <1>7 DEF Drain, FinalPost
<1>8. ASSUME NEW n \in WindowLengths, NEW restart \in BOOLEAN,
             PrepareWindow(n, restart)
      PROVE  BarrierInv'
  BY <1>8 DEF PrepareWindow
<1> QED
  BY <1>1, <1>2, <1>3, <1>4, <1>5, <1>6, <1>7, <1>8 DEF MainStep

LEMMA ThreadKeepsQuit ==
    ASSUME NEW t \in Threads, ThreadStep(t)
    PROVE  quit' = quit
<1>1. CASE StartupWait(t) \/ Connected(t) \/ GiveUpConnecting(t) \/ TakeNumber(t)
  BY <1>1 DEF StartupWait, Connected, GiveUpConnecting, TakeNumber, stopVars
<1>2. CASE Arrive(t) \/ Counted(t) \/ CloseClient(t) \/ CloseCounted(t)
  BY <1>2 DEF Arrive, Counted, CloseClient, CloseCounted, stopVars
<1>3. CASE CheckQuit(t) \/ WaitForWindow(t) \/ Quota(t) \/ TakeSlice(t)
  BY <1>3 DEF CheckQuit, WaitForWindow, Quota, TakeSlice, stopVars
<1>4. CASE SendDone(t) \/ SendFailed(t)
  BY <1>4 DEF SendDone, SendFailed, stopVars
<1> QED
  BY <1>1, <1>2, <1>3, <1>4 DEF ThreadStep

LEMMA BarrierThread ==
    ASSUME TypeOK, BarrierInv, NEW t \in Threads, ThreadStep(t)
    PROVE  BarrierInv'
<1> SUFFICES ASSUME ~quit' PROVE BarrierInv'
  BY DEF BarrierInv
<1>q. ~quit /\ quit' = quit
  BY ThreadKeepsQuit
<1> USE <1>q
<1> USE DEF BarrierInv, Goto, LockFree, InCriticalSection, copyVars,
            windowVars, countVars, stopVars, NextMainStage, Stay
<1>1. CASE StartupWait(t) \/ WaitForWindow(t)
  BY <1>1 DEF TypeOK, StartupWait, WaitForWindow
<1>2. CASE Connected(t) \/ GiveUpConnecting(t)
  BY <1>2 DEF TypeOK, Connected, GiveUpConnecting
<1>3. CASE TakeNumber(t)
  BY <1>3 DEF TypeOK, TakeNumber
<1>4. CASE Arrive(t)
  BY <1>4 DEF TypeOK, Arrive, LockAndReset
<1>5. CASE CloseClient(t)
  BY <1>5 DEF TypeOK, CloseClient, LockAndReset
<1>6. CASE Counted(t)
  <2>1. t \notin arrived /\ count = nThreadsFinished
    BY <1>6 DEF Counted
  <2>2. nThreadsFinished' = Cardinality(arrived')
    BY <1>6, <2>1, CountedThreads DEF Counted, StoreAndUnlock
  <2> QED
    BY <1>6, <2>1, <2>2 DEF TypeOK, Counted, StoreAndUnlock
<1>7. CASE CloseCounted(t)
  <2>1. t \notin arrived /\ count = nThreadsFinished
    BY <1>7 DEF CloseCounted
  <2>2. pc' = [pc EXCEPT ![t] = "boot"]
    BY <1>7 DEF CloseCounted
  <2>3. nThreadsFinished' = Cardinality(arrived')
    BY <1>7, <2>1, CountedThreads DEF CloseCounted, StoreAndUnlock
  <2> QED
    BY <1>7, <2>1, <2>2, <2>3 DEF TypeOK, CloseCounted, StoreAndUnlock
<1>8. CASE CheckQuit(t)
  BY <1>8 DEF TypeOK, CheckQuit
<1>9. CASE Quota(t) \/ TakeSlice(t)
  BY <1>9 DEF TypeOK, Quota, TakeSlice
<1>10. CASE SendDone(t) \/ SendFailed(t)
  BY <1>10 DEF TypeOK, SendDone, SendFailed
<1> QED
  BY <1>1, <1>2, <1>3, <1>4, <1>5, <1>6, <1>7, <1>8, <1>9, <1>10 DEF ThreadStep

LEMMA BarrierStop == BarrierInv /\ StopStep => BarrierInv'
  BY DEF BarrierInv, StopStep, StopCall, StopWait, StopCommand, stopVars,
         LockFree, InCriticalSection

\* The barrier invariant holds in every pool, under any scheduling.
THEOREM Barrier == Spec => []BarrierInv
<1>1. TypeOK /\ BarrierInv /\ [Next]_vars => BarrierInv'
  <2> SUFFICES ASSUME TypeOK, BarrierInv, [Next]_vars PROVE BarrierInv'
    OBVIOUS
  <2>1. CASE MainStep
    BY <2>1, BarrierMain
  <2>2. CASE \E t \in Threads : ThreadStep(t)
    BY <2>2, BarrierThread
  <2>3. CASE StopStep
    BY <2>3, BarrierStop
  <2>4. CASE UNCHANGED vars
    BY <2>4 DEF BarrierInv, vars, copyVars, countVars, stopVars, LockFree,
                InCriticalSection
  <2> QED
    BY <2>1, <2>2, <2>3, <2>4 DEF Next
<1> QED
  BY BarrierInit, TypeCorrect, <1>1, PTL DEF Spec

\* The published window, memory and index list are written only while no
\* pool thread reads them.
THEOREM PublishIsExclusive == Spec => []PublishExclusive
<1>1. BarrierInv => PublishExclusive
  BY DEF BarrierInv, PublishExclusive, Using, Stay
<1> QED
  BY Barrier, <1>1, PTL

\* nThreadsFinished counts each thread of the pool once per window.
THEOREM CounterIsExact == Spec => []CounterCountsThreads
<1>1. BarrierInv => CounterCountsThreads
  BY DEF BarrierInv, CounterCountsThreads
<1> QED
  BY Barrier, <1>1, PTL

\* The store outside of syncSem meets no increment and drops no arrival.
THEOREM ZeroingIsSafe == Spec => []ZeroIsSafe
<1>1. BarrierInv => ZeroIsSafe
  BY DEF BarrierInv, ZeroIsSafe, Stay, LockFree, InCriticalSection
<1> QED
  BY Barrier, <1>1, PTL

-----------------------------------------------------------------------------
(* Refinement: until Stop() the main thread and the pool take turns.       *)

LEMMA TurnsInit == Init => Turns!Init
  BY DEF Init, Turns!Init, Writing

LEMMA TurnsMain ==
    ASSUME BarrierInv, MainStep
    PROVE  Turns!Next \/ UNCHANGED Turns!vars
<1> USE DEF Turns!vars, Writing, GotoMain, copyVars, windowVars, countVars,
            stopVars, BarrierInv
<1>1. CASE FirstPost \/ FinalPost
  BY <1>1 DEF FirstPost, FinalPost
<1>2. CASE Loop \/ ReadCounters \/ Drain
  BY <1>2 DEF Loop, ReadCounters, Drain
<1>3. CASE Decide
  BY <1>3 DEF Decide, AllThreadsFinished, Turns!Next, Turns!BeginWindow
<1>4. CASE ZeroCounter \/ Publish
  BY <1>4 DEF ZeroCounter, Publish
<1>5. CASE PostWindow
  BY <1>5 DEF PostWindow, Turns!Next, Turns!PostWindow
<1>6. ASSUME NEW n \in WindowLengths, NEW restart \in BOOLEAN,
             PrepareWindow(n, restart)
      PROVE  UNCHANGED Turns!vars
  BY <1>6 DEF PrepareWindow
<1> QED
  BY <1>1, <1>2, <1>3, <1>4, <1>5, <1>6 DEF MainStep

LEMMA TurnsThread ==
    ASSUME TypeOK, BarrierInv, NEW t \in Threads, ThreadStep(t)
    PROVE  Turns!Next \/ UNCHANGED Turns!vars
<1> USE DEF Turns!vars, Writing, countVars, stopVars
<1>1. CASE Counted(t) \/ CloseCounted(t)
  <2>1. quit' = quit /\ pcMain' = pcMain
    BY <1>1 DEF Counted, CloseCounted
  <2>2. CASE quit
    BY <2>1, <2>2
  <2>3. CASE ~quit
    <3>1. t \notin arrived /\ ~Writing
      BY <1>1, <2>3 DEF BarrierInv, Stay, Counted, CloseCounted, Goto
    <3>2. arrived' = arrived \cup {t}
      BY <1>1 DEF Counted, CloseCounted, StoreAndUnlock
    <3> QED
      BY <2>1, <2>3, <3>1, <3>2 DEF Turns!Next, Turns!Finish
  <2> QED
    BY <2>2, <2>3
<1>2. CASE StartupWait(t) \/ Connected(t) \/ GiveUpConnecting(t) \/ TakeNumber(t)
  BY <1>2 DEF StartupWait, Connected, GiveUpConnecting, TakeNumber
<1>3. CASE Arrive(t) \/ CheckQuit(t) \/ WaitForWindow(t) \/ CloseClient(t)
  <2>1. quit' = quit /\ pcMain' = pcMain /\ arrived' = arrived
    BY <1>3 DEF Arrive, CheckQuit, WaitForWindow, CloseClient
  <2> QED
    BY <2>1
<1>4. CASE Quota(t) \/ TakeSlice(t) \/ SendDone(t) \/ SendFailed(t)
  BY <1>4 DEF Quota, TakeSlice, SendDone, SendFailed
<1> QED
  BY <1>1, <1>2, <1>3, <1>4 DEF ThreadStep

LEMMA TurnsStop ==
    ASSUME BarrierInv, StopStep
    PROVE  Turns!Next \/ UNCHANGED Turns!vars
<1> USE DEF Turns!vars, Writing, countVars, stopVars
<1>1. CASE StopCall
  <2>1. quit' /\ pcMain' = pcMain /\ arrived' = arrived
    BY <1>1 DEF StopCall
  <2>2. CASE quit
    BY <2>1, <2>2
  <2>3. CASE ~quit
    BY <2>1, <2>3 DEF Turns!Next, Turns!Stop
  <2> QED
    BY <2>2, <2>3
<1>2. CASE StopWait \/ StopCommand
  BY <1>2 DEF StopWait, StopCommand
<1> QED
  BY <1>1, <1>2 DEF StopStep

\* Every pool implements the turn-taking barrier.
THEOREM PoolTakesTurns == Spec => TakesTurns
<1>1. TypeOK /\ BarrierInv /\ [Next]_vars => [Turns!Next]_(Turns!vars)
  <2> SUFFICES ASSUME TypeOK, BarrierInv, [Next]_vars
               PROVE  Turns!Next \/ UNCHANGED Turns!vars
    OBVIOUS
  <2>1. CASE MainStep
    BY <2>1, TurnsMain
  <2>2. CASE \E t \in Threads : ThreadStep(t)
    BY <2>2, TurnsThread
  <2>3. CASE StopStep
    BY <2>3, TurnsStop
  <2>4. CASE UNCHANGED vars
    BY <2>4 DEF vars, countVars, stopVars, Turns!vars, Writing
  <2> QED
    BY <2>1, <2>2, <2>3, <2>4 DEF Next
<1> QED
  BY TurnsInit, TypeCorrect, Barrier, <1>1, PTL DEF Spec, TakesTurns, Turns!Spec

-----------------------------------------------------------------------------
(* The numbers of the threads.                                             *)

Numbered == {t \in Threads : ~HasNoNumber(t)}

\* The numbers given are all those below threadIndex, each given once; a thread
\* that left Startup without a number was stopped while it connected.
NumbersInv ==
    /\ threadIndex = Cardinality(Numbered)
    /\ \A t \in Numbered : threadId[t] < threadIndex
    /\ \A t, u \in Numbered : threadId[t] = threadId[u] => t = u
    /\ \A k \in 0 .. threadIndex - 1 : \E t \in Numbered : threadId[t] = k
    /\ \A t \in Threads : HasNoNumber(t) /\ pc[t] \notin StartupPc => quit
    /\ crashed => quit

LEMMA NumbersInit == Init => NumbersInv
<1> SUFFICES ASSUME Init PROVE NumbersInv
  OBVIOUS
<1>1. Numbered = {}
  BY DEF Init, Numbered, HasNoNumber
<1> QED
  BY <1>1, FS_EmptySet DEF Init, NumbersInv, StartupPc

\* Steps that give no number.
LEMMA NumbersSame ==
    ASSUME TypeOK, NumbersInv, threadIndex' = threadIndex, threadId' = threadId,
           quit => quit', crashed' => crashed \/ quit',
           \A t \in Threads : pc[t] \in StartupPc /\ HasNoNumber(t) =>
                                 pc'[t] \in StartupPc \/ quit'
    PROVE  NumbersInv'
<1>1. Numbered' = Numbered /\ \A t : HasNoNumber(t)' = HasNoNumber(t)
  BY DEF Numbered, HasNoNumber
<1> QED
  BY <1>1 DEF NumbersInv

LEMMA NumbersTaken ==
    ASSUME TypeOK, NumbersInv, NEW t \in Threads, TakeNumber(t)
    PROVE  NumbersInv'
<1> USE DEF TakeNumber, Goto, stopVars
<1>1. CASE ~HasNoNumber(t)
  <2>1. Numbered' = Numbered /\ \A u : HasNoNumber(u)' = HasNoNumber(u)
    BY <1>1 DEF Numbered, HasNoNumber
  <2> QED
    BY <1>1, <2>1 DEF NumbersInv, TypeOK
<1>2. CASE HasNoNumber(t)
  <2>1. /\ threadIndex \in Nat /\ threadIndex' = threadIndex + 1
        /\ threadId' = [threadId EXCEPT ![t] = threadIndex]
        /\ threadId \in [Threads -> Nat \cup {NoThreadNumber}]
    BY <1>2 DEF TypeOK
  <2>2. Numbered' = Numbered \cup {t} /\ t \notin Numbered
    BY <1>2, <2>1 DEF Numbered, HasNoNumber, NoThreadNumber
  <2>3. IsFiniteSet(Numbered)
    BY FS_Subset DEF Numbered
  <2>4. Cardinality(Numbered') = threadIndex'
    BY <2>1, <2>2, <2>3, FS_AddElement DEF NumbersInv
  <2>5. \A u \in Numbered : threadId[u] \in Nat /\ threadId'[u] = threadId[u]
    BY <2>1, <2>2 DEF Numbered, HasNoNumber
  <2>6. threadId'[t] = threadIndex
    BY <2>1
  <2>7. \A u \in Numbered' : threadId'[u] < threadIndex'
    BY <2>1, <2>2, <2>5, <2>6 DEF NumbersInv
  <2>8. \A u, w \in Numbered' : threadId'[u] = threadId'[w] => u = w
    BY <2>1, <2>2, <2>5, <2>6 DEF NumbersInv
  <2>9. \A k \in 0 .. threadIndex' - 1 : \E u \in Numbered' : threadId'[u] = k
    <3> SUFFICES ASSUME NEW k \in 0 .. threadIndex' - 1
                 PROVE  \E u \in Numbered' : threadId'[u] = k
      OBVIOUS
    <3>1. CASE k = threadIndex
      BY <2>2, <2>6, <3>1
    <3>2. CASE k # threadIndex
      <4>1. k \in 0 .. threadIndex - 1
        BY <2>1, <3>2
      <4>2. PICK u \in Numbered : threadId[u] = k
        BY <4>1 DEF NumbersInv
      <4> QED
        BY <2>2, <2>5, <4>2
    <3> QED
      BY <3>1, <3>2
  <2>10. \A u \in Threads : HasNoNumber(u)' /\ pc'[u] \notin StartupPc => quit'
    BY <2>1 DEF NumbersInv, HasNoNumber, NoThreadNumber, TypeOK
  <2>11. crashed' => quit'
    BY DEF NumbersInv
  <2> QED
    BY <2>4, <2>7, <2>8, <2>9, <2>10, <2>11 DEF NumbersInv
<1> QED
  BY <1>1, <1>2

LEMMA NumbersThread ==
    ASSUME TypeOK, NumbersInv, NEW t \in Threads, ThreadStep(t)
    PROVE  NumbersInv'
<1> USE DEF Goto, stopVars, threadVars, StartupPc, TypeOK
<1>1. CASE TakeNumber(t)
  BY <1>1, NumbersTaken
<1>2. CASE StartupWait(t) \/ Connected(t) \/ GiveUpConnecting(t)
  BY <1>2, NumbersSame DEF StartupWait, Connected, GiveUpConnecting
<1>3. CASE CheckQuit(t)
  BY <1>3, NumbersSame DEF CheckQuit, NumbersInv
<1>4. CASE Arrive(t) \/ Counted(t) \/ WaitForWindow(t) \/ Quota(t) \/ TakeSlice(t)
  BY <1>4, NumbersSame DEF Arrive, Counted, WaitForWindow, Quota, TakeSlice
<1>5. CASE SendDone(t) \/ SendFailed(t) \/ CloseClient(t) \/ CloseCounted(t)
  BY <1>5, NumbersSame DEF SendDone, SendFailed, CloseClient, CloseCounted
<1> QED
  BY <1>1, <1>2, <1>3, <1>4, <1>5 DEF ThreadStep

LEMMA NumbersMain == TypeOK /\ NumbersInv /\ MainStep => NumbersInv'
<1> SUFFICES ASSUME TypeOK, NumbersInv, MainStep PROVE NumbersInv'
  OBVIOUS
<1>1. UNCHANGED <<stopVars, threadVars>> /\ (pc' = pc \/ pc' = Released)
  BY DEF MainStep, FirstPost, Loop, ReadCounters, Decide, ZeroCounter, Publish,
         PostWindow, Drain, FinalPost, PrepareWindow, Post
<1>2. \A t \in Threads : pc[t] \in StartupPc => pc'[t] \in StartupPc
  BY <1>1 DEF Released, StartupPc
<1> QED
  BY <1>1, <1>2, NumbersSame DEF stopVars, threadVars

\* The inductive invariant of the thread numbers.
THEOREM NumbersInvariant == Spec => []NumbersInv
<1>1. TypeOK /\ NumbersInv /\ [Next]_vars => NumbersInv'
  <2> SUFFICES ASSUME TypeOK, NumbersInv, [Next]_vars PROVE NumbersInv'
    OBVIOUS
  <2>1. CASE MainStep
    BY <2>1, NumbersMain
  <2>2. CASE \E t \in Threads : ThreadStep(t)
    BY <2>2, NumbersThread
  <2>3. CASE StopStep
    BY <2>3, NumbersSame DEF StopStep, StopCall, StopWait, StopCommand,
                             stopVars, threadVars
  <2>4. CASE UNCHANGED vars
    BY <2>4, NumbersSame DEF vars, stopVars, threadVars
  <2> QED
    BY <2>1, <2>2, <2>3, <2>4 DEF Next
<1> QED
  BY NumbersInit, TypeCorrect, <1>1, PTL DEF Spec

\* Thread numbers are below the size of the pool, each given once, and no
\* thread uses the statistics without one unless Stop() found it connecting.
THEOREM NumbersAreRight == Spec => []ThreadNumbers
<1>1. TypeOK /\ NumbersInv => ThreadNumbers
  <2> SUFFICES ASSUME TypeOK, NumbersInv PROVE ThreadNumbers
    OBVIOUS
  <2>1. Cardinality(Numbered) <= numberOfPoolThreads
    BY FS_Subset DEF Numbered, numberOfPoolThreads
  <2>2. \A t \in Threads : threadId[t] < numberOfPoolThreads
    <3> SUFFICES ASSUME NEW t \in Threads PROVE threadId[t] < numberOfPoolThreads
      OBVIOUS
    <3>1. CASE HasNoNumber(t)
      BY <3>1, PoolSize DEF HasNoNumber, NoThreadNumber
    <3>2. CASE ~HasNoNumber(t)
      <4>1. threadId[t] \in Nat /\ threadId[t] < threadIndex
        BY <3>2 DEF TypeOK, NumbersInv, Numbered, HasNoNumber
      <4> QED
        BY <4>1, <2>1, PoolSize DEF NumbersInv, TypeOK
    <3> QED
      BY <3>1, <3>2
  <2>3. \A t, u \in Threads : threadId[t] = threadId[u] /\ t # u
                                 => threadId[t] = NoThreadNumber
    BY DEF NumbersInv, Numbered, HasNoNumber
  <2> QED
    BY <2>2, <2>3 DEF ThreadNumbers, NumbersInv
<1> QED
  BY <1>1, TypeCorrect, NumbersInvariant, PTL

\* A number, once given, is kept through every failure and reconnection.
THEOREM NumbersStay == Spec => NumbersAreKept
<1>1. TypeOK /\ [Next]_vars =>
          [\A t \in Threads : threadId[t] # NoThreadNumber
                                 => threadId'[t] = threadId[t]]_vars
  <2> SUFFICES ASSUME TypeOK, [Next]_vars,
                      NEW t \in Threads, threadId[t] # NoThreadNumber
               PROVE  threadId'[t] = threadId[t]
    OBVIOUS
  <2> USE DEF threadVars
  <2>1. CASE MainStep
    BY <2>1 DEF MainStep, FirstPost, Loop, ReadCounters, Decide, ZeroCounter,
                Publish, PostWindow, Drain, FinalPost, PrepareWindow
  <2>2. ASSUME NEW u \in Threads, TakeNumber(u)
        PROVE  threadId'[t] = threadId[t]
    BY <2>2 DEF TakeNumber, HasNoNumber, TypeOK
  <2>3. ASSUME NEW u \in Threads, ThreadStep(u), ~TakeNumber(u)
        PROVE  threadId' = threadId
    BY <2>3 DEF ThreadStep, StartupWait, Connected, GiveUpConnecting, Arrive,
                Counted, CheckQuit, WaitForWindow, Quota, TakeSlice, SendDone,
                SendFailed, CloseClient, CloseCounted
  <2>4. CASE StopStep
    BY <2>4 DEF StopStep, StopCall, StopWait, StopCommand
  <2>5. CASE UNCHANGED vars
    BY <2>5 DEF vars
  <2> QED
    BY <2>1, <2>2, <2>3, <2>4, <2>5 DEF Next
<1> QED
  BY <1>1, TypeCorrect, PTL DEF Spec, NumbersAreKept

-----------------------------------------------------------------------------
(* The slices.  Who has taken a slice, first.                              *)

\* The steps of a thread from its slice to its next count.
AfterSlice == {"sending", "main", "count", "close", "closeCount"}

\* Until Stop(), a thread that took a slice of the published window comes back
\* to take another only after the next window has been published.
ServedInv ==
    ~quit =>
    /\ \A t \in served : ~HasNoNumber(t)
    /\ \A t \in served :
          \/ pc[t] \in AfterSlice
          \/ pc[t] \in Stay /\ (t \in arrived \/ pcMain = "copy")
    /\ pcMain \in {"first", "post"} => served = {}

LEMMA ServedMain ==
    TypeOK /\ BarrierInv /\ ServedInv /\ MainStep => ServedInv'
<1> SUFFICES ASSUME TypeOK, BarrierInv, ServedInv, MainStep, ~quit'
             PROVE  ServedInv'
  BY DEF ServedInv
<1>q. ~quit /\ quit' = quit /\ threadId' = threadId
  BY DEF MainStep, FirstPost, Loop, ReadCounters, Decide, ZeroCounter, Publish,
         PostWindow, Drain, FinalPost, PrepareWindow, stopVars, threadVars
<1>h. \A t : HasNoNumber(t)' = HasNoNumber(t)
  BY <1>q DEF HasNoNumber
<1> USE <1>q, <1>h
<1> USE DEF ServedInv, GotoMain, countVars, sliceVars
<1>1. CASE FirstPost \/ PostWindow
  BY <1>1 DEF FirstPost, PostWindow
<1>2. CASE Loop \/ ReadCounters \/ Decide
  BY <1>2 DEF Loop, ReadCounters, Decide
<1>3. ASSUME NEW n \in WindowLengths, NEW restart \in BOOLEAN,
             PrepareWindow(n, restart)
      PROVE  ServedInv'
  BY <1>3 DEF PrepareWindow
<1>4. CASE ZeroCounter
  BY <1>4 DEF ZeroCounter, BarrierInv, TypeOK
<1>5. CASE Publish
  BY <1>5 DEF Publish
<1>6. CASE Drain \/ FinalPost
  BY <1>6 DEF Drain, FinalPost, BarrierInv
<1> QED
  BY <1>1, <1>2, <1>3, <1>4, <1>5, <1>6 DEF MainStep

LEMMA ServedThread ==
    ASSUME TypeOK, BarrierInv, NumbersInv, ServedInv, NEW t \in Threads,
           ThreadStep(t)
    PROVE  ServedInv'
<1> SUFFICES ASSUME ~quit' PROVE ServedInv'
  BY DEF ServedInv
<1>q. ~quit /\ quit' = quit
  BY ThreadKeepsQuit
<1> USE <1>q
<1> USE DEF ServedInv, Goto, HasNoNumber, Stay, AfterSlice, countVars, stopVars,
            threadVars, sliceVars
<1>1. CASE StartupWait(t) \/ WaitForWindow(t)
  BY <1>1 DEF TypeOK, BarrierInv, StartupWait, WaitForWindow
<1>2. CASE Connected(t) \/ GiveUpConnecting(t)
  BY <1>2 DEF TypeOK, Connected, GiveUpConnecting
<1>3. CASE TakeNumber(t)
  <2>1. t \notin served
    BY <1>3 DEF TakeNumber
  <2> QED
    BY <1>3, <2>1 DEF TypeOK, TakeNumber
<1>4. CASE Arrive(t) \/ CloseClient(t)
  BY <1>4 DEF TypeOK, Arrive, CloseClient, LockAndReset
<1>5. CASE Counted(t) \/ CloseCounted(t)
  BY <1>5 DEF TypeOK, BarrierInv, Counted, CloseCounted, StoreAndUnlock
<1>6. CASE CheckQuit(t)
  BY <1>6 DEF TypeOK, CheckQuit
<1>7. CASE Quota(t)
  BY <1>7 DEF TypeOK, Quota
<1>8. CASE TakeSlice(t)
  <2>1. pcMain \notin {"first", "post"} /\ threadId[t] # NoThreadNumber
    BY <1>8 DEF TypeOK, BarrierInv, NumbersInv, TakeSlice, StartupPc
  <2> QED
    BY <1>8, <2>1 DEF TypeOK, TakeSlice
<1>9. CASE SendDone(t) \/ SendFailed(t)
  BY <1>9 DEF TypeOK, BarrierInv, SendDone, SendFailed, NextMainStage
<1> QED
  BY <1>1, <1>2, <1>3, <1>4, <1>5, <1>6, <1>7, <1>8, <1>9 DEF ThreadStep

LEMMA ServedOnce == Spec => []ServedInv
<1>1. Init => ServedInv
  BY DEF Init, ServedInv
<1>2. TypeOK /\ BarrierInv /\ NumbersInv /\ ServedInv /\ [Next]_vars => ServedInv'
  <2> SUFFICES ASSUME TypeOK, BarrierInv, NumbersInv, ServedInv, [Next]_vars
               PROVE  ServedInv'
    OBVIOUS
  <2>1. CASE MainStep
    BY <2>1, ServedMain
  <2>2. CASE \E t \in Threads : ThreadStep(t)
    BY <2>2, ServedThread
  <2>3. CASE StopStep
    BY <2>3 DEF StopStep, StopCall, StopWait, StopCommand, ServedInv, BarrierInv,
                HasNoNumber, stopVars, threadVars, countVars, sliceVars
  <2>4. CASE UNCHANGED vars
    BY <2>4 DEF vars, ServedInv, HasNoNumber, stopVars, threadVars, countVars,
                sliceVars
  <2> QED
    BY <2>1, <2>2, <2>3, <2>4 DEF Next
<1> QED
  BY <1>1, <1>2, TypeCorrect, Barrier, NumbersInvariant, PTL DEF Spec

-----------------------------------------------------------------------------
(* The slices.  Where they lie in the published window.                    *)

Quotient  == numberOfChangedVariables \div numberOfPoolThreads
Remainder == numberOfChangedVariables % numberOfPoolThreads
IsLast(t) == threadId[t] = numberOfPoolThreads - 1

\* The positions that the threads of S take together.
TakenBy(S) ==
    Cardinality(S) * Quotient + (IF \E t \in S : IsLast(t) THEN Remainder ELSE 0)

\* The published window as offsets from its first position.
FirstPosition ==
    (currentIdx + NumberOfVariables - numberOfChangedVariables) % NumberOfVariables
At(o) == (FirstPosition + o) % NumberOfVariables

\* The slices being sent start at offsets off, apart from each other and within
\* what the served threads took.
Layout(off) ==
    \A t \in Threads : pc[t] = "sending" =>
        /\ slice[t].from = At(off[t])
        /\ off[t] + slice[t].len <= TakenBy(served)
        /\ \A u \in Threads \ {t} : pc[u] = "sending" =>
              \/ off[t] + slice[t].len <= off[u]
              \/ off[u] + slice[u].len <= off[t]

SliceInv ==
    ~quit =>
    /\ \A t \in Threads : pc[t] \in {"slice", "sending"} => slice[t].len = Share(t)
    /\ currentIdxThreads = At(TakenBy(served))
    /\ \E off \in [Threads -> Nat] : Layout(off)

LEMMA DivMod ==
    ASSUME NEW a \in Nat, NEW b \in Nat \ {0}
    PROVE  a = b * (a \div b) + (a % b) /\ a % b \in 0 .. b - 1 /\ a \div b \in Nat
  OBVIOUS

LEMMA Multiples ==
    ASSUME NEW q \in Nat, NEW k \in Nat, NEW n \in Nat
    PROVE  /\ k * q \in Nat /\ (k + 1) * q = k * q + q
           /\ k <= n => k * q <= n * q
  OBVIOUS

LEMMA SharesType ==
    ASSUME TypeOK
    PROVE  /\ numberOfChangedVariables \in Nat
           /\ numberOfChangedVariables <= NumberOfVariables
           /\ Quotient \in Nat /\ Remainder \in Nat
           /\ numberOfChangedVariables = numberOfPoolThreads * Quotient + Remainder
<1>1. /\ numberOfChangedVariables \in Nat
      /\ numberOfChangedVariables <= NumberOfVariables
  BY WindowSize DEF TypeOK
<1> QED
  BY <1>1, PoolSize, DivMod DEF Quotient, Remainder

LEMMA TakenBound ==
    ASSUME TypeOK, NEW S \in SUBSET Threads
    PROVE  TakenBy(S) \in 0 .. numberOfChangedVariables
<1>1. Cardinality(S) \in Nat /\ Cardinality(S) <= numberOfPoolThreads
  BY FS_Subset, FS_CardinalityType DEF numberOfPoolThreads
<1>2. /\ Cardinality(S) * Quotient \in Nat
      /\ Cardinality(S) * Quotient <= numberOfPoolThreads * Quotient
  BY <1>1, SharesType, PoolSize, Multiples
<1> DEFINE part == Cardinality(S) * Quotient
           whole == numberOfPoolThreads * Quotient
<1>3. whole \in Nat
  BY SharesType, PoolSize, Multiples
<1> HIDE DEF part, whole
<1>4. /\ part \in Nat /\ part <= whole
      /\ numberOfChangedVariables = whole + Remainder
  BY <1>2, SharesType DEF part, whole
<1>5. TakenBy(S) = part + Remainder \/ TakenBy(S) = part
  BY <1>4 DEF TakenBy, part
<1> QED
  BY <1>3, <1>4, <1>5, SharesType

\* Positions follow each other around the queue.
LEMMA AtAdvances ==
    ASSUME TypeOK, NEW a \in Nat, NEW b \in Nat, a + b <= NumberOfVariables
    PROVE  /\ FirstPosition \in 0 .. NumberOfVariables - 1
           /\ At(a) = IF FirstPosition + a < NumberOfVariables
                      THEN FirstPosition + a ELSE FirstPosition + a - NumberOfVariables
           /\ At(a + b) = (At(a) + b) % NumberOfVariables
<1>1. FirstPosition \in 0 .. NumberOfVariables - 1
  BY SharesType DEF TypeOK, FirstPosition
<1> HIDE DEF FirstPosition
<1>2. At(a) = IF FirstPosition + a < NumberOfVariables
              THEN FirstPosition + a ELSE FirstPosition + a - NumberOfVariables
  BY <1>1 DEF At
<1>3. At(a + b) = (At(a) + b) % NumberOfVariables
  BY <1>1, <1>2 DEF At
<1> QED
  BY <1>1, <1>2, <1>3

\* One more thread takes exactly its share.
LEMMA TakenByOneMore ==
    ASSUME TypeOK, NumbersInv, NEW t \in Threads, t \notin served,
           ~HasNoNumber(t), \A u \in served : ~HasNoNumber(u)
    PROVE  TakenBy(served \cup {t}) = TakenBy(served) + Share(t)
<1>1. IsFiniteSet(served) /\ served \subseteq Threads
  BY FS_Subset DEF TypeOK
<1>2. /\ Cardinality(served) \in Nat
      /\ Cardinality(served \cup {t}) = Cardinality(served) + 1
  BY <1>1, FS_AddElement, FS_CardinalityType
<1> DEFINE part == Cardinality(served) * Quotient
<1>3. part \in Nat /\ Cardinality(served \cup {t}) * Quotient = part + Quotient
  BY <1>2, SharesType, Multiples
<1> HIDE DEF part
<1>4. Share(t) = Quotient + (IF IsLast(t) THEN Remainder ELSE 0)
  BY DEF Share, Quotient, Remainder, IsLast
<1>5. IsLast(t) => ~ \E u \in served : IsLast(u)
  BY <1>1 DEF IsLast, NumbersInv, Numbered
<1>6. TakenBy(served) = part + (IF \E u \in served : IsLast(u) THEN Remainder ELSE 0)
  BY DEF TakenBy, part
<1>7. TakenBy(served \cup {t})
          = (part + Quotient)
            + (IF \E u \in served \cup {t} : IsLast(u) THEN Remainder ELSE 0)
  BY <1>3 DEF TakenBy
<1>8. (\E u \in served \cup {t} : IsLast(u))
          <=> IsLast(t) \/ \E u \in served : IsLast(u)
  OBVIOUS
<1> QED
  BY <1>3, <1>4, <1>5, <1>6, <1>7, <1>8, SharesType

\* Steps that move nobody into a slice and publish nothing.
LEMMA SlicesSame ==
    ASSUME TypeOK, ServedInv, SliceInv, ~quit,
           UNCHANGED <<currentIdx, numberOfChangedVariables, currentIdxThreads, served>>,
           \A t \in served : threadId'[t] = threadId[t],
           \A t \in Threads : pc'[t] = "sending" =>
               pc[t] = "sending" /\ slice'[t] = slice[t],
           \A t \in Threads : pc'[t] \in {"slice", "sending"} =>
               slice'[t].len = Share(t)'
    PROVE  SliceInv'
<1>1. \A o : At(o)' = At(o)
  BY DEF At, FirstPosition
<1>2. \A t \in served : IsLast(t)' = IsLast(t)
  BY DEF IsLast
<1>3. TakenBy(served)' = TakenBy(served)
  BY <1>2 DEF TakenBy, Quotient, Remainder
<1>4. PICK off \in [Threads -> Nat] : Layout(off)
  BY DEF SliceInv
<1>5. Layout(off)'
  BY <1>1, <1>3, <1>4 DEF Layout
<1>6. currentIdxThreads' = At(TakenBy(served))'
  BY <1>3 DEF At, FirstPosition, SliceInv
<1> QED
  BY <1>4, <1>5, <1>6 DEF SliceInv

LEMMA SlicesPublished ==
    ASSUME TypeOK, BarrierInv, ~quit, Publish
    PROVE  SliceInv'
<1>1. \A t \in Threads : pc'[t] \notin {"slice", "sending"}
  BY DEF Publish, GotoMain, BarrierInv, Stay
<1>2. TakenBy(served)' = 0
  <2>1. served' = {} /\ numberOfChangedVariables' \in Nat
    BY WindowSize DEF Publish, TypeOK
  <2>2. Quotient' \in Nat
    BY <2>1, PoolSize, DivMod DEF Quotient
  <2> QED
    BY <2>1, <2>2, FS_EmptySet DEF TakenBy
<1>3. currentIdxThreads' = At(TakenBy(served))'
  <2>1. /\ currentIdx \in 0 .. NumberOfVariables - 1 /\ nVariables \in Nat
        /\ nVariables <= NumberOfVariables
    BY WindowSize DEF TypeOK
  <2>2. currentIdx' = IF currentIdx + nVariables < NumberOfVariables
                      THEN currentIdx + nVariables
                      ELSE currentIdx + nVariables - NumberOfVariables
    BY <2>1 DEF Publish, Advance
  <2>3. numberOfChangedVariables' = nVariables /\ currentIdxThreads' = currentIdx
    BY DEF Publish
  <2>4. FirstPosition' = currentIdx
    BY <2>1, <2>2, <2>3 DEF FirstPosition
  <2> QED
    BY <1>2, <2>1, <2>3, <2>4 DEF At
<1>4. Layout([t \in Threads |-> 0])'
  BY <1>1 DEF Layout
<1>5. \E off \in [Threads -> Nat] : Layout(off)'
  <2>1. [t \in Threads |-> 0] \in [Threads -> Nat]
    OBVIOUS
  <2> QED
    BY <1>4, <2>1
<1> QED
  BY <1>1, <1>3, <1>5 DEF SliceInv

LEMMA SlicesMain ==
    TypeOK /\ BarrierInv /\ ServedInv /\ SliceInv /\ MainStep => SliceInv'
<1> SUFFICES ASSUME TypeOK, BarrierInv, ServedInv, SliceInv, MainStep, ~quit'
             PROVE  SliceInv'
  BY DEF SliceInv
<1>1. ~quit /\ threadId' = threadId
  BY DEF MainStep, FirstPost, Loop, ReadCounters, Decide, ZeroCounter, Publish,
         PostWindow, Drain, FinalPost, PrepareWindow, stopVars, threadVars
<1>2. CASE Publish
  BY <1>1, <1>2, SlicesPublished
<1>3. CASE ~Publish
  <2>1. /\ UNCHANGED <<currentIdx, numberOfChangedVariables, currentIdxThreads,
                       served, slice>>
        /\ pc' = pc \/ pc' = Released
    BY <1>3 DEF MainStep, FirstPost, Loop, ReadCounters, Decide, ZeroCounter,
                PostWindow, Drain, FinalPost, PrepareWindow, Post, windowVars,
                sliceVars
  <2>2. \A t \in Threads : pc'[t] \in {"slice", "sending"} => pc'[t] = pc[t]
    BY <2>1 DEF Released
  <2>3. \A t \in Threads : Share(t)' = Share(t)
    BY <1>1, <2>1 DEF Share
  <2>4. \A t \in Threads : pc'[t] \in {"slice", "sending"} =>
           slice'[t].len = Share(t)'
    BY <1>1, <2>1, <2>2, <2>3 DEF SliceInv
  <2> QED
    BY <1>1, <2>1, <2>2, <2>4, SlicesSame
<1> QED
  BY <1>2, <1>3

LEMMA SlicesTaken ==
    ASSUME TypeOK, TypeOK', NumbersInv, ServedInv, SliceInv, ~quit,
           NEW t \in Threads, TakeSlice(t)
    PROVE  SliceInv'
<1>1. /\ pc[t] = "slice" /\ pc' = [pc EXCEPT ![t] = "sending"]
      /\ slice' = [slice EXCEPT ![t].from = currentIdxThreads]
      /\ currentIdxThreads' = Advance(currentIdxThreads, slice[t].len)
      /\ served' = served \cup {t}
      /\ UNCHANGED <<currentIdx, numberOfChangedVariables, threadId>>
  BY DEF TakeSlice, Goto, windowVars, threadVars
<1>2. t \notin served /\ ~HasNoNumber(t) /\ \A u \in served : ~HasNoNumber(u)
  BY <1>1 DEF ServedInv, AfterSlice, Stay, NumbersInv, StartupPc
<1> DEFINE taken == TakenBy(served)
           share == Share(t)
<1>3. TakenBy(served) \in Nat /\ TakenBy(served)' = TakenBy(served) + Share(t)
  <2>1. TakenBy(served \cup {t}) = TakenBy(served) + Share(t)
    BY <1>2, TakenByOneMore
  <2>2. TakenBy(served)' = TakenBy(served \cup {t})
    BY <1>1 DEF TakenBy, Quotient, Remainder, IsLast
  <2>3. served \in SUBSET Threads
    BY DEF TypeOK
  <2> QED
    BY <2>1, <2>2, <2>3, TakenBound, SharesType
<1>4. slice[t].len = Share(t) /\ Share(t) \in Nat
  <2>1. slice[t].len = Share(t)
    BY <1>1 DEF SliceInv
  <2> QED
    BY <2>1 DEF TypeOK
<1>5. taken + share <= NumberOfVariables
  <2>1. served \cup {t} \in SUBSET Threads
    BY DEF TypeOK
  <2>2. TakenBy(served \cup {t}) <= numberOfChangedVariables
    BY <2>1, TakenBound, SharesType
  <2>3. TakenBy(served \cup {t}) = taken + share
    BY <1>2, TakenByOneMore
  <2> QED
    BY <2>2, <2>3, <1>3, <1>4, SharesType
<1>6. currentIdxThreads = At(taken)
  BY DEF SliceInv
<1>7. At(taken + share) = Advance(At(taken), share)
  BY <1>3, <1>4, <1>5, AtAdvances DEF Advance
<1>8. \A o : At(o)' = At(o)
  BY <1>1 DEF At, FirstPosition
<1>9. currentIdxThreads' = At(TakenBy(served))'
  BY <1>1, <1>3, <1>4, <1>6, <1>7 DEF At, FirstPosition
<1>10. \A u \in Threads : Share(u)' = Share(u)
  BY <1>1 DEF Share
<1>11. /\ slice'[t].from = At(taken) /\ slice'[t].len = share
       /\ \A u \in Threads \ {t} : slice'[u] = slice[u] /\ pc'[u] = pc[u]
  BY <1>1, <1>4, <1>6 DEF TypeOK
<1>12. \A u \in Threads : pc'[u] \in {"slice", "sending"} => slice'[u].len = Share(u)'
  BY <1>10, <1>11 DEF SliceInv
<1>13. PICK off \in [Threads -> Nat] : Layout(off)
  BY DEF SliceInv
<1>14. PICK noff \in [Threads -> Nat] :
           /\ noff[t] = taken
           /\ \A u \in Threads \ {t} : noff[u] = off[u] /\ off[u] \in Nat
  <2>1. [off EXCEPT ![t] = taken] \in [Threads -> Nat]
    BY <1>3
  <2> QED
    BY <2>1
<1> HIDE DEF taken, share
<1>15. taken \in Nat /\ share \in Nat /\ TakenBy(served)' = taken + share
  BY <1>3, <1>4 DEF taken, share
<1>16. \A u \in Threads : slice[u].len \in Nat /\ off[u] \in Nat
  BY <1>13 DEF TypeOK
<1>17. \A u \in Threads \ {t} : pc'[u] = "sending" =>
          /\ slice'[u].from = At(noff[u])
          /\ noff[u] + slice'[u].len <= taken
          /\ \A w \in Threads \ {t, u} : pc'[w] = "sending" =>
                \/ noff[u] + slice'[u].len <= noff[w]
                \/ noff[w] + slice'[w].len <= noff[u]
  BY <1>11, <1>13, <1>14 DEF Layout, taken
<1>18. ASSUME NEW u \in Threads, pc'[u] = "sending"
       PROVE  /\ slice'[u].from = At(noff[u])
              /\ noff[u] + slice'[u].len <= taken + share
              /\ \A w \in Threads \ {u} : pc'[w] = "sending" =>
                    \/ noff[u] + slice'[u].len <= noff[w]
                    \/ noff[w] + slice'[w].len <= noff[u]
  <2>1. CASE u = t
    BY <1>11, <1>14, <1>15, <1>17, <2>1
  <2>2. CASE u # t
    <3>1. noff[u] + slice'[u].len \in Nat
      BY <1>11, <1>14, <1>16, <2>2
    <3> QED
      BY <1>14, <1>15, <1>17, <1>18, <2>2, <3>1
  <2> QED
    BY <2>1, <2>2
<1>19. Layout(noff)'
  BY <1>8, <1>15, <1>18 DEF Layout
<1> QED
  BY <1>9, <1>12, <1>14, <1>19 DEF SliceInv

LEMMA SlicesThread ==
    ASSUME TypeOK, TypeOK', NumbersInv, ServedInv, SliceInv,
           NEW t \in Threads, ThreadStep(t)
    PROVE  SliceInv'
<1> SUFFICES ASSUME ~quit' PROVE SliceInv'
  BY DEF SliceInv
<1>q. ~quit
  BY ThreadKeepsQuit
<1>1. CASE TakeSlice(t)
  BY <1>q, <1>1, SlicesTaken
<1>2. ASSUME ~TakeSlice(t)
      PROVE  UNCHANGED <<currentIdx, numberOfChangedVariables,
                         currentIdxThreads, served>>
  BY <1>2 DEF ThreadStep, StartupWait, Connected, GiveUpConnecting, TakeNumber,
              Arrive, Counted, CheckQuit, WaitForWindow, Quota, SendDone,
              SendFailed, CloseClient, CloseCounted, windowVars, sliceVars
<1>3. ASSUME ~TakeSlice(t), threadId' = threadId,
             \A u \in Threads : pc'[u] \in {"slice", "sending"} =>
                 pc'[u] = pc[u] /\ slice'[u] = slice[u]
      PROVE  SliceInv'
  <2>1. \A u \in Threads : Share(u)' = Share(u)
    BY <1>2, <1>3 DEF Share
  <2>2. \A u \in Threads : pc'[u] \in {"slice", "sending"} =>
           slice'[u].len = Share(u)'
    BY <1>q, <1>3, <2>1 DEF SliceInv
  <2> QED
    BY <1>q, <1>2, <1>3, <2>2, SlicesSame
<1>4. CASE TakeNumber(t)
  <2>1. /\ pc[t] = "number" /\ pc'[t] \in {"main", "close"} /\ slice' = slice
        /\ \A u \in Threads \ {t} : pc'[u] = pc[u] /\ threadId'[u] = threadId[u]
    BY <1>4 DEF TakeNumber, Goto, NextMainStage, sliceVars, TypeOK
  <2>2. t \notin served /\ served \subseteq Threads
    BY <1>q, <2>1 DEF ServedInv, AfterSlice, Stay, TypeOK
  <2>3. ~TakeSlice(t)
    BY <2>1 DEF TakeSlice, Goto
  <2>4. \A u \in Threads \ {t} : Share(u)' = Share(u)
    BY <1>2, <2>1, <2>3 DEF Share
  <2>5. \A u \in Threads : pc'[u] \in {"slice", "sending"} =>
           slice'[u].len = Share(u)'
    BY <1>q, <2>1, <2>4 DEF SliceInv
  <2>6. \A u \in served : threadId'[u] = threadId[u]
    BY <2>1, <2>2
  <2>7. \A u \in Threads : pc'[u] = "sending" =>
           pc[u] = "sending" /\ slice'[u] = slice[u]
    BY <2>1
  <2> QED
    BY <1>q, <1>2, <2>3, <2>5, <2>6, <2>7, SlicesSame
<1>5. CASE Quota(t)
  <2>1. /\ pc[t] = "quota" /\ pc'[t] # "sending" /\ threadId' = threadId
        /\ slice'[t].len = Share(t)
        /\ \A u \in Threads \ {t} : pc'[u] = pc[u] /\ slice'[u] = slice[u]
    BY <1>5 DEF Quota, Goto, NextMainStage, threadVars, TypeOK
  <2>2. ~TakeSlice(t)
    BY <2>1 DEF TakeSlice, Goto
  <2>3. \A u \in Threads : Share(u)' = Share(u)
    BY <1>2, <2>1, <2>2 DEF Share
  <2>4. \A u \in Threads : pc'[u] \in {"slice", "sending"} =>
           slice'[u].len = Share(u)'
    BY <1>q, <2>1, <2>3 DEF SliceInv
  <2>5. \A u \in Threads : pc'[u] = "sending" =>
           pc[u] = "sending" /\ slice'[u] = slice[u]
    BY <2>1
  <2> QED
    BY <1>q, <1>2, <2>1, <2>2, <2>4, <2>5, SlicesSame
<1>6. CASE SendDone(t) \/ SendFailed(t)
  <2>1. /\ pc[t] = "sending" /\ pc'[t] \notin {"slice", "sending"}
        /\ threadId' = threadId
        /\ \A u \in Threads \ {t} : pc'[u] = pc[u] /\ slice'[u] = slice[u]
    BY <1>6 DEF SendDone, SendFailed, Goto, NextMainStage, threadVars, TypeOK
  <2>2. ~TakeSlice(t)
    BY <2>1 DEF TakeSlice, Goto
  <2> QED
    BY <1>3, <2>1, <2>2
<1>7. CASE StartupWait(t) \/ Connected(t) \/ GiveUpConnecting(t)
           \/ WaitForWindow(t) \/ CheckQuit(t)
  <2>1. /\ pc[t] # "slice" /\ pc'[t] \notin {"slice", "sending"}
        /\ threadId' = threadId /\ slice' = slice
        /\ \A u \in Threads \ {t} : pc'[u] = pc[u]
    BY <1>7 DEF StartupWait, Connected, GiveUpConnecting, WaitForWindow, CheckQuit,
                Goto, NextMainStage, threadVars, sliceVars, TypeOK
  <2>2. ~TakeSlice(t)
    BY <2>1 DEF TakeSlice, Goto
  <2> QED
    BY <1>3, <2>1, <2>2
<1>8. CASE Arrive(t) \/ Counted(t) \/ CloseClient(t) \/ CloseCounted(t)
  <2>1. /\ pc[t] # "slice" /\ pc'[t] \notin {"slice", "sending"}
        /\ threadId' = threadId /\ slice' = slice
        /\ \A u \in Threads \ {t} : pc'[u] = pc[u]
    BY <1>8 DEF Arrive, Counted, CloseClient, CloseCounted, Goto, threadVars,
                sliceVars, TypeOK
  <2>2. ~TakeSlice(t)
    BY <2>1 DEF TakeSlice, Goto
  <2> QED
    BY <1>3, <2>1, <2>2
<1> QED
  BY <1>1, <1>4, <1>5, <1>6, <1>7, <1>8 DEF ThreadStep

LEMMA SlicesInit == Init => SliceInv
<1> SUFFICES ASSUME Init PROVE SliceInv
  OBVIOUS
<1>1. TypeOK
  BY InitTypeOK
<1>2. served = {} /\ TakenBy(served) = 0
  BY <1>1, SharesType, FS_EmptySet DEF Init, TakenBy
<1>3. currentIdxThreads = At(0)
  BY <1>1, <1>2 DEF Init, At, FirstPosition
<1>4. \A t \in Threads : pc[t] \notin {"slice", "sending"}
  BY DEF Init
<1>5. [t \in Threads |-> 0] \in [Threads -> Nat] /\ Layout([t \in Threads |-> 0])
  BY <1>4 DEF Layout
<1> QED
  BY <1>2, <1>3, <1>4, <1>5 DEF SliceInv

\* The inductive invariant of the slices.
THEOREM SliceInvariant == Spec => []SliceInv
<1>1. /\ TypeOK /\ TypeOK' /\ BarrierInv /\ NumbersInv /\ ServedInv /\ SliceInv
      /\ [Next]_vars
      => SliceInv'
  <2> SUFFICES ASSUME TypeOK, TypeOK', BarrierInv, NumbersInv, ServedInv,
                      SliceInv, [Next]_vars
               PROVE  SliceInv'
    OBVIOUS
  <2>1. CASE MainStep
    BY <2>1, SlicesMain
  <2>2. CASE \E t \in Threads : ThreadStep(t)
    BY <2>2, SlicesThread
  <2>3. CASE StopStep \/ UNCHANGED vars
    <3>1. /\ UNCHANGED <<pc, slice, threadId, currentIdx, served,
                         numberOfChangedVariables, currentIdxThreads>>
          /\ quit => quit'
      BY <2>3 DEF StopStep, StopCall, StopWait, StopCommand, vars, windowVars,
                  threadVars, sliceVars, stopVars
    <3>2. \A t \in Threads : Share(t)' = Share(t)
      BY <3>1 DEF Share
    <3>3. CASE quit
      BY <3>1, <3>3 DEF SliceInv
    <3>4. CASE ~quit
      <4>1. \A t \in Threads : pc'[t] \in {"slice", "sending"} =>
               slice'[t].len = Share(t)'
        BY <3>1, <3>2, <3>4 DEF SliceInv
      <4> QED
        BY <3>1, <3>4, <4>1, SlicesSame
    <3> QED
      BY <3>3, <3>4
  <2> QED
    BY <2>1, <2>2, <2>3 DEF Next
<1> QED
  BY SlicesInit, <1>1, TypeCorrect, Barrier, NumbersInvariant, ServedOnce, PTL
     DEF Spec

\* Different offsets of the window are different positions of the queue.
LEMMA AtInjective ==
    ASSUME TypeOK, NEW a \in Nat, NEW b \in Nat, At(a) = At(b),
           a < NumberOfVariables, b < NumberOfVariables
    PROVE  a = b
<1>1. a + 0 <= NumberOfVariables /\ b + 0 <= NumberOfVariables /\ 0 \in Nat
  OBVIOUS
<1>2. At(a) = IF FirstPosition + a < NumberOfVariables
              THEN FirstPosition + a ELSE FirstPosition + a - NumberOfVariables
  BY <1>1, AtAdvances
<1>3. At(b) = IF FirstPosition + b < NumberOfVariables
              THEN FirstPosition + b ELSE FirstPosition + b - NumberOfVariables
  BY <1>1, AtAdvances
<1>4. FirstPosition \in 0 .. NumberOfVariables - 1
  BY <1>1, AtAdvances
<1>5. (IF FirstPosition + a < NumberOfVariables
       THEN FirstPosition + a ELSE FirstPosition + a - NumberOfVariables)
      = (IF FirstPosition + b < NumberOfVariables
         THEN FirstPosition + b ELSE FirstPosition + b - NumberOfVariables)
  BY <1>2, <1>3
<1> QED
  BY <1>4, <1>5

\* Two threads never send the same position, and none sends one that is not
\* in the published window, in any pool.
THEOREM SlicesAreApart == Spec => []SlicesPartition
<1>1. TypeOK /\ SliceInv => SlicesPartition
  <2> SUFFICES ASSUME TypeOK, SliceInv, ~quit, NEW t \in Threads, pc[t] = "sending"
               PROVE  /\ Positions(slice[t]) \subseteq Published
                      /\ \A u \in Threads \ {t} : pc[u] = "sending" =>
                            Positions(slice[t]) \cap Positions(slice[u]) = {}
    BY DEF SlicesPartition
  <2>1. PICK off \in [Threads -> Nat] : Layout(off)
    BY DEF SliceInv
  <2>2. TakenBy(served) \in Nat /\ TakenBy(served) <= numberOfChangedVariables
    <3>1. served \in SUBSET Threads
      BY DEF TypeOK
    <3> QED
      BY <3>1, TakenBound, SharesType
  <2>3. ASSUME NEW u \in Threads, pc[u] = "sending", NEW p \in Positions(slice[u])
        PROVE  \E o \in off[u] .. off[u] + slice[u].len - 1 :
                  o \in Nat /\ o < numberOfChangedVariables /\ p = At(o)
    <3>1. PICK k \in 0 .. slice[u].len - 1 : p = (slice[u].from + k) % NumberOfVariables
      BY <2>3 DEF Positions
    <3>2. off[u] \in Nat /\ slice[u].len \in Nat /\ k \in Nat
      BY DEF TypeOK
    <3>3. slice[u].from = At(off[u]) /\ off[u] + slice[u].len <= TakenBy(served)
      BY <2>1, <2>3 DEF Layout
    <3>4. /\ off[u] + k \in Nat /\ off[u] + k < numberOfChangedVariables
          /\ off[u] + k <= NumberOfVariables
          /\ off[u] + k \in off[u] .. off[u] + slice[u].len - 1
      BY <2>2, <3>2, <3>3, SharesType
    <3>5. p = At(off[u] + k)
      BY <3>1, <3>2, <3>3, <3>4, AtAdvances
    <3> QED
      BY <3>4, <3>5
  <2>4. Positions(slice[t]) \subseteq Published
    <3> SUFFICES ASSUME NEW p \in Positions(slice[t]) PROVE p \in Published
      OBVIOUS
    <3>1. PICK o \in Nat : o < numberOfChangedVariables /\ p = At(o)
      BY <2>3
    <3> DEFINE k == numberOfChangedVariables - o
    <3>2. k \in 1 .. numberOfChangedVariables /\ k <= NumberOfVariables
      BY <3>1, SharesType
    <3>3. /\ o + 0 <= NumberOfVariables
          /\ currentIdx \in 0 .. NumberOfVariables - 1
      BY <3>1, SharesType DEF TypeOK
    <3>4. FirstPosition = IF currentIdx >= numberOfChangedVariables
                          THEN currentIdx - numberOfChangedVariables
                          ELSE currentIdx + NumberOfVariables
                                 - numberOfChangedVariables
      BY <3>3, SharesType DEF FirstPosition
    <3>5. At(o) = IF FirstPosition + o < NumberOfVariables
                  THEN FirstPosition + o ELSE FirstPosition + o - NumberOfVariables
      BY <3>3, AtAdvances
    <3>6. (currentIdx + NumberOfVariables - k) % NumberOfVariables
              = IF currentIdx >= k THEN currentIdx - k
                ELSE currentIdx + NumberOfVariables - k
      BY <3>2, <3>3
    <3>7. At(o) = (currentIdx + NumberOfVariables - k) % NumberOfVariables
      BY <3>1, <3>3, <3>4, <3>5, <3>6, SharesType
    <3> QED
      BY <3>1, <3>2, <3>7 DEF Published
  <2>5. ASSUME NEW u \in Threads \ {t}, pc[u] = "sending",
               NEW p \in Positions(slice[t]), p \in Positions(slice[u])
        PROVE  FALSE
    <3>1. PICK a \in off[t] .. off[t] + slice[t].len - 1 :
             a \in Nat /\ a < numberOfChangedVariables /\ p = At(a)
      BY <2>3
    <3>2. PICK b \in off[u] .. off[u] + slice[u].len - 1 :
             b \in Nat /\ b < numberOfChangedVariables /\ p = At(b)
      BY <2>3, <2>5
    <3>3. a = b
      <4>1. At(a) = At(b) /\ a < NumberOfVariables /\ b < NumberOfVariables
        BY <3>1, <3>2, SharesType
      <4> QED
        BY <3>1, <3>2, <4>1, AtInjective
    <3>4. \/ off[t] + slice[t].len <= off[u]
          \/ off[u] + slice[u].len <= off[t]
      BY <2>1, <2>5 DEF Layout
    <3>5. /\ off[t] \in Nat /\ off[u] \in Nat
          /\ slice[t].len \in Nat /\ slice[u].len \in Nat
      BY DEF TypeOK
    <3> QED
      BY <3>1, <3>2, <3>3, <3>4, <3>5
  <2> QED
    BY <2>4, <2>5
<1> QED
  BY <1>1, TypeCorrect, SliceInvariant, PTL

\* When every thread has taken a slice, no position of the window is left.
THEOREM WholeWindowIsTaken == Spec => []WindowIsTaken
<1>1. TypeOK /\ NumbersInv /\ ServedInv /\ SliceInv => WindowIsTaken
  <2> SUFFICES ASSUME TypeOK, NumbersInv, ServedInv, SliceInv, ~quit,
                      served = Threads
               PROVE  currentIdxThreads = currentIdx
    BY DEF WindowIsTaken
  <2>1. threadIndex = numberOfPoolThreads
    <3>1. Numbered = Threads
      BY DEF ServedInv, Numbered
    <3> QED
      BY <3>1 DEF NumbersInv, numberOfPoolThreads
  <2>2. \E t \in Threads : IsLast(t)
    <3>1. numberOfPoolThreads - 1 \in 0 .. threadIndex - 1
      BY <2>1, PoolSize
    <3> QED
      BY <3>1 DEF NumbersInv, Numbered, IsLast
  <2>3. TakenBy(served) = numberOfChangedVariables
    BY <2>2, SharesType DEF TakenBy, numberOfPoolThreads
  <2>4. currentIdxThreads = At(numberOfChangedVariables)
    BY <2>3 DEF SliceInv
  <2>5. /\ currentIdx \in 0 .. NumberOfVariables - 1
        /\ numberOfChangedVariables + 0 <= NumberOfVariables
    BY SharesType DEF TypeOK
  <2>6. FirstPosition = IF currentIdx >= numberOfChangedVariables
                        THEN currentIdx - numberOfChangedVariables
                        ELSE currentIdx + NumberOfVariables
                               - numberOfChangedVariables
    BY <2>5, SharesType DEF FirstPosition
  <2>7. At(numberOfChangedVariables)
            = IF FirstPosition + numberOfChangedVariables < NumberOfVariables
              THEN FirstPosition + numberOfChangedVariables
              ELSE FirstPosition + numberOfChangedVariables - NumberOfVariables
    BY <2>5, SharesType, AtAdvances
  <2> QED
    BY <2>4, <2>5, <2>6, <2>7, SharesType
<1> QED
  BY <1>1, TypeCorrect, NumbersInvariant, ServedOnce, SliceInvariant, PTL

\* The slices are a partition of the published window, in any pool.
THEOREM WindowIsPartitionedBySlices == Spec => []WindowIsPartitioned
<1>1. SlicesPartition /\ WindowIsTaken => WindowIsPartitioned
  BY DEF WindowIsPartitioned
<1> QED
  BY <1>1, SlicesAreApart, WholeWindowIsTaken, PTL

=============================================================================
