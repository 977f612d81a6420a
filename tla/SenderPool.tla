----------------------------- MODULE SenderPool -----------------------------
(***************************************************************************)
(* The thread pool of PrioritySender: the main thread                      *)
(* (PrioritySenderCycleLoop) publishes a window of the PV queue, the pool  *)
(* threads (ThreadCycle, SendVariables) share that window among them, and  *)
(* Stop() ends everything.  They meet at a barrier made of one event       *)
(* semaphore (eventSem), one counter (nThreadsFinished) and one spin lock  *)
(* (syncSem).                                                              *)
(*                                                                         *)
(* What is sent is abstract here: a window is a number of queue positions. *)
(* The queue itself is the subject of module SenderQueue.                  *)
(*                                                                         *)
(* A local variable whose scope has ended, or which is written again       *)
(* before it is read, is set back to its initial value.                    *)
(*                                                                         *)
(* External code (MARTe2), modelled from its use:                          *)
(*  - EventSem: Post releases every thread blocked in Wait and leaves the  *)
(*    event posted until a Reset; Wait returns at once while it is posted; *)
(*  - FastPollingMutexSem: mutual exclusion, without order;                *)
(*  - MultiThreadService / EmbeddedThread: each thread runs Startup, then  *)
(*    MainStage until an error or a stop command, then a termination       *)
(*    stage, then Startup again unless the stop command has been given;    *)
(*  - HttpChunkedStream / HttpProtocol: Connect, the sends and the replies *)
(*    succeed or fail, and may take any time.                              *)
(***************************************************************************)
EXTENDS Integers, FiniteSets

CONSTANTS
    Threads,                \* the pool threads
    NumberOfVariables,      \* PVs in the queue (numberOfVariables)
    NumberOfSignalToBeSent, \* PVs per thread and per cycle
    WindowLengths,          \* the lengths a window may have: the most the pool
                            \* sends in a cycle, or less when maxBytesPerCycle cuts it
    NumberOfChunks,         \* cycles of one FIFO pass over the queue
    MayStop,                \* TRUE iff Stop() is called in the behaviours
    MaxCount                \* bound on nThreadsFinished once quit is set

numberOfPoolThreads == Cardinality(Threads)
maxSignalPerThread  == NumberOfSignalToBeSent * numberOfPoolThreads

ASSUME PoolAssumption ==
    /\ IsFiniteSet(Threads) /\ Threads # {}
    /\ NumberOfVariables \in Nat \ {0}
    /\ NumberOfSignalToBeSent \in Nat
    /\ maxSignalPerThread <= NumberOfVariables  \* the test of SetDataSource
    /\ WindowLengths \subseteq 0 .. maxSignalPerThread
    /\ NumberOfChunks \in Nat
    /\ MayStop \in BOOLEAN
    /\ MaxCount \in Nat

VARIABLES
    pc,                       \* where each pool thread is
    pcMain,                   \* where the main thread is
    pcStop,                   \* where the caller of Stop() is
    quit,                     \* Stop() has incremented quit
    stopRequested,            \* MultiThreadService::Stop has been called
    posted,                   \* eventSem
    nThreadsFinished,
    count,                    \* nThreadsFinished as loaded by the thread in syncSem
    nThreadsFinishedTmp,      \* the main thread's copy of nThreadsFinished
    chunckCounter,
    chunkCounterRead,         \* the main thread's copy of chunckCounter
    changed,                  \* a window is prepared and not yet published
    nVariables,               \* its length
    currentIdx,               \* the first queue position not yet published
    currentIdxThreads,        \* the first published position not yet taken
    numberOfChangedVariables, \* the length of the published window
    threadIndex,              \* the next thread number to give
    threadId,                 \* GetThreadNumber() of each thread
    client,                   \* the threads that own an HttpChunkedStream
    slice,                    \* the part of the window each thread sends
    crashed,                  \* an access outside of an array ended the process
    arrived,                  \* history: counted since the counter was zeroed
    served                    \* history: took a slice of the published window

copyVars   == <<nThreadsFinishedTmp, chunkCounterRead>>
windowVars == <<changed, nVariables, currentIdx, numberOfChangedVariables>>
countVars  == <<nThreadsFinished, count, arrived>>
stopVars   == <<quit, stopRequested>>
threadVars == <<threadIndex, threadId, client, crashed>>
sliceVars  == <<currentIdxThreads, slice, served>>
vars == <<pc, pcMain, pcStop, posted, chunckCounter, copyVars, windowVars,
          countVars, stopVars, threadVars, sliceVars>>

NoThreadNumber == 0 - 1        \* 0xFFFF in the code

NoSlice == [from |-> 0, len |-> 0]

\* ThreadCycle, by stage.
StartupPc == {"boot", "bootWait", "connect", "number"}
MainPc    == {"main", "count", "check", "gate", "blocked",
              "quota", "slice", "sending"}
ClosePc   == {"close", "closeCount"}
ThreadPc  == StartupPc \cup MainPc \cup ClosePc \cup {"dead"}

\* The pool threads that hold syncSem over more than one step.
InCriticalSection == {t \in Threads : pc[t] \in {"count", "closeCount"}}

LockFree == InCriticalSection = {}

Goto(t, from, to) == pc[t] = from /\ pc' = [pc EXCEPT ![t] = to]
GotoMain(from, to) == pcMain = from /\ pcMain' = to

\* Positions in the queue wrap around.
Advance(idx, n) == (idx + n) % NumberOfVariables

\* EventSem::Post: every blocked thread passes, and the event stays posted.
Released == [t \in Threads |-> CASE pc[t] = "bootWait" -> "connect"
                                 [] pc[t] = "blocked"  -> "quota"
                                 [] OTHER              -> pc[t]]
ReleasedStop == IF pcStop = "blocked" THEN "command" ELSE pcStop

Post == posted' = TRUE /\ pc' = Released /\ pcStop' = ReleasedStop

Init ==
    /\ pc = [t \in Threads |-> "boot"]
    /\ pcMain = "first" /\ pcStop = "idle"
    /\ quit = FALSE /\ stopRequested = FALSE /\ crashed = FALSE
    /\ posted = FALSE /\ nThreadsFinished = 0 /\ count = 0
    /\ nThreadsFinishedTmp = 0 /\ chunckCounter = 0 /\ chunkCounterRead = 0
    /\ changed = FALSE /\ nVariables = 0
    /\ currentIdx = 0 /\ currentIdxThreads = 0 /\ numberOfChangedVariables = 0
    /\ threadIndex = 0 /\ threadId = [t \in Threads |-> NoThreadNumber]
    /\ client = {}
    /\ slice = [t \in Threads |-> NoSlice]
    /\ arrived = {} /\ served = {}

-----------------------------------------------------------------------------
(* The main thread: PrioritySenderCycleLoop.                               *)

\* The Post that tells the pool that the main thread has started.
FirstPost ==
    /\ GotoMain("first", "loop")
    /\ Post
    /\ UNCHANGED <<chunckCounter, copyVars, windowVars, countVars, stopVars,
                   threadVars, sliceVars>>

\* The loop condition, then the copies taken under syncSem.
Loop ==
    /\ GotoMain("loop", IF quit THEN "drain" ELSE "read")
    /\ UNCHANGED <<pc, pcStop, posted, chunckCounter, copyVars, windowVars,
                   countVars, stopVars, threadVars, sliceVars>>

ReadCounters ==
    /\ GotoMain("read", IF changed THEN "decide" ELSE "sort")
    /\ LockFree
    /\ chunkCounterRead' = IF changed THEN 0 ELSE chunckCounter
    /\ nThreadsFinishedTmp' = nThreadsFinished
    /\ UNCHANGED <<pc, pcStop, posted, chunckCounter, windowVars, countVars,
                   stopVars, threadVars, sliceVars>>

\* Synchronise, sort or count one more FIFO chunk, cut the window to the caps
\* on its length and on its bytes, restart FIFO when too many PVs are pending.
\* The two critical sections on chunckCounter are one step: apart from them
\* only TakeNumber writes it, and it writes a constant.
PrepareWindow(n, restart) ==
    LET fifo == chunkCounterRead < NumberOfChunks IN
    /\ GotoMain("sort", "decide")
    /\ fifo \/ restart => LockFree
    /\ chunckCounter' = CASE restart            -> 0
                          [] fifo /\ ~restart   -> chunckCounter + 1
                          [] ~fifo /\ ~restart  -> chunckCounter
    /\ nVariables' = n
    /\ changed' = TRUE
    /\ chunkCounterRead' = 0
    /\ UNCHANGED <<pc, pcStop, posted, nThreadsFinishedTmp, currentIdx,
                   numberOfChangedVariables, countVars, stopVars, threadVars,
                   sliceVars>>

\* Variant with a bug: off by one.
AllButOneFinished == nThreadsFinishedTmp >= numberOfPoolThreads - 1

\* "all the threads sent the variables", according to the copy.
AllThreadsFinished == nThreadsFinishedTmp = numberOfPoolThreads

Decide ==
    /\ GotoMain("decide", IF AllThreadsFinished THEN "zero" ELSE "loop")
    /\ nThreadsFinishedTmp' = 0
    /\ UNCHANGED <<pc, pcStop, posted, chunckCounter, chunkCounterRead, windowVars,
                   countVars, stopVars, threadVars, sliceVars>>

\* nThreadsFinished = 0u, without syncSem.
ZeroCounter ==
    /\ GotoMain("zero", "copy")
    /\ nThreadsFinished' = 0
    /\ arrived' = {}
    /\ UNCHANGED <<pc, pcStop, posted, chunckCounter, copyVars, windowVars,
                   count, stopVars, threadVars, sliceVars>>

\* The memory, the index list and the window become those of the pool.
Publish ==
    /\ GotoMain("copy", "post")
    /\ currentIdxThreads' = currentIdx
    /\ currentIdx' = Advance(currentIdx, nVariables)
    /\ numberOfChangedVariables' = nVariables
    /\ changed' = FALSE
    /\ nVariables' = 0
    /\ served' = {}
    /\ UNCHANGED <<pc, pcStop, posted, chunckCounter, copyVars, countVars,
                   stopVars, threadVars, slice>>

PostWindow ==
    /\ GotoMain("post", "loop")
    /\ Post
    /\ UNCHANGED <<chunckCounter, copyVars, windowVars, countVars, stopVars,
                   threadVars, sliceVars>>

\* After the loop: wait for the pool, without syncSem, then a last Post.
Drain ==
    /\ GotoMain("drain", "final")
    /\ nThreadsFinished >= numberOfPoolThreads
    /\ UNCHANGED <<pc, pcStop, posted, chunckCounter, copyVars, windowVars,
                   countVars, stopVars, threadVars, sliceVars>>

\* Variant with a bug: the main thread ends without the last Post.
FinalWithoutPost ==
    /\ GotoMain("final", "ended")
    /\ UNCHANGED <<pc, pcStop, posted, chunckCounter, copyVars, windowVars,
                   countVars, stopVars, threadVars, sliceVars>>

FinalPost ==
    /\ GotoMain("final", "ended")
    /\ Post
    /\ UNCHANGED <<chunckCounter, copyVars, windowVars, countVars, stopVars,
                   threadVars, sliceVars>>

MainStep ==
    \/ FirstPost \/ Loop \/ ReadCounters \/ Decide \/ ZeroCounter
    \/ Publish \/ PostWindow \/ Drain \/ FinalPost
    \/ \E n \in WindowLengths, restart \in BOOLEAN :
          PrepareWindow(n, restart)

-----------------------------------------------------------------------------
(* A pool thread: ThreadCycle, called by EmbeddedThread stage after stage. *)

\* The stage that follows one that returned without error.
NextMainStage == IF stopRequested THEN "close" ELSE "main"

\* Startup: eventSem.Wait, "be sure the main thread started".
StartupWait(t) ==
    /\ Goto(t, "boot", IF posted THEN "connect" ELSE "bootWait")
    /\ UNCHANGED <<pcMain, pcStop, posted, chunckCounter, copyVars, windowVars,
                   countVars, stopVars, threadVars, sliceVars>>

\* Connect succeeds before quit is set ...
Connected(t) ==
    /\ Goto(t, "connect", "number")
    /\ ~quit
    /\ UNCHANGED <<pcMain, pcStop, posted, chunckCounter, copyVars, windowVars,
                   countVars, stopVars, threadVars, sliceVars>>

\* ... or quit ends the attempts, and Startup returns without client or number.
GiveUpConnecting(t) ==
    /\ Goto(t, "connect", NextMainStage)
    /\ quit
    /\ UNCHANGED <<pcMain, pcStop, posted, chunckCounter, copyVars, windowVars,
                   countVars, stopVars, threadVars, sliceVars>>

\* The end of Startup: the client is set, the thread gets its number the first
\* time, and the FIFO pass starts again.
\* Variant with a bug: a thread takes a new number whenever it connects.
AlwaysNewNumber(t) == TRUE

HasNoNumber(t) == threadId[t] = NoThreadNumber

TakeNumber(t) ==
    /\ Goto(t, "number", NextMainStage)
    /\ LockFree
    /\ client' = client \cup {t}
    /\ threadId' = IF HasNoNumber(t) THEN [threadId EXCEPT ![t] = threadIndex]
                   ELSE threadId
    /\ threadIndex' = IF HasNoNumber(t) THEN threadIndex + 1 ELSE threadIndex
    /\ chunckCounter' = 0
    /\ UNCHANGED <<pcMain, pcStop, posted, copyVars, windowVars, countVars,
                   stopVars, crashed, sliceVars>>

\* Variant with a bug: the event stays posted.
LockWithoutReset == LockFree /\ count' = nThreadsFinished /\ UNCHANGED posted

\* syncSem taken, eventSem.Reset, nThreadsFinished loaded for its increment.
LockAndReset ==
    /\ LockFree
    /\ posted' = FALSE
    /\ count' = nThreadsFinished

\* nThreadsFinished++ stored, syncSem released.  After quit a thread may count
\* itself any number of times: the counter is then kept below MaxCount.
StoreAndUnlock(t) ==
    /\ nThreadsFinished' = IF quit /\ count >= MaxCount THEN count ELSE count + 1
    /\ arrived' = arrived \cup {t}
    /\ count' = 0

\* MainStage.
Arrive(t) ==
    /\ Goto(t, "main", "count")
    /\ LockAndReset
    /\ UNCHANGED <<pcMain, pcStop, chunckCounter, copyVars, windowVars,
                   nThreadsFinished, arrived, stopVars, threadVars, sliceVars>>

Counted(t) ==
    /\ Goto(t, "count", "check")
    /\ StoreAndUnlock(t)
    /\ UNCHANGED <<pcMain, pcStop, posted, chunckCounter, copyVars, windowVars,
                   stopVars, threadVars, sliceVars>>

\* The statistics are indexed by the thread number: without a number they lie
\* outside of their arrays.  Then quit is tested.
CheckQuit(t) ==
    /\ Goto(t, "check", IF quit THEN NextMainStage ELSE "gate")
    /\ crashed' \in IF HasNoNumber(t) THEN BOOLEAN ELSE {FALSE}
    /\ UNCHANGED <<pcMain, pcStop, posted, chunckCounter, copyVars, windowVars,
                   countVars, stopVars, threadIndex, threadId, client, sliceVars>>

WaitForWindow(t) ==
    /\ Goto(t, "gate", IF posted THEN "quota" ELSE "blocked")
    /\ UNCHANGED <<pcMain, pcStop, posted, chunckCounter, copyVars, windowVars,
                   countVars, stopVars, threadVars, sliceVars>>

\* Variant with a bug: every share is rounded up.
ShareRoundedUp(t) ==
    (numberOfChangedVariables + numberOfPoolThreads - 1) \div numberOfPoolThreads

\* SendVariables: the share of this thread; the last one takes the remainder.
Share(t) ==
    numberOfChangedVariables \div numberOfPoolThreads
        + (IF threadId[t] = numberOfPoolThreads - 1
           THEN numberOfChangedVariables % numberOfPoolThreads ELSE 0)

Quota(t) ==
    /\ Goto(t, "quota", IF t \in client THEN "slice" ELSE NextMainStage)
    /\ slice' = [slice EXCEPT ![t].len = Share(t)]
    /\ UNCHANGED <<pcMain, pcStop, posted, chunckCounter, copyVars, windowVars,
                   countVars, stopVars, threadVars, currentIdxThreads, served>>

\* Under syncSem: the slice starts where the previous one ended.
TakeSlice(t) ==
    /\ Goto(t, "slice", "sending")
    /\ LockFree
    /\ slice' = [slice EXCEPT ![t].from = currentIdxThreads]
    /\ currentIdxThreads' = Advance(currentIdxThreads, slice[t].len)
    /\ served' = served \cup {t}
    /\ UNCHANGED <<pcMain, pcStop, posted, chunckCounter, copyVars, windowVars,
                   countVars, stopVars, threadVars>>

\* Every PV of the slice is written ...
SendDone(t) ==
    /\ Goto(t, "sending", NextMainStage)
    /\ slice' = [slice EXCEPT ![t] = NoSlice]
    /\ UNCHANGED <<pcMain, pcStop, posted, chunckCounter, copyVars, windowVars,
                   countVars, stopVars, threadVars, currentIdxThreads, served>>

\* ... or a write fails or the server answers that the connection is complete.
SendFailed(t) ==
    /\ Goto(t, "sending", "close")
    /\ slice[t].len > 0
    /\ slice' = [slice EXCEPT ![t] = NoSlice]
    /\ UNCHANGED <<pcMain, pcStop, posted, chunckCounter, copyVars, windowVars,
                   countVars, stopVars, threadVars, currentIdxThreads, served>>

\* The termination stages: the client is closed, and the thread counts itself.
CloseClient(t) ==
    /\ Goto(t, "close", "closeCount")
    /\ LockAndReset
    /\ client' = client \ {t}
    /\ UNCHANGED <<pcMain, pcStop, chunckCounter, copyVars, windowVars,
                   nThreadsFinished, arrived, stopVars, threadIndex, threadId,
                   crashed, sliceVars>>

\* Variant with a bug: the termination stages do not count the thread.
CloseNotCounted(t) ==
    /\ Goto(t, "closeCount", IF stopRequested THEN "dead" ELSE "boot")
    /\ UNCHANGED <<pcMain, pcStop, posted, chunckCounter, copyVars, windowVars,
                   countVars, stopVars, threadVars, sliceVars>>

CloseCounted(t) ==
    /\ Goto(t, "closeCount", IF stopRequested THEN "dead" ELSE "boot")
    /\ StoreAndUnlock(t)
    /\ UNCHANGED <<pcMain, pcStop, posted, chunckCounter, copyVars, windowVars,
                   stopVars, threadVars, sliceVars>>

ThreadStep(t) ==
    \/ StartupWait(t) \/ Connected(t) \/ GiveUpConnecting(t) \/ TakeNumber(t)
    \/ Arrive(t) \/ Counted(t) \/ CheckQuit(t) \/ WaitForWindow(t)
    \/ Quota(t) \/ TakeSlice(t) \/ SendDone(t) \/ SendFailed(t)
    \/ CloseClient(t) \/ CloseCounted(t)

-----------------------------------------------------------------------------
(* The thread that calls Stop().                                           *)

StopCall ==
    /\ MayStop
    /\ pcStop = "idle" /\ pcStop' = "wait"
    /\ quit' = TRUE
    /\ UNCHANGED <<pc, pcMain, posted, chunckCounter, copyVars, windowVars,
                   countVars, stopRequested, threadVars, sliceVars>>

StopWait ==
    /\ pcStop = "wait"
    /\ pcStop' = IF posted THEN "command" ELSE "blocked"
    /\ UNCHANGED <<pc, pcMain, posted, chunckCounter, copyVars, windowVars,
                   countVars, stopVars, threadVars, sliceVars>>

\* MultiThreadService::Stop.
StopCommand ==
    /\ pcStop = "command" /\ pcStop' = "ended"
    /\ stopRequested' = TRUE
    /\ UNCHANGED <<pc, pcMain, posted, chunckCounter, copyVars, windowVars,
                   countVars, quit, threadVars, sliceVars>>

StopStep == StopCall \/ StopWait \/ StopCommand

Next == ~crashed /\ (MainStep \/ (\E t \in Threads : ThreadStep(t)) \/ StopStep)

Spec == Init /\ [][Next]_vars

-----------------------------------------------------------------------------
(* Fairness.  Every thread that can run does (the operating system), syncSem *)
(* is given to each thread that asks again and again (its critical sections  *)
(* are a few instructions), the receiver accepts connections, and a send     *)
(* ends, well or badly.  Nothing makes Stop() be called.                     *)

Fairness ==
    /\ WF_vars(~crashed /\ MainStep) /\ SF_vars(~crashed /\ ReadCounters)
    /\ \A t \in Threads :
          /\ WF_vars(~crashed /\ ThreadStep(t))
          /\ SF_vars(~crashed /\ (TakeNumber(t) \/ Arrive(t) \/ TakeSlice(t)
                                  \/ CloseClient(t)))
    /\ WF_vars(~crashed /\ (StopWait \/ StopCommand))

FairSpec == Spec /\ Fairness

(* The assumption under which the pool loses no wake-up: a Post stays visible  *)
(* until every thread on its way to its Wait has reached it.  The way is a few *)
(* instructions; the thread that resets the event has, since the Post, sent    *)
(* its slice over the network, or tried to (no share is empty in the windows   *)
(* of the run).  Once quit is set threads reset the event in their main stage, *)
(* and once told to stop in the closing one, without having sent anything: of  *)
(* those, and of the Wait of Stop(), nothing is assumed.                       *)
OnItsWayToWait == {t \in Threads : pc[t] \in {"boot", "check", "gate"}}
ResetAfterSend ==
    /\ posted /\ ~posted'
    /\ \/ ~quit
       \/ ~stopRequested /\ \E t \in Threads : pc[t] = "close" /\ pc'[t] # "close"
Timely == ResetAfterSend => OnItsWayToWait = {}

TimelyFairness ==
    /\ WF_vars(~crashed /\ MainStep) /\ SF_vars(~crashed /\ ReadCounters)
    /\ \A t \in Threads :
          /\ WF_vars(~crashed /\ ThreadStep(t) /\ Timely)
          /\ SF_vars(/\ ~crashed
                     /\ TakeNumber(t) \/ Arrive(t) \/ TakeSlice(t)
                        \/ CloseClient(t)
                     /\ Timely)
    /\ WF_vars(~crashed /\ (StopWait \/ StopCommand))

TimelySpec == Init /\ [][Next /\ Timely]_vars /\ TimelyFairness

-----------------------------------------------------------------------------
(* Properties.                                                             *)

TypeOK ==
    /\ pc \in [Threads -> ThreadPc]
    /\ pcMain \in {"first", "loop", "read", "sort", "decide", "zero", "copy",
                   "post", "drain", "final", "ended"}
    /\ pcStop \in {"idle", "wait", "blocked", "command", "ended"}
    /\ quit \in BOOLEAN /\ stopRequested \in BOOLEAN /\ crashed \in BOOLEAN
    /\ posted \in BOOLEAN /\ changed \in BOOLEAN
    /\ nThreadsFinished \in Nat /\ count \in Nat /\ nThreadsFinishedTmp \in Nat
    /\ chunckCounter \in Nat /\ chunkCounterRead \in Nat
    /\ nVariables \in 0 .. maxSignalPerThread
    /\ numberOfChangedVariables \in 0 .. maxSignalPerThread
    /\ currentIdx \in 0 .. NumberOfVariables - 1
    /\ currentIdxThreads \in 0 .. NumberOfVariables - 1
    /\ threadIndex \in Nat
    /\ threadId \in [Threads -> Nat \cup {NoThreadNumber}]
    /\ client \subseteq Threads
    /\ slice \in [Threads -> [from : 0 .. NumberOfVariables - 1, len : Nat]]
    /\ arrived \subseteq Threads /\ served \subseteq Threads

\* The barrier, until Stop.  A counted thread stays before its next Wait or
\* in it, until the main thread posts again; the counter counts the counted
\* threads; a posted event has found no thread counted; and the main thread's
\* copy of the counter, once it equals the size of the pool, cannot go stale.
Stay == {"check", "gate", "blocked", "boot", "bootWait"}
BarrierInv ==
    ~quit =>
    /\ pcStop = "idle" /\ ~stopRequested
    /\ pcMain \notin {"drain", "final", "ended"}
    /\ \A t \in arrived : pc[t] \in Stay
    /\ nThreadsFinished = Cardinality(arrived)
    /\ posted => arrived = {} /\ LockFree
    /\ \A t, u \in InCriticalSection : t = u
    /\ ~LockFree => count = nThreadsFinished
    /\ pcMain = "first" => \A t \in Threads : pc[t] \in {"boot", "bootWait"}
    /\ pcMain \in {"sort", "decide"}
          /\ nThreadsFinishedTmp = numberOfPoolThreads => arrived = Threads
    /\ pcMain = "zero" => arrived = Threads
    /\ pcMain \in {"first", "copy", "post"} =>
          /\ \A t \in Threads : pc[t] \in Stay
          /\ arrived = {} /\ ~posted

\* A thread uses the published window, memory and index list.
Using == {t \in Threads : pc[t] \in {"quota", "slice", "sending"}}

\* The main thread writes the published memory, index list and window only
\* while no pool thread reads them (until Stop: PrioritySender.cpp 168-182).
PublishExclusive ==
    ~quit /\ pcMain \in {"zero", "copy", "post"} => Using = {}

\* The store nThreadsFinished = 0 outside of syncSem never meets an increment
\* in progress, and never drops the arrival of a thread (until Stop).
ZeroIsSafe == ~quit /\ pcMain = "zero" => LockFree /\ arrived = Threads

\* nThreadsFinished counts each thread once per window (until Stop), through
\* failures, reconnections and late starts.
CounterCountsThreads == ~quit => nThreadsFinished = Cardinality(arrived)

Positions(s) == {(s.from + k) % NumberOfVariables : k \in 0 .. s.len - 1}
Published ==
    {(currentIdx + NumberOfVariables - k) % NumberOfVariables :
        k \in 1 .. numberOfChangedVariables}

\* Two threads never send the same queue position, and no thread sends one
\* that is not in the published window (SendVariables 567-576).
SlicesPartition ==
    ~quit => \A t \in Threads : pc[t] = "sending" =>
        /\ Positions(slice[t]) \subseteq Published
        /\ \A u \in Threads \ {t} : pc[u] = "sending" =>
              Positions(slice[t]) \cap Positions(slice[u]) = {}

\* When every thread has taken a slice, the whole window has been taken: the
\* remainder of the division is not forgotten (SendVariables 567-570).
WindowIsTaken ==
    ~quit /\ pcMain = "zero" /\ served = Threads => currentIdxThreads = currentIdx

\* The slices are a partition of the published window: apart, inside of it, and
\* in the end all of it.
WindowIsPartitioned == SlicesPartition /\ WindowIsTaken

\* Thread numbers are 0 .. numberOfPoolThreads-1, each given once, and kept
\* through reconnections; a thread without one stays out of the arrays unless
\* Stop() found it still connecting.
ThreadNumbers ==
    /\ \A t \in Threads : threadId[t] < numberOfPoolThreads
    /\ \A t, u \in Threads : threadId[t] = threadId[u] /\ t # u
                                => threadId[t] = NoThreadNumber
    /\ crashed => quit

\* Until Stop() the pool implements the turn-taking of module WindowBarrier:
\* a thread has finished with a window once it is counted, and the next window
\* is written from the decision to publish it to its Post.
Writing == pcMain \in {"zero", "copy", "post"}
Turns == INSTANCE WindowBarrier WITH
    writing  <- ~quit /\ Writing,
    finished <- IF quit THEN {} ELSE IF Writing THEN Threads ELSE arrived,
    stopped  <- quit

TakesTurns == Turns!Spec

\* A thread number never changes once given.
NumbersAreKept ==
    [][\A t \in Threads : threadId[t] # NoThreadNumber
                             => threadId'[t] = threadId[t]]_vars

\* A pool thread waiting for the window that is posted sends its part of it.
EachThreadSends ==
    \A t \in Threads :
        pcMain = "post" /\ pc[t] \in {"check", "gate", "blocked"}
            ~> pc[t] = "sending" \/ quit

\* Until Stop, windows keep being posted, whatever connections fail.
WindowsKeepComing == []<>(pcMain = "post" \/ quit)

AllHaveNumbers == \A t \in Threads : ~HasNoNumber(t)

\* A Stop() that is in its Wait before the last Post returns: the main loop and
\* the wait for the pool behind it end, although after quit threads are counted
\* any number of times, lose wake-ups to each other, and read and write the
\* counter with and without the lock.  (Every thread has its number: one that
\* Stop() finds without may write outside of the arrays and end the process.)
StopIsReleased ==
    pcStop = "blocked" /\ pcMain # "ended" /\ AllHaveNumbers ~> pcStop = "ended"

\* "Stops all the threads" (PrioritySender.h 132-134): Stop() returns.
StopReturns == quit /\ AllHaveNumbers ~> pcStop = "ended"

=============================================================================
