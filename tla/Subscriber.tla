----------------------------- MODULE Subscriber -----------------------------
(***************************************************************************)
(* EpicsParserAndSubscriber between the PVs of the control system and the  *)
(* memory the sender copies.  Each pool thread connects the PVs of its     *)
(* range, lays them out in a buffer of its own and subscribes to them; the *)
(* last one turns the offsets within the buffers into offsets within their *)
(* concatenation, which is what Synchronise copies.  From then on the      *)
(* callbacks of Channel Access write values and timestamps, each kind by a *)
(* subscription of its own.                                                *)
(*                                                                         *)
(* A value, and its timestamp, are the number of the change of the PV that *)
(* made them (0: zero bytes); an element and a timestamp take one unit of  *)
(* memory each.  ParseAndSubscribe has read the list and started threads.  *)
(***************************************************************************)
EXTENDS Integers

CONSTANTS
    numberOfPvs,            \* numberOfVariables, the PVs of the list
    numberOfPoolThreads,
    Elements,               \* of each PV, once connected
    maxArraySize,           \* PVs with more elements are discarded
    MaxChanges,             \* bound on the changes of a PV
    NoThread                \* no memory yet

PVs == 0 .. numberOfPvs - 1
Ids == 0 .. numberOfPoolThreads - 1
nVarsPerChunk == numberOfPvs \div numberOfPoolThreads

ASSUME SubscriberAssumption ==
    /\ numberOfPoolThreads \in Nat \ {0} /\ numberOfPvs \in Nat
    /\ nVarsPerChunk > 0     \* the offsets are taken modulo nVarsPerChunk
    /\ Elements \in [PVs -> Nat \ {0}]
    /\ maxArraySize \in Nat /\ MaxChanges \in Nat \ {0} /\ NoThread \notin Ids

VARIABLES
    tpc,           \* where each thread is, by the number it takes
    threatCnt,     \* the next number
    pos,           \* the PV its loop is at
    memoryOffset,  \* of its second loop
    numberOfElements, place, offset,   \* of the descriptors: place is the
                                       \* memory pointer, [buffer, at]
    memorySize,    \* of each buffer
    subscribed,    \* PVs with subscriptions
    initialisationDone,
    source,        \* external: changes of each PV so far
    valueSeen, stampSeen,   \* external: the last change each subscription brought
    pvMemory,        \* what the memory of a PV holds: [value, stamp]
    changedFlagMem,   \* PVs flagged
    copy, changedFlags,    \* what the last Synchronise returned
    stop           \* Stop(): "no", "called" (eventSem posted) or "done"

threadVars == <<tpc, threatCnt, pos, memoryOffset>>
layoutVars == <<numberOfElements, place, offset, memorySize>>
caVars     == <<source, valueSeen, stampSeen>>
subscriberVars == <<threadVars, layoutVars, subscribed, initialisationDone, caVars, pvMemory,
          changedFlagMem, copy, changedFlags, stop>>

RangeBegin(k) == k * nVarsPerChunk
RangeEnd(k) ==
    LET end == (k + 1) * nVarsPerChunk
    IN  IF numberOfPvs - end < numberOfPoolThreads THEN numberOfPvs ELSE end

\* Only the last thread's range should reach the end of the list.  With few PVs
\* per thread that of an earlier one does as well: the threads then lay out the
\* same PVs, and the remap misplaces them.  The code never looks.
RangesAreApart == \A t, u \in Ids : t < u => RangeEnd(t) <= RangeBegin(u)

Blank == [value |-> 0, stamp |-> 0]

\* ParseAndSubscribe: flags and buffer sizes are zero.
SubscriberInit ==
    /\ tpc = [t \in Ids |-> "startup"]
    /\ threatCnt = 0
    /\ pos = [t \in Ids |-> 0] /\ memoryOffset = [t \in Ids |-> 0]
    /\ numberOfElements = [p \in PVs |-> 0] /\ offset = [p \in PVs |-> 0]
    /\ place = [p \in PVs |-> [buffer |-> NoThread, at |-> 0]]
    /\ memorySize = [k \in Ids |-> 0]
    /\ subscribed = {} /\ initialisationDone = 0
    /\ source = [p \in PVs |-> 1]
    /\ valueSeen = [p \in PVs |-> 0] /\ stampSeen = [p \in PVs |-> 0]
    /\ pvMemory = [p \in PVs |-> Blank] /\ copy = [p \in PVs |-> Blank]
    /\ changedFlagMem = {} /\ changedFlags = {}
    /\ stop = "no"

-----------------------------------------------------------------------------
(* Execute, startup stage.                                                 *)

\* The number is taken under the lock; threads are alike until then.
TakeNumber(t) ==
    /\ tpc[t] = "startup" /\ t = threatCnt
    /\ threatCnt' = threatCnt + 1
    /\ pos' = [pos EXCEPT ![t] = RangeBegin(t)]
    /\ tpc' = [tpc EXCEPT ![t] = "fill"]
    /\ UNCHANGED <<memoryOffset, layoutVars, subscribed, initialisationDone, caVars, pvMemory,
                   changedFlagMem, copy, changedFlags, stop>>

InLoop(t, stage) == tpc[t] = stage /\ pos[t] < RangeEnd(t)

\* A loop is over; the next one starts at the same PV.
NextLoop(t, stage, following) ==
    /\ tpc[t] = stage /\ pos[t] >= RangeEnd(t)
    /\ pos' = [pos EXCEPT ![t] = RangeBegin(t)]
    /\ tpc' = [tpc EXCEPT ![t] = following]

Size(p) == numberOfElements[p] + 1

\* cainfo: a PV that does not answer in time has no elements.
ElementsFound(p, connected) ==
    IF connected /\ Elements[p] <= maxArraySize THEN Elements[p] ELSE 0

\* FillMemorySizes, first loop: memory for every PV that is not discarded,
\* with its timestamp, connected or not.
FillSize(t) ==
    /\ InLoop(t, "fill")
    /\ \E connected \in BOOLEAN :
        LET p == pos[t]
            elements == ElementsFound(p, connected)
        IN  /\ numberOfElements' = [numberOfElements EXCEPT ![p] = elements]
            /\ memorySize' = [memorySize EXCEPT ![t] =
                   IF connected /\ Elements[p] > maxArraySize THEN @ ELSE @ + elements + 1]
    /\ pos' = [pos EXCEPT ![t] = @ + 1]
    /\ UNCHANGED <<tpc, threatCnt, memoryOffset, place, offset, subscribed,
                   initialisationDone, caVars, pvMemory, changedFlagMem, copy, changedFlags, stop>>

\* The buffer is allocated and zeroed.
Allocate(t) ==
    /\ NextLoop(t, "fill", "layout")
    /\ memoryOffset' = [memoryOffset EXCEPT ![t] = 0]
    /\ UNCHANGED <<threatCnt, layoutVars, subscribed, initialisationDone, caVars,
                   pvMemory, changedFlagMem, copy, changedFlags, stop>>

Room(p) == IF numberOfElements[p] > 0 THEN Size(p) ELSE 0

\* Second loop: the place of each PV in the buffer.
GivePlace(t) ==
    /\ InLoop(t, "layout")
    /\ LET p == pos[t]
       IN  /\ place' = [place EXCEPT ![p] = [buffer |-> t, at |-> memoryOffset[t]]]
           /\ offset' = [offset EXCEPT ![p] = memoryOffset[t]]
           /\ memoryOffset' = [memoryOffset EXCEPT ![t] = @ + Room(p)]
    /\ pos' = [pos EXCEPT ![t] = @ + 1]
    /\ UNCHANGED <<tpc, threatCnt, numberOfElements, memorySize, subscribed,
                   initialisationDone, caVars, pvMemory, changedFlagMem, copy, changedFlags, stop>>

PlacesDone(t) ==
    /\ NextLoop(t, "layout", "subscribe")
    /\ UNCHANGED <<threatCnt, memoryOffset, layoutVars, subscribed,
                   initialisationDone, caVars, pvMemory, changedFlagMem, copy, changedFlags, stop>>

\* CreateSubscriptions: the value now, without a flag, and two subscriptions.
\* (The value is there before the pend for it times out, or not.)
Subscribe(t) ==
    /\ InLoop(t, "subscribe")
    /\ LET p == pos[t]
       IN  IF numberOfElements[p] > 0
           THEN /\ subscribed' = subscribed \cup {p}
                /\ \E got \in {pvMemory[p].value, source[p]} :
                       pvMemory' = [pvMemory EXCEPT ![p].value = got]
           ELSE UNCHANGED <<subscribed, pvMemory>>
    /\ pos' = [pos EXCEPT ![t] = @ + 1]
    /\ UNCHANGED <<tpc, threatCnt, memoryOffset, layoutVars, initialisationDone,
                   caVars, changedFlagMem, copy, changedFlags, stop>>

\* Base[k]: where buffer k begins in the concatenation.
Base == LET sum[k \in 0 .. numberOfPoolThreads] ==
                IF k = 0 THEN 0 ELSE sum[k - 1] + memorySize[k - 1]
        IN  sum

\* Variant with a bug: the count is not capped at the last buffer.
BufferUncapped(i) == IF i \div nVarsPerChunk <= numberOfPoolThreads
                     THEN i \div nVarsPerChunk ELSE numberOfPoolThreads

\* memCnt at position i: how many ranges begin up to it, but the first.
BufferOf(i) ==
    IF i \div nVarsPerChunk < numberOfPoolThreads
    THEN i \div nVarsPerChunk ELSE numberOfPoolThreads - 1

ImTheLastOne == initialisationDone >= numberOfPoolThreads - 1

\* The last thread remaps the offsets, under the lock.
Remap(t) ==
    /\ NextLoop(t, "subscribe", "main")
    /\ offset' = IF ImTheLastOne
                 THEN [p \in PVs |-> offset[p] + Base[BufferOf(p)]] ELSE offset
    /\ initialisationDone' = initialisationDone + 1
    /\ UNCHANGED <<threatCnt, memoryOffset, numberOfElements, place, memorySize,
                   subscribed, caVars, pvMemory, changedFlagMem, copy, changedFlags, stop>>

Startup(t) ==
    \/ TakeNumber(t) \/ FillSize(t) \/ Allocate(t) \/ GivePlace(t) \/ PlacesDone(t)
    \/ Subscribe(t) \/ Remap(t)

-----------------------------------------------------------------------------
(* Channel Access and the callbacks.                                       *)

\* External: a PV changes.
Change(p) ==
    /\ source[p] < MaxChanges
    /\ source' = [source EXCEPT ![p] = @ + 1]
    /\ UNCHANGED <<threadVars, layoutVars, subscribed, initialisationDone, valueSeen, stampSeen,
                   pvMemory, changedFlagMem, copy, changedFlags, stop>>

\* Variant with a bug: the flag is not raised.
NoFlag(p) == changedFlagMem

RaiseFlag(p) == changedFlagMem \cup {p}

\* A subscription brings changes in order, and may skip all but the last.
GetValueCallback(p) ==
    /\ p \in subscribed
    /\ \E change \in valueSeen[p] + 1 .. source[p] :
        /\ valueSeen' = [valueSeen EXCEPT ![p] = change]
        /\ pvMemory' = [pvMemory EXCEPT ![p].value = change]
    /\ changedFlagMem' = RaiseFlag(p)
    /\ UNCHANGED <<threadVars, layoutVars, subscribed, initialisationDone, source, stampSeen,
                   copy, changedFlags, stop>>

GetTimeoutCallback(p) ==
    /\ p \in subscribed
    /\ \E change \in stampSeen[p] + 1 .. source[p] :
        /\ stampSeen' = [stampSeen EXCEPT ![p] = change]
        /\ pvMemory' = [pvMemory EXCEPT ![p].stamp = change]
    /\ UNCHANGED <<threadVars, layoutVars, subscribed, initialisationDone, source, valueSeen,
                   changedFlagMem, copy, changedFlags, stop>>

-----------------------------------------------------------------------------
(* The sender.                                                             *)

InitialisationDone == initialisationDone >= numberOfPoolThreads

\* Variant with a bug: only what is flagged is copied.
CopyFlagged == [p \in PVs |-> IF p \in changedFlagMem THEN pvMemory[p] ELSE copy[p]]

CopyBuffers == pvMemory

\* Buffers and flags are copied, and the flags cleared, under the lock.  The
\* sender waits for InitialisationDone before (SetDataSource).
Synchronise ==
    /\ InitialisationDone
    /\ copy' = CopyBuffers /\ changedFlags' = changedFlagMem
    /\ changedFlagMem' = {}
    /\ UNCHANGED <<threadVars, layoutVars, subscribed, initialisationDone, caVars, pvMemory, stop>>

\* Variant with a bug: the event is not posted.
StopOnly == stop = "no" /\ stop' = "unposted"

PostAndStop == stop = "no" /\ stop' = "called"

Stop ==
    /\ PostAndStop
    /\ UNCHANGED <<threadVars, layoutVars, subscribed, initialisationDone, caVars, pvMemory,
                   changedFlagMem, copy, changedFlags>>

\* Main and termination stage: CleanContext detaches the thread from its
\* context once the event is posted.  The context, and with it the callbacks,
\* stay: there is none to destroy for a thread that has just detached.
CleanContext(t) ==
    /\ tpc[t] = "main" /\ stop = "called"
    /\ tpc' = [tpc EXCEPT ![t] = "ended"]
    /\ UNCHANGED <<threatCnt, pos, memoryOffset, layoutVars, subscribed,
                   initialisationDone, caVars, pvMemory, changedFlagMem, copy, changedFlags, stop>>

\* MultiThreadService::Stop returns when every thread has ended.
StopDone ==
    /\ stop = "called" /\ \A t \in Ids : tpc[t] = "ended"
    /\ stop' = "done"
    /\ UNCHANGED <<threadVars, layoutVars, subscribed, initialisationDone, caVars, pvMemory,
                   changedFlagMem, copy, changedFlags>>

SubscriberNext ==
    \/ \E t \in Ids : Startup(t) \/ CleanContext(t)
    \/ \E p \in PVs : Change(p) \/ GetValueCallback(p) \/ GetTimeoutCallback(p)
    \/ Synchronise \/ Stop \/ StopDone

SubscriberSpec == SubscriberInit /\ [][SubscriberNext]_subscriberVars

-----------------------------------------------------------------------------
(* Properties.                                                             *)

Versions == 0 .. MaxChanges

SubscriberTypeOK ==
    /\ tpc \in [Ids -> {"startup", "fill", "layout", "subscribe", "main", "ended"}]
    /\ threatCnt \in 0 .. numberOfPoolThreads
    /\ pos \in [Ids -> 0 .. numberOfPvs] /\ memoryOffset \in [Ids -> Nat]
    /\ numberOfElements \in [PVs -> 0 .. maxArraySize]
    /\ place \in [PVs -> [buffer : Ids \cup {NoThread}, at : Nat]]
    /\ offset \in [PVs -> Nat] /\ memorySize \in [Ids -> Nat]
    /\ subscribed \subseteq PVs /\ initialisationDone \in 0 .. numberOfPoolThreads
    /\ source \in [PVs -> 1 .. MaxChanges]
    /\ valueSeen \in [PVs -> Versions] /\ stampSeen \in [PVs -> Versions]
    /\ pvMemory \in [PVs -> [value : Versions, stamp : Versions]]
    /\ copy \in [PVs -> [value : Versions, stamp : Versions]]
    /\ changedFlagMem \subseteq PVs /\ changedFlags \subseteq PVs
    /\ stop \in {"no", "called", "done"}

LaidOut == {p \in PVs : numberOfElements[p] > 0 /\ place[p].buffer # NoThread}

\* Every PV with elements lies within its buffer, apart from the others.
PlacesAreApart ==
    /\ \A p \in LaidOut : place[p].at + Size(p) <= memorySize[place[p].buffer]
    /\ \A p, q \in LaidOut :
           p < q /\ place[p].buffer = place[q].buffer => place[p].at + Size(p) <= place[q].at

\* Synchronise copies the memory of each PV to its offset.
OffsetsFindThePvs == \A p \in LaidOut : offset[p] = Base[place[p].buffer] + place[p].at

\* No range leaves out a PV that has answered.
EveryPvIsSubscribed ==
    /\ subscribed = {p \in PVs : numberOfElements[p] > 0}
    /\ \A p \in PVs : place[p].buffer # NoThread

\* Where no two threads have one PV in their ranges, no callback writes over
\* another PV or past its buffer; and once all threads have subscribed, whatever
\* is connected or discarded, every PV has its subscriptions and the sender finds
\* its bytes at its offset.
EachPvHasItsPlace ==
    RangesAreApart =>
        PlacesAreApart /\ (InitialisationDone => OffsetsFindThePvs /\ EveryPvIsSubscribed)

\* A value in memory that the last copy does not have is flagged (or its first
\* event is still to come): the flags of a cycle leave no change out
\* (EpicsParserAndSubscriber.h 132-134).
ChangesAreFlagged ==
    \A p \in PVs : pvMemory[p].value # copy[p].value => p \in changedFlagMem \/ valueSeen[p] = 0

\* When the PVs rest, the sender has the last value of each, with its own
\* timestamp, although the two come by different subscriptions.
CopyCatchesUp ==
    <>[](\A p \in subscribed : copy[p] = [value |-> source[p], stamp |-> source[p]])

\* Stop() returns: each thread leaves its wait.
StopReturns == stop # "no" ~> stop = "done"

=============================================================================
