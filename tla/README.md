# The MARTe2 EPICS diode in TLA+

This directory models the programs under `src/Source/Components/Interfaces`, the
sender and the receiver of a "diode" that copies EPICS process variables (PVs)
from one network to another over HTTP, and the patched channel access under
`src/EpicsDiodeChanges` through which the receiver puts them. TLC checks the
models on small instances; TLAPS proves the most important facts for every value
of the constants. `PROJECT.json` holds the runs, the line-by-line map from
definitions to source, the hazards, the findings and the theorems.

File names are short: PS is `PrioritySender/PrioritySender.cpp`, ES is
`EpicsParserAndSubscriber/EpicsParserAndSubscriber.cpp`, DR is
`DiodeReceiver/DiodeReceiver.cpp`, each with its header (PH is that of PS); CM is
`EpicsDiodeChanges/camessage.c`.

## 1. The system

    EPICS PVs --callbacks--> EpicsParserAndSubscriber   (source memory, flags)
                                   | Synchronise
                             PrioritySender main thread (queue, window)
                                   | barrier
                             PrioritySender pool        (slices)
                                   | HTTP, one connection per pool thread
                             DiodeReceiver clients      (store, mapping)
                                   | Synchronise, by put thread 0
                             DiodeReceiver put threads
                                   | ca_array_put, value and timestamp
                             patched channel access     (client library, server)
                                   |
                             EPICS records

| component | state | operations | model |
|---|---|---|---|
| EpicsParserAndSubscriber (ES) | PV list; value, timestamp, flag and offset of each PV; a buffer per thread | connect, lay out, subscribe (several threads, a range each), callbacks, `Synchronise`, `Stop` | `Subscriber` |
| PrioritySender, pool and barrier (PS 168-206, 412-604) | `eventSem`, `syncSem`, `nThreadsFinished`, `quit`, thread numbers, window | main loop, stages of `ThreadCycle`, taking a slice, `Stop` | `SenderPool`, abstract: `WindowBarrier` |
| PrioritySender, queue (PS 53-206, 280-345) | `indexList`, `currentIdx`, `currentChangePos`, `chunckCounter`, `sendCounter` | take flags, sort or FIFO, cut to the caps, publish | `SenderQueue` |
| PrioritySender, one slice (PS 578-710) | three counters, offset in the PV | `SendVariables` | `SenderSlice` |
| DiodeReceiver, PV list (DR 306-441, 755-799) | sorted list | insertion, bisection | `PvList` |
| DiodeReceiver, store (DR 88-233, 720-737, 1041-1128) | `memory`, `memoryPrec`, flags, second buffers, `pvMapping` | look up, search, map, store; put cycles | `ReceiverStore` |
| DiodeReceiver, payload parser (DR 548-645, 801-1075, 1117-1128) | payload | `ReadNewChunk`, `ReadVarNameAndIndex`, resynchronisation, skipping | `PayloadParser` |
| DiodeReceiver, connections and life cycle (DR 443-546, 647-718) | sockets, start event, counters, `quit` | `Start`, `Stop`, `ServerCycle`, replies, put threads around their cycles | `ReceiverLifecycle` |
| sender, network and receiver together | what is in flight | lose, overtake, restart | `Diode`, abstract: `Link` |
| standalone mains, load generator, start-up mains | - | configure, `Start`, `Stop` | their calls: `StopCall` (`SenderPool`), `Stop` (`Subscriber`), `Start` and `SetQuit` (`ReceiverLifecycle`) |
| patched channel access: puts with a timestamp (CM 741-925, 2484-2678, `comQueSend.cpp`, `oldChannelNotify.cpp`, `nciu.cpp`, `recGbl.c`) | bytes sent and received, what is left to drain, value and time of each record | `ca_array_put`, `camessage`, `write_action`, `recGblGetTimeStamp` | `StampedPut` |
| patched channel access: the server of one client (CM) | channels, access rights, put callbacks, subscriptions, extra labor | requests of the client, the event task, the database's call backs, `casAccessRightsCB` | `CaServer` |
| the rest of channel access, patch scripts, deployment, tests, configurations | - | - | not modelled: EPICS as distributed, data, scripts |

MARTe2 (`EventSem`, `FastPollingMutexSem`, `MultiThreadService`, `HttpProtocol`,
sockets) and the rest of EPICS (database, access security, the library above the
files of `EpicsDiodeChanges`) are not in the repository. They are modelled from how
the code uses them; each module says how.

**What is hard here.** The threads of the sender meet at a barrier built from an
event that anyone resets, a counter that the main thread clears without the lock
and a decision taken on a copy of it. The queue is sorted in place around a
circular array, with a count of changed PVs that lives across cycles. Connections
fail in the middle of a slice. The receiver maps sender indices to local ones
without holding its lock over the search, and its put threads share buffers that
only one of them refills, in its own time. A message is cut into chunks anywhere,
and only quotes tell where a variable begins. Slices of one PV travel on several
connections. The server of channel access answers put callbacks that may complete
while they time out or are cancelled, frees channels that its other threads still
hold, tells access rights from two threads under three locks, and shortens the
size of the very message it is cutting out of its buffer. `PROJECT.json` lists 40
such hazards at their lines. The ones without a property have a note that says why.

**What makes each part correct.** Pool: windows are written and read in turns,
slices partition the window, no arrival is dropped, the sender never stops by
itself, `Stop()` is released. Queue: no PV is lost, changed PVs come first, every
latest value arrives in the end. Slice: a PV's bytes are its own, the slice is
whole, the call returns. List: sorted, and the bisection exact. Store: a change
stays flagged until it is put, with its own timestamp, on the PV of its name.
Subscriber: each PV has bytes of its own, and the sender looks for them there.
Parser: what is taken was sent, in order, and nothing complete is left. Life
cycle: one owner for each socket, no thread before its memory, everything ends.
Channel access: messages stay framed and a timestamp goes with its value; each put
callback is answered once, the client knows its rights, nothing freed is used.
All together: the receiving side has values of the PV, and in the end the last.

## 2. The modules

| module | models | proofs |
|---|---|---|
| `WindowBarrier` | what the barrier promises: taking turns | - |
| `SenderPool` | main thread, pool threads, caller of `Stop()`, step by step | `SenderPoolProofs` |
| `SenderQueue` | the cycle of the main thread, with the pool one step per slice and the data source | `SenderQueueProofs` |
| `SenderSlice` | one call of `SendVariables`, fragments and messages | `SenderQueueProofs` |
| `Subscriber` | the subscribing threads, their layout, the callbacks and the copy | `SubscriberProofs` |
| `PvList` | `Initialise`'s insertion and `GetLocalVariableIndex`, iteration by iteration | `ParserAndListProofs` |
| `PayloadParser` | one message, cut into chunks, through the parser | `ParserAndListProofs` |
| `ReceiverStore` | connections and put threads around the receiver's memory | `ReceiverStoreProofs` |
| `ReceiverLifecycle` | `Start()` and `Stop()` with put threads and threads of the service | `ReceiverLifecycleProofs` |
| `StampedPut` | a put, from the caller's memory to the record, byte by byte | `CaProofs` |
| `CaServer` | the threads of the server around one client | `CaProofs` |
| `Link` | what the diode promises of a PV | - |
| `Diode` | sender, connections and receiver composed | `DiodeProofs` |
| `MCSenderPool`, `MCSenderQueue`, `MCSubscriber`, `MCSenderParts`, `MCPayloadParser`, `MCReceiverStore`, `MCReceiver`, `MCStampedPut`, `MCPatchedCa`, `MCDiode` | instances for TLC | - |

Names follow the code (`chunckCounter` included); where modules that one run
puts together would share a name, one of them says more (`numberOfPvs`,
`numberOfNames` and `numberOfCycleThreads` for `numberOfVariables` and
`numberOfInitThreads`). Definitions commented "Variant
with a bug" are used by no specification: they are plausible mistakes that show
that each property can fail.

**SenderPool.** `pc[t]` is where a thread is in `ThreadCycle`, `pcMain` in
`PrioritySenderCycleLoop`, `pcStop` in `Stop()`. A step is what happens between
two accesses to shared state. A critical section whose contents matter is two
steps (load of the counter; store and unlock), because the main thread writes the
same counter without the lock. `Post` releases whoever waits *and* leaves the
event posted; `Arrive` resets it. A connection may fail at any send; a thread may
still be connecting when `Stop()` is called, and then has no number, so that
`CheckQuit` may or may not end the process (`crashed`: an index outside of the
statistics arrays). `arrived` and `served` are history variables.

**SenderQueue.** One step of `Examine`/`Bubble` is one iteration of the loops at
PS 80-112. The sort uses sizes by queue *position*, as the code does, and so does
the cap on bytes (`Bytes`). A value is only "the latest one, or not": `inMemory`,
`inPublished`, `delivered` say who has the latest value of a PV. `carried` is a
history variable: while the queue is sorted, the PVs that lay before
`currentChangePos`, left there by earlier windows. A carried PV that changes again
is what breaks the order (`queue_order`); otherwise `ChangedAreFirst`: the PVs that
changed, now or before, are exactly those before `currentChangePos`. The barrier is
taken from `SenderPool`: `Publish` needs `busy = {}`, which is `PublishExclusive`
there, and each thread takes its share once, which is `SlicesPartition`.

**SenderSlice.** The loops of `SendVariables` with their three counters. The
other sender modules assume PVs that fit in one fragment, which is what the
default `MaxVarSize` (0xFFFFFFFF) gives; this module looks at the other case.

**PvList.** A name is a number. Only that `StringHelper::Compare` is a total order
is used.

**ReceiverStore.** `cpc[c]` is where a connection is between a complete variable
and its store: `Lookup`, `Search` (without the lock), `MapIndex`, `Store`. Put
thread 0 locks, copies and scans; the others scan without lock, so during the copy
a read of the second buffers gives the old or the new bytes, flag by flag and
value and timestamp separately (`FlagRead`, `ValueRead`; a put overlaps at most
one copy). A value that fits is copied with its timestamp; a larger one is converted,
without it, if its type is known and the conversion succeeds (`Stored`); a PV that
is not connected stores nothing. `SearchFinds` of `PvList` is what
`SearchResult` takes for granted. The state starts after `Start()`, `Stop()` is
not called, and one sender, with one list, sends whole values.

**Subscriber.** `tpc[t]` is the stage of thread t in `Execute`: it takes its
number, sizes its buffer (`FillSize`), lays its PVs out (`GivePlace`), subscribes
(`Subscribe`) and, if it is the last, turns offsets within buffers into offsets
within their concatenation (`Remap`). The ranges (`RangeBegin`, `RangeEnd`) and the count
that the remap uses instead (`BufferOf`) are computed as the code does, each in
its own way. A subscription brings changes in order and may skip some; value and
timestamp come by two of them. `SubscriberAssumption` asks for at least one PV per
thread, as the remap divides by that number. That the ranges of the threads do not
overlap (`RangesAreApart`) is no assumption: the code does not check it, and it is
the premise of `EachPvHasItsPlace`.

**PayloadParser.** The message is a row of byte positions; of the bytes only the
quotes matter, and which of them close a name. The payload is always a window
`start + 1 .. recv` of the message. `Openings`, `Closings` and `NameOpening` say
where the two loops of `ReadVarNameAndIndex` stop; each way out of the function,
and of `GetLocalIndex`, is an action (`OpeningIsCut`, `NameIsCut`, `HeaderIsCut`,
`Drop`, `ValueIsCut`, ...). No name holds a quote, and no value the three bytes
that close a name: on those the code itself has nothing to go by.

**ReceiverLifecycle.** `main` runs `Start()` and `Stop()`, `ppc[t]` is a put
thread of `DiodeReceiverCycleLoop`, `spc[c]` a thread of the service, with the
socket in its context and the one it waits on. How `MultiClientEmbeddedThread`
calls `ServerCycle` is external and as wide as the code allows.

**StampedPut.** A byte is where it comes from: `<<i, k>>` is byte k of the memory
given to put i; other bytes are padding, or lie behind the message. `total`, `cnt`
and `stk` count bytes sent, received and consumed, so that a header is where a
message of `sent` starts, and `Framed` says that the server looks for it just
there. `WaitForMore`, `Expand`, `TooLarge` and `Complete` are the ways through the
loop of `camessage` (CM 2506-2660): pieces of any size, a larger buffer, a message
that is drained. `AddTimeStamp` sets the time of the record before `dbChannel_put`
takes the record's lock, so `Process` (a scan) may come between. Access rights and
TSEL links are as the record has them.

**CaServer.** Each block of code under one lock is one step. `tpc` is where the TCP
thread is in the request it handles, `epc` the event task, `aspc` the thread in
`casAccessRightsCB`, `dbpc[c]` the put callback of channel c in the database.
`extraLabor` and `blockSem` are the flag of `db_post_extra_labor` and the semaphore
the TCP thread waits on. `told`, `claimed`, `cleared`, `cancelled`, `updated` and
`replies` say what the client was sent; `trapped` holds the puts whose end the write
trap has not been told. External, as wide as CM relies on: `dbNotifyCancel` and
`db_cancel_event` return when no call back runs or will run, the flag of
`db_post_extra_labor` stays until it is taken, `db_flush_extra_labor_event` waits
for labor in progress, access security calls `casAccessRightsCB` under its lock.
The client is well-behaved and speaks V44; conversions succeed; what is done for a
client after `RSRV_ERROR` is in `caservertask.c`, which is not in the repository.

**Diode** composes what the others show: windows come when every thread has
finished (`SenderPool`) and hold a PV once (`SenderQueue`); a slice is written
whole (`SenderSlice`); what a connection brings is taken in order
(`PayloadParser`), stored and flagged (`ReceiverStore`, with the one put thread
for which that module's properties hold). Connections lose what they carried and
the receiver restarts with zero memory. `TheLink` maps `source` and `target` to
`Link`, which says no more than that a PV of the receiving side takes over values
its source has had.

## 3. The runs

| run | instance | what it shows |
|---|---|---|
| `pool_safety` | 3 threads, 4 positions, every window length, no `Stop` | the barrier: exclusion, turn-taking, exact counter, slices; 3.2 million states |
| `pool_stop` | 2 threads, no wake-up lost on the way to a Wait, `Stop()` at any time or never | windows keep coming through failures; `Stop()` is released if it is in its Wait before the last Post; thread numbers stay in their arrays; 429 000 states |
| `pool_lost_wakeup` | 2 threads, any timing | **finding**: a Post can be reset before a counted thread reaches its Wait |
| `stop_lost_wakeup` | as `pool_stop` | **finding**: the last Post can be reset before `Stop()` reaches its Wait, and `Stop()` never returns |
| `queue` | 4 PVs of two sizes, 3 threads, cap of 4 bytes, 3 changes, 1 failure | permutation, sort, delivery; 1.7 million states |
| `queue_order` | 3 PVs of one size, 1 thread, 4 changes | **finding**: a PV that changes again before it was sent comes to lie behind PVs that did not change |
| `sender_parts` | the subscriber with 3 PVs, 2 threads, one PV too long, 2 changes; slices of 4 PVs of five sizes in fragments of 2 | memory and offsets agree whatever is connected, flags and copy catch up, `Stop()` returns; bytes stay in their PV, unfragmented slices are whole, the call returns; 364 000 states |
| `receiver` | 3 PVs, 2 put threads, 2 connections, 2 messages, 1 failed put; 3 put threads, 3 of the service, 3 sockets; 4 messages of 2 or 3 variables, every way to cut them; lists of up to 4 of 5 names | nothing lost, torn or misdirected for the PVs of thread 0; one owner of each socket, nobody runs before the memory, all of it ends; nothing misread, repeated or left, every message is answered; exact bisection of a sorted list; 313 000 states |
| `receiver_puts` | the store alone, one message, no failure | **finding**: a change of another thread's PV may never be put |
| `diode` | 1 PV, 2 threads, 3 connections of 2 messages, 3 values, 2 failures | the link is implemented; order; the last value arrives; 377 000 states |
| `patched_ca` | 2 puts of a double and of an array, in pieces of any size; the server with 3 put callbacks on 2 channels, or with 1 channel, 1 subscription and access security | messages stay framed, timestamps go with their values; put callbacks answered once, rights and updates told, nothing freed in use; requests end; 222 000 states |
| `stamped_put_offset` | puts of an int32 and of a string | **finding**: the timestamp is looked for behind the value rounded up to 8 bytes |

`sender_parts`, `receiver` and `patched_ca` each check parts that share no state in
these models. A behaviour is an execution of one of them while the others rest, so
the states are the sum of those of the parts, a property of a part is checked in
all of its states, and the fairness of a part is asked for while it is the one that
runs. How the parts work together is the matter of `diode`.

Each property of a passing run has a mutant in `PROJECT.json`: a definition with a
plausible bug under which the property fails.

**Bounds.** Three pool threads are the least that show a fast, a slow and a last
thread; four positions make windows wrap, with a remainder to share. `MaxCount`
bounds `nThreadsFinished` only after `quit`, where threads count themselves over
and over; it lies above the pool size, which is all the code compares it with.
Four PVs make the window (3) shorter than the queue, so that changed PVs stay
behind it; the cap of 4 cuts some windows and not others; three changes let some
PVs be left behind a window, and one of them change again before it is sent;
`ResetCounter` = 6 lets a FIFO pass, some sorts
and the reset happen. In `sender_parts`, three PVs over two threads give a range of
one and one with the rest; any PV may be unconnected. In `receiver`, one
variable has quotes in its header, value and timestamp, one is refused, one has a
name that is too long, and chunks are of any length; three put
threads let one reset while one has been counted and one has not. In `diode`,
three connections are the least that leave an old one with messages while the two
threads have new ones, two failures allow a restart besides, and three values an
older one between two newer; PVs meet only in windows, which the sender's modules
check. In the store of `receiver`, PV 2 belongs to thread 1, one name is unknown and
a value fits, is larger or has no place; two messages let the two connections meet
on one index. In `patched_ca`
sizes are small: an array of three doubles needs a large header (`LargePayload` =
24) and fits no buffer, a stamped double fits the large one (32 bytes) and not the
first (24). `WithinBounds` keeps the server small: names are set before the first
channel; access security, subscriptions and one channel on one side, put callbacks
on two channels without access security on the other; three callbacks let one wait
for, and one be cancelled by, another on its channel. Model values are symmetric
only in `pool_safety`, which has no liveness property.

**Fairness.** Threads run (the operating system), a lock asked for again and again
is given (the critical sections are a few instructions), sends and puts end, well
or badly, and the receiver accepts a connection in the end. Nothing makes a PV
change, a message arrive or `Stop()` be called. `TimelySpec` (`pool_stop`) adds
that a thread that has sent its slice, or failed to, does not reset the event while
another is still on the few instructions to its Wait: it has been on the network
since the Post. The code does not guarantee that, and `pool_lost_wakeup` shows what
happens without it. Nothing of the kind is assumed of the resets that follow no
send, those after `quit`, nor of the caller of `Stop()`: `stop_lost_wakeup` shows
that one of them may take the Post that `Stop()` is about to wait for. A wait for a connection ends with its timeout, a read with its own:
`AcceptTimeout` and `ReadTimeout` must be finite, the default of the former is
not. Of the server of channel access, all threads run; a put in the database need
not end, and a client need not ask. `db_cancel_event` waits for an event task that
may always have another update to send: strong fairness. In `Diode`, strong
fairness says that each PV is in a window again and again: that is
`WindowsKeepComing` and `EventuallyDelivered`. Deadlock is not checked where the
system may really stop: the pool (lost wake-up, `Stop`), one call of
`SendVariables`, one message, the receiver after `Stop()`, and the server when its
client is gone or asks for nothing.

**Limits of what holds.** `StopIsReleased` is about a `Stop()` that is in its Wait
before the last Post, and threads that have a number; of one that is not there yet
`stop_lost_wakeup` shows that it may hang. `EachPvHasItsPlace` says nothing when
ranges overlap: with 9 PVs and 4 threads, or 2 and 2, two ranges reach the end of
the list, and the remap misplaces what both have laid out; `WhenRangesAreApart`
says which configurations are safe. With fewer PVs than threads the remap divides
by zero (ES 550). `EventuallyDelivered` depends on FIFO passes, those
forced by `ResetCounter` included, because `Synchronise` clears flags in cycles
that do not sort; and on a cap that lets every pair of neighbours through: with
`MaxBytesPerCycle = 2` in that instance the window becomes empty and stays so (PS
134-141). `WindowsKeepComing` needs that every connection is accepted in the end:
a thread that connects again (PS 461) is not counted meanwhile, and one receiver
that cannot be reached stops them all. `NoChangeLost` (in `NothingIsLost`) and
`PutsArePairs` are for PVs that thread 0 alone puts (`OwnPVs`); for the others
they are false, which `receiver_puts` shows for delivery. `UpToDate` excuses a put
that failed and a first value of zero, for which the code raises no flag.
`NothingIsLeft` is about messages without names that are too long: such a name
ends its chunk, and what is complete behind it waits for the next one. A wrong
index or size loses everything received so far. `CopyCatchesUp` is about the
sender's copy: the receiver flags a PV only when its value differs, so a timestamp
that comes after its value is put with the next one. `StampGoesWithValue` is about
PVs whose size is a multiple of 8, and one client: when two put the same record,
the later value can go with the earlier time. `RequestsEnd` presumes that wake-ups
for other labor cease: each one begins the 60 seconds of a put callback again (CM
1809).

**Other disagreements met while modelling**, without a run of their own:
* `sendCounter` is compared with `resetCounter` and never set back (PS 155): once
  it has passed it, the queue is never sorted again, where PH 234-238 describes
  a reset from time to time. The FIFO order still delivers.
* `currentChangePos`, which counts a PV twice that changes again before it was sent
  (`queue_order`), may exceed the number of PVs; PH 209-213 calls it the number of
  changed PVs.
* After `quit` the threads of the pool lose wake-ups to one another as well: the Wait
  of `Stop()` may be satisfied by the Post of a window, `MultiThreadService::Stop`
  be called, and a thread told to close reset the event (PS 546) while another is
  between its look at `quit` and its Wait (PS 513-515). That one blocks, the counter
  stays below the size of the pool, and the main thread never ends (PS 213).
* The ranges of the subscribing threads overlap when the last one has fewer PVs than
  there are threads (ES 399), which nothing checks.
* A PV longer than `MaxVarSize` is cut, and the tail that does not fit in this
  thread's share is never sent (PS 578-710; PH 110-112).
* When the first two PVs of the queue exceed `MaxBytesPerCycle` together, the
  window is empty (PS 137).
* The order by size (PS 89) uses the size of the PV whose index is the queue
  *position*, not that of the PV at that position.
* The context of the subscriber is detached before `ca_context_destroy`, which then
  finds none: callbacks go on after `Stop()` (ES 585).
* The mapping from the sender's index to the local one is made once and never
  renewed (DR 1052): a sender that restarts with another list needs a receiver
  that restarts with it.
* Alignment makes some puts without a timestamp look like puts with one: the record
  then gets a time made of padding (CM 823). The diode stamps every put.
* `clear_channel_reply` ends access security for a channel (`asRemoveClient`, CM
  2063) before it takes the channel off its list: `sendAllUpdateAS` in between reads
  rights that are gone. In the model what it reads is arbitrary (`TellRights`).
* The context of a subscribing thread is the address of a local variable
  (ES 386); harmless, since `CleanContext` no longer uses the number.

## 4. The proofs

The 56 theorems that `PROJECT.json` lists hold for every value of the constants
that the modules' named assumptions allow; there is no other assumption.

* **SenderPool** (`PoolAssumption`: a finite, non-empty pool whose windows fit the
  queue, as `SetDataSource` tests). `BarrierInv` with `TypeOK` is inductive. Its
  core: a counted thread stays at or before its next Wait; the counter is the
  number of counted threads; while the event is posted nobody is counted. Hence a
  copy of the counter that equals the pool size cannot go stale - the reason why
  the decision outside the lock is sound. `PublishExclusive`, `ZeroIsSafe`,
  `CounterCountsThreads` follow. So does `TakesTurns`: each step maps to a step of
  `WindowBarrier` or to none. All of it holds until `Stop()`.
  `NumbersInv`: the numbers given are exactly those below `threadIndex`, one thread
  each; `ThreadNumbers` and `NumbersAreKept` follow, after `Stop()` as well.
  `SliceInv` is why the division of the window is right. `ServedInv` first: a
  thread that took a slice meets no other wait than that for the next window, so
  each takes one slice per window. What the served threads took together is a
  number of quotients, plus the remainder if the thread with the last number is
  among them (`TakenBy`), which one more slice raises by exactly its share; hence
  every slice being sent lies at its own offset (`Layout`) below the length of the
  window, which fits the queue, and offsets that differ are positions that differ
  (`SlicesPartition`). With all served, the numbers being all given, the
  remainder is among them (`WindowIsTaken`). Together they are
  `WindowIsPartitioned`. `SliceInv` speaks of a function into the naturals and is
  proved only, never run.
* **SenderQueue** (`QueueAssumption`). Swaps keep the permutation; `SortInv` is
  the loop invariant (what was examined and changed lies among the changed ones);
  `FrontInv` is its converse while no carried PV has changed again: what lies before
  `currentChangePos` did change, and the carried PVs are passed before any other is
  inserted, so that a swap never takes one of them back. `ChangedAreFirst` is both at
  the end of the loop. `WindowHasNoDuplicates`:
  the window is cut from different positions of a permutation, and only shortened.
* **SenderSlice** (`SliceAssumption`; in `SenderQueueProofs`, beside the window
  the slice is one of). `FragmentsWithinPv` needs only that a
  fragment ends at its PV's size. `SliceIsWholeUnfragmented` needs `WholeInv`:
  what was gone through is whole, and the offset is zero between PVs.
* **PvList** (`ListAssumption`). `IndInv`: the list is sorted but for the element
  being inserted; `middle - range` is the first position not yet left out, and
  every position of the name lies in what is left. So no unsigned value wraps,
  the bisection is exact, and each iteration leaves less.
* **ReceiverStore** (`ReceiverAssumption`). `StoreInv` adds to the properties that
  `memoryPrec` is the content of `memory`, that a mapping is the search's result,
  that a flagged PV holds one message's value and timestamp, and that what
  thread 0 scans is the memory unless flagged again. `RangesCoverAll` is
  arithmetic on the division of the list; with `NoChangeLost` it is `NothingIsLost`.
* **PayloadParser** (`MessagesAssumption`). `NoQuoteInName` and
  `OpeningIsNoPattern` are all that is used of the bytes. `TheName`: whatever the
  payload begins with, the name found is that of the first variable that begins
  in it. `PInv` adds that what is stored lies before the payload, that what lies
  before it was stored or dropped, and that when more is needed no variable in it
  is complete; one lemma for each way out of the search. `StoredInOrder` and
  `NothingIsLeft` follow, for every message and every way to cut it.
* **ReceiverLifecycle** (`LifecycleAssumption`). The counter of contexts is the
  number of put threads past it, the event is posted only after all of them have
  been counted, so no reset comes after a post: `ThreadsFindTheMemory`.
  `SocketsHaveOneOwner` is inductive with the types.
* **Diode** (`DiodeAssumption`). Each step maps to a step of `Link` or to none
  (`DiodeIsALink`), because every value in flight, stored or flagged is one its
  source has had. `ValuesComeInOrder` needs that what one connection carries of a
  PV is not older than what is behind it, and no older than `memory`
  unless the PV was overtaken; proved for any number of PVs, threads and
  connections, although the run has one PV.
* **Subscriber** (`SubscriberAssumption`: at least one PV per thread). `PlacesAreRight`
  has the premise `RangesAreApart` in its property, the others as an assumption of
  their own; `WhenRangesAreApart` says what it means for the numbers of a
  configuration. `RangeOfBuffer` is the arithmetic:
  a PV lies in the range of exactly one thread, the one the remap takes it for.
  `ThreadInv` says of one thread that there are sums of the room of its PVs which
  the first loop has left enough memory for and which the second loop gives as
  places; that a PV has no place before and no subscriptions before the third loop
  has been there. A step touches one range, so it keeps the `ThreadInv` of the
  others (`Frame`). The remap adds `Base` while no other thread is on its way: the
  count of finished threads is the cardinality of their set, hence all are
  (`OffsetInv`). `EachPvHasItsPlace` follows, and `CopyIsApart`: in what the
  sender copies no two PVs share bytes. `ChangesAreFlagged` needs that a value
  written without a flag precedes the subscription. `Base` is a recursive function:
  `BaseSums` shows by a least counterexample that a sum exists, hence that
  `Base` is one. The sums of `ThreadInv` are bound by a quantifier over functions
  into the naturals, so it is proved only; with values up to 5 in
  place of the naturals TLC finds it invariant on the instance of the run.
* **StampedPut** (`StampedPutAssumption`). `FramedInv`: messages lie one behind the
  other in the bytes sent, what was consumed lies within what was received, and
  `Framed`; a step of `camessage` moves from one start to the next because what it
  consumes, with `m_postsize` shortened by the time stamp, and what it drains are
  the whole message. `StampInv` adds that a record's value is that of a message handled
  for it, and that between the two halves of `write_action` its time is already that
  of the message being written; the stamp is where the
  server looks for it because the value of a PV whose size is a multiple of 8 needs
  no padding (`StampIsFound`).
* **CaServer** (`CaServerAssumption`: a bound that is a number, and `None` nothing
  else). `ServerTypes` first: each thread has the locals of its stage, and
  a subscription is where its stage and its lists say (`SubsPlaced`). Then, each
  inductive given those before:
  - `ToldIsCurrent` by itself: a change not told yet keeps the channel on the list of
    pending ones, or is in the hands of `casAccessRightsCB`;
  - `ClaimsInOrder`: what a stage says of the channel it works on - what was claimed
    is in service until it is cleared; from it `SubsInUse`, and `UpdatesInv` for
    `UpdatesTellAccess`: what the event task is about to send is true
    or another update follows (`UpdateIsNew`), and what `event_add_action` is about
    to leave disabled may not be read, or `casAccessRightsCB` is on its way
    (`EnablesIfReadable`);
  - `PutsInv` for `PutsAreAccountedFor`: what the block of a channel says agrees with
    what the database does (`BlocksInOrder`), a reply in progress holds a put of
    its own (`PutInHand`), different holders have different puts (`PutsDiffer`), and
    a put that was answered, or freed with its channel, has none (`PutsSettled`,
    `FreedIsGone`). One lemma per step of a put; the queue needs what appending,
    taking the first and removing one do to its members and to their being
    different (`AppendQueues`, `TailTakes`, `RemovedTakes`);
  - `ClearedIsFree` is a consequence of `ClaimsInOrder` and `PutsInv`: the TCP thread
    cancels, flushes and frees in an order that leaves nobody behind;
  - `LaborIsPosted`, given `PutsInv`: what waits for the event task was posted, will
    be, or lies ahead of it;
  - `ListsInv` for `ListsMatchStates` and `NamesAreRegistered`.
  Each of these conjunctions was run as an invariant on the instance of
  `patched_ca` before it was proved.

The type invariants of the other modules are theorems and not invariants of runs.

**Only model-checked:** liveness (TLAPS has no proof of fairness properties here)
- `EachThreadSends`, `WindowsKeepComing`, `StopIsReleased`, both `StopReturns`,
`EventuallyDelivered`, `SliceEnds`, `OwnChangesArePut`, `CopyCatchesUp`,
`EveryMessageIsAnswered`, `PutThreadsRun`, `StopEndsAll`, `CatchesUp`,
`RequestsEnd`, `ClaimsAreAnswered`. (That the search of the list ends rests on
`SearchShrinks`, which is proved.) Every safety property of a passing run is
stated by a theorem.

## 5. Not modelled

* MARTe2, and EPICS but for the puts and the server above: external operations. Of
  the patched files, the circuits, beacons, flow control and search of the client
  library and the alarms of records are EPICS as distributed, without a part in what
  the patch does. The mains only configure, start and stop.
* `CaServer`: plain reads, which have no state; search, version and echo; clients
  older than V44. `StampedPut`: send buffers and back pressure.
* Reading configuration and XML files, allocation failures, logging, statistics,
  deployment.
* `Subscriber`: data types (an element takes one unit of memory), and a
  `ca_context_create` that fails (ES 388): that thread would lay out nothing.
* `ReceiverStore`: fragments of a value (`varOffset` > 0), the debug counters,
  a sender that restarts with another list (its indices are mapped once, DR 1052:
  the receiver has to be restarted with it).
* `Diode`: several put threads (`receiver_puts` shows what they lose) and zero as
  a value.
