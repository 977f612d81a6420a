--------------------------- MODULE ReceiverStore ----------------------------
(***************************************************************************)
(* The memory of DiodeReceiver between the connections and the PVs of the  *)
(* receiving side.  One thread per connection (ClientService) finds the    *)
(* local position of each variable it receives and stores value and        *)
(* timestamp; a fixed set of threads (DiodeReceiverCycleLoop) puts the     *)
(* changed PVs in cycles, each one a range of the list.  Thread 0 alone    *)
(* takes values and flags into the second buffers that all of them read,   *)
(* without the lock and without waiting for one another.                   *)
(*                                                                         *)
(* A value is abstracted to its content (0: zero bytes) and to the sender  *)
(* index it came under; a timestamp to the number of the message.  Start() *)
(* has returned and Stop() is not called.                                  *)
(***************************************************************************)
EXTENDS Integers, Sequences

CONSTANTS
    numberOfVariables,      \* PVs of the receiver
    numberOfInitThreads,    \* threads that put
    Clients,                \* threads that serve a connection
    LocalIndex,             \* the position at which the search finds the name
                            \* sent with an index, or NotFound
    Size,                   \* of what is received, against that of the PV:
                            \* "fits", "larger", or "none" (not connected)
    Contents,               \* what a value may hold
    MaxMessages,            \* bound on the variables received
    MaxFailures,            \* bound on the puts that fail
    Unmapped, NotFound,     \* INDEX_INIT_ID, INDEX_NOT_FOUND_ID
    None                    \* no sender index, and no content received

PVs        == 0 .. numberOfVariables - 1
PutThreads == 0 .. numberOfInitThreads - 1

ASSUME ReceiverAssumption ==
    /\ numberOfVariables \in Nat /\ numberOfInitThreads \in Nat \ {0}
    /\ Unmapped \notin PVs /\ NotFound \notin PVs /\ Unmapped # NotFound
    /\ LocalIndex \in [PVs -> PVs \cup {NotFound}]
    /\ Size \in [PVs -> {"fits", "larger", "none"}]
    /\ 0 \in Contents /\ None \notin Contents /\ None \notin PVs
    /\ MaxMessages \in Nat /\ MaxFailures \in Nat

VARIABLES
    cpc,          \* each client: "free", "lookup", "search", "map", "store"
    received,     \* the variable it received: [index, content, stamp]
    index,        \* its local position
    pvMapping,    \* the position of each sender index, or Unmapped
    memory,       \* value and timestamp of each PV: [content, from, stamp]
    memoryPrec,   \* the content last compared
    changeFlag,   \* PVs changed since thread 0 took the flags
    memory2, changeFlag2,  \* what thread 0 took
    tpc,          \* each put thread: "cycle", "copy" or "scan"
    next,         \* the position it looks at
    target,       \* the PVs of the receiving side
    putFailed,    \* PVs whose last put failed
    contentOf,    \* the contents received so far, by timestamp
    failures      \* counted up to MaxFailures

clientVars == <<cpc, received, index, pvMapping>>
storeVars  == <<memory, memoryPrec, contentOf>>
putVars    == <<memory2, changeFlag2, tpc, next>>
targetVars == <<target, putFailed, failures>>
receiverVars == <<clientVars, storeVars, changeFlag, putVars, targetVars>>

\* The positions thread t of so many puts, in a list of n: the last ranges
\* reach to the end of the list when less than one PV per thread is left.
RangeOf(n, threads, t) ==
    LET perThread == n \div threads
        end       == (t + 1) * perThread
    IN  t * perThread .. (IF n - end < threads THEN n ELSE end) - 1

PutRange(t) == RangeOf(numberOfVariables, numberOfInitThreads, t)

NoVariable == [index |-> 0, content |-> 0, stamp |-> 0]
Zero == [content |-> 0, from |-> None, stamp |-> 0]
\* What the receiving side holds before the first put.
Own  == [content |-> None, from |-> None, stamp |-> 0]

\* Start: memory and flags are zero, nothing is mapped.
StoreInit ==
    /\ cpc = [c \in Clients |-> "free"]
    /\ received = [c \in Clients |-> NoVariable]
    /\ index = [c \in Clients |-> Unmapped]
    /\ pvMapping = [s \in PVs |-> Unmapped]
    /\ memory = [p \in PVs |-> Zero] /\ memoryPrec = [p \in PVs |-> 0]
    /\ memory2 = [p \in PVs |-> Zero]
    /\ changeFlag = {} /\ changeFlag2 = {}
    /\ tpc = [t \in PutThreads |-> "cycle"] /\ next = [t \in PutThreads |-> 0]
    /\ target = [p \in PVs |-> Own] /\ putFailed = {}
    /\ contentOf = <<>> /\ failures = 0

\* syncSem is held over the copy of thread 0.
Unlocked == tpc[0] # "copy"

-----------------------------------------------------------------------------
(* ClientService, one variable at a time.                                  *)

\* A complete variable is in the payload.  (An index beyond the list makes
\* ReadVarNameAndIndex drop the payload.)
Receive(c, i, content) ==
    /\ cpc[c] = "free" /\ Len(contentOf) < MaxMessages
    /\ received' = [received EXCEPT ![c] =
           [index |-> i, content |-> content, stamp |-> Len(contentOf) + 1]]
    /\ contentOf' = Append(contentOf, content)
    /\ cpc' = [cpc EXCEPT ![c] = "lookup"]
    /\ UNCHANGED <<index, pvMapping, memory, memoryPrec, changeFlag, putVars, targetVars>>

Lookup(c) ==
    /\ cpc[c] = "lookup" /\ Unlocked
    /\ index' = [index EXCEPT ![c] = pvMapping[received[c].index]]
    /\ cpc' = [cpc EXCEPT ![c] =
           IF pvMapping[received[c].index] = Unmapped THEN "search" ELSE "store"]
    /\ UNCHANGED <<received, pvMapping, storeVars, changeFlag, putVars, targetVars>>

\* Variant with a bug: after a search without success index is where the
\* search ended.
LeftoverIndex(c) ==
    IF LocalIndex[received[c].index] = NotFound THEN 0 ELSE LocalIndex[received[c].index]

SearchResult(c) == LocalIndex[received[c].index]

AfterSearch(i) == IF i = NotFound THEN "store" ELSE "map"

\* GetLocalVariableIndex looks for the name.
Search(c) ==
    /\ cpc[c] = "search"
    /\ index' = [index EXCEPT ![c] = SearchResult(c)]
    /\ cpc' = [cpc EXCEPT ![c] = AfterSearch(SearchResult(c))]
    /\ UNCHANGED <<received, pvMapping, storeVars, changeFlag, putVars, targetVars>>

MapIndex(c) ==
    /\ cpc[c] = "map" /\ Unlocked
    /\ pvMapping' = [pvMapping EXCEPT ![received[c].index] = index[c]]
    /\ cpc' = [cpc EXCEPT ![c] = "store"]
    /\ UNCHANGED <<received, index, storeVars, changeFlag, putVars, targetVars>>

\* Variant with a bug: the timestamp is not copied.
StampKept(c, converts) ==
    [memory[index[c]] EXCEPT !.content = received[c].content, !.from = received[c].index]

\* A value that fits is copied with its timestamp (if it is smaller the content
\* stands for the bytes it covers).  A larger one is converted, without its
\* timestamp, if its type is known and has a conversion.
Stored(c, converts) ==
    LET p == index[c]
        m == received[c]
    IN  CASE Size[p] = "fits" -> [content |-> m.content, from |-> m.index, stamp |-> m.stamp]
          [] Size[p] = "larger" /\ converts ->
                 [memory[p] EXCEPT !.content = m.content, !.from = m.index]
          [] OTHER -> memory[p]

\* Variant with a bug: the flag says whether this value differs.
FlagThisValue(p, content) ==
    IF content # memoryPrec[p] THEN changeFlag \cup {p} ELSE changeFlag \ {p}

\* The flag is raised when the bytes differ from those compared last.
Flagged(p, content) ==
    IF content # memoryPrec[p] THEN changeFlag \cup {p} ELSE changeFlag

Store(c) ==
    /\ cpc[c] = "store"
    /\ cpc' = [cpc EXCEPT ![c] = "free"]
    /\ index' = [index EXCEPT ![c] = Unmapped]
    /\ received' = [received EXCEPT ![c] = NoVariable]
    /\ IF index[c] \in PVs
       THEN \E converts \in BOOLEAN :
            /\ Unlocked
            /\ memory' = [memory EXCEPT ![index[c]] = Stored(c, converts)]
            /\ changeFlag' = Flagged(index[c], Stored(c, converts).content)
            /\ memoryPrec' = [memoryPrec EXCEPT ![index[c]] = Stored(c, converts).content]
       ELSE UNCHANGED <<memory, memoryPrec, changeFlag>>
    /\ UNCHANGED <<pvMapping, contentOf, putVars, targetVars>>

ClientStep(c) == Lookup(c) \/ Search(c) \/ MapIndex(c) \/ Store(c)

-----------------------------------------------------------------------------
(* DiodeReceiverCycleLoop.                                                 *)

\* Thread 0 locks and copies; the others start their range.
BeginCycle(t) ==
    /\ tpc[t] = "cycle"
    /\ tpc' = [tpc EXCEPT ![t] = IF t = 0 THEN "copy" ELSE "scan"]
    /\ next' = [next EXCEPT ![t] = t * (numberOfVariables \div numberOfInitThreads)]
    /\ UNCHANGED <<clientVars, storeVars, changeFlag, memory2, changeFlag2, targetVars>>

\* Values and flags are copied, and the flags cleared.
Synchronise ==
    /\ tpc[0] = "copy"
    /\ memory2' = memory /\ changeFlag2' = changeFlag
    /\ changeFlag' = {}
    /\ tpc' = [tpc EXCEPT ![0] = "scan"]
    /\ UNCHANGED <<clientVars, storeVars, next, targetVars>>

\* What a read of the second buffers may return: during the copy, the old
\* or the new bytes.
FlagRead(p) ==
    {(p \in changeFlag2)} \cup (IF Unlocked THEN {} ELSE {(p \in changeFlag)})
ValueRead(p)  == {memory2[p]} \cup (IF Unlocked THEN {} ELSE {memory[p]})

Scanning(t, p) == tpc[t] = "scan" /\ p \in PutRange(t) /\ p = next[t]

Skip(t, p) ==
    /\ Scanning(t, p) /\ FALSE \in FlagRead(p)
    /\ next' = [next EXCEPT ![t] = p + 1]
    /\ UNCHANGED <<clientVars, storeVars, changeFlag, memory2, changeFlag2, tpc, targetVars>>

\* ca_array_put of value and timestamp, read one after the other.
Put(t, p) ==
    /\ Scanning(t, p) /\ TRUE \in FlagRead(p)
    /\ \E v, s \in ValueRead(p) :
           target' = [target EXCEPT ![p] =
               [content |-> v.content, from |-> v.from, stamp |-> s.stamp]]
    /\ putFailed' = putFailed \ {p}
    /\ next' = [next EXCEPT ![t] = p + 1]
    /\ UNCHANGED <<clientVars, storeVars, changeFlag, memory2, changeFlag2, tpc, failures>>

\* A put that fails is reported and not tried again.
PutFails(t, p) ==
    /\ Scanning(t, p) /\ TRUE \in FlagRead(p)
    /\ failures < MaxFailures /\ failures' = failures + 1
    /\ putFailed' = putFailed \cup {p}
    /\ next' = [next EXCEPT ![t] = p + 1]
    /\ UNCHANGED <<clientVars, storeVars, changeFlag, memory2, changeFlag2, tpc, target>>

\* The range is done; the thread sleeps until its next cycle.
EndCycle(t) ==
    /\ tpc[t] = "scan" /\ next[t] \notin PutRange(t)
    /\ tpc' = [tpc EXCEPT ![t] = "cycle"] /\ next' = [next EXCEPT ![t] = 0]
    /\ UNCHANGED <<clientVars, storeVars, changeFlag, memory2, changeFlag2, targetVars>>

PutStep(t) ==
    \/ BeginCycle(t) \/ EndCycle(t)
    \/ t = 0 /\ Synchronise
    \/ \E p \in PVs : Skip(t, p) \/ Put(t, p) \/ PutFails(t, p)

StoreNext ==
    \/ \E c \in Clients : ClientStep(c) \/ \E i \in PVs, content \in Contents : Receive(c, i, content)
    \/ \E t \in PutThreads : PutStep(t)

StoreSpec == StoreInit /\ [][StoreNext]_receiverVars

\* Every thread runs; nothing need be received.
StoreFairness ==
    /\ \A c \in Clients : WF_receiverVars(ClientStep(c))
    /\ \A t \in PutThreads : WF_receiverVars(PutStep(t))

StoreFairSpec == StoreSpec /\ StoreFairness

-----------------------------------------------------------------------------
(* Properties.                                                             *)

Stamps == 0 .. MaxMessages
StoredValues ==
    [content : Contents \cup {None}, from : PVs \cup {None}, stamp : Stamps]

StoreTypeOK ==
    /\ cpc \in [Clients -> {"free", "lookup", "search", "map", "store"}]
    /\ received \in [Clients -> [index : PVs \cup {0}, content : Contents, stamp : Stamps]]
    /\ index \in [Clients -> PVs \cup {Unmapped, NotFound}]
    /\ pvMapping \in [PVs -> PVs \cup {Unmapped}]
    /\ memory \in [PVs -> StoredValues] /\ memory2 \in [PVs -> StoredValues]
    /\ memoryPrec \in [PVs -> Contents]
    /\ changeFlag \subseteq PVs /\ changeFlag2 \subseteq PVs
    /\ tpc \in [PutThreads -> {"cycle", "copy", "scan"}]
    /\ next \in [PutThreads -> 0 .. numberOfVariables]
    /\ target \in [PVs -> StoredValues] /\ putFailed \subseteq PVs
    /\ contentOf \in Seq(Contents) /\ Len(contentOf) <= MaxMessages
    /\ failures \in 0 .. MaxFailures

\* PVs that only thread 0 puts: the thread that also takes the flags.
OwnPVs == PutRange(0) \ UNION {PutRange(t) : t \in PutThreads \ {0}}

\* The receiving side has the value in memory; or its last put failed; or it
\* was never put and the value received is the zero the memory began with,
\* for which no flag is raised.
UpToDate(p) ==
    \/ target[p].content = memory[p].content
    \/ p \in putFailed
    \/ target[p] = Own /\ memory[p].content = 0

\* Thread 0 will still put what it took, or take what was flagged.
Pending(p) ==
    \/ p \in changeFlag
    \/ tpc[0] = "scan" /\ p \in changeFlag2 /\ next[0] <= p

\* A value of memory that differs from the PV of the receiving side is
\* flagged until it was put (DiodeReceiver.h 158-162), for the PVs of the
\* thread that takes the flags.
NoChangeLost == \A p \in OwnPVs : UpToDate(p) \/ Pending(p)

\* Value and timestamp that are put were received together, for the PVs of
\* thread 0 that are not converted: neither the copy nor another connection
\* comes in between.
PutsArePairs ==
    \A p \in OwnPVs :
        Size[p] = "fits" /\ target[p] # Own =>
            /\ target[p].stamp \in 1 .. Len(contentOf)
            /\ contentOf[target[p].stamp] = target[p].content

\* Whatever connection it came by, and mapped or searched, a value reaches
\* only the PV of its name (DiodeReceiver.h 99-101).
NamesMatch ==
    \A p \in PVs : target[p].from # None => LocalIndex[target[p].from] = p

\* A flag that thread 0 has taken lies in the range of a thread: the division
\* of the list leaves no PV out, and each change has a thread that puts it.
RangesCover == \A p \in changeFlag2 : \E t \in PutThreads : p \in PutRange(t)

\* A change of a PV only thread 0 puts is not lost, and a flag that is taken
\* has a thread that puts the PV.
NothingIsLost == NoChangeLost /\ RangesCover

\* When nothing more is received, the receiving side ends up with the values
\* in memory: for the PVs of thread 0 ...
OwnChangesArePut == <>[](\A p \in OwnPVs : UpToDate(p))

\* ... and for all of them: "A set of different threads gets at each cycle the
\* value of the changed variables and makes a ca_put" (DiodeReceiver.h 103).
AllChangesArePut == <>[](\A p \in PVs : UpToDate(p))

=============================================================================
