------------------------------- MODULE Diode --------------------------------
(***************************************************************************)
(* The whole way of a value: the sender publishes a window of PVs, each of *)
(* its threads sends a slice of it on a connection of its own, without     *)
(* waiting for the answer; the receiver stores what each connection        *)
(* brings, in the order in which its threads come to it, and puts what has *)
(* changed.  Connections break, with loss of what they carried, while a    *)
(* thread of the receiver may still have to store what came before; the    *)
(* receiver may be started again.                                          *)
(*                                                                         *)
(* The parts are those of the other modules: SenderQueue (which PVs are in *)
(* a window), SenderPool (the barrier), SenderSlice, PayloadParser and     *)
(* ReceiverStore, here with one put thread.  A value is the number of the  *)
(* change of the PV that made it.                                          *)
(***************************************************************************)
EXTENDS Integers, Sequences

CONSTANTS
    PVs,
    Threads,          \* pool threads of the sender
    Connections,      \* bound on the connections at a time
    FirstConnection,  \* of each thread
    MaxChanges,       \* bound on the changes of a PV
    MaxInFlight,      \* bound on the messages of a connection
    MaxFailures       \* bound on failures of connections and restarts

ASSUME DiodeAssumption ==
    /\ MaxChanges \in Nat \ {0} /\ MaxInFlight \in Nat /\ MaxFailures \in Nat
    /\ FirstConnection \in [Threads -> Connections]
    /\ \A t, u \in Threads : FirstConnection[t] = FirstConnection[u] => t = u

VARIABLES
    source,      \* changes of each PV so far, all in the memory of the sender
    slice,       \* what each thread has to send of the window
    connection,  \* of each thread
    inFlight,    \* messages of each connection, of one variable each
    broken,      \* connections the receiver has dropped
    memory,      \* of the receiver
    changeFlag,
    target,      \* PVs of the receiving side
    overtaken,   \* history: PVs of which an older value was in flight on
                 \* another connection when one was stored
    failures

senderVars   == <<slice, connection>>
receiverVars == <<memory, changeFlag>>
vars == <<source, senderVars, inFlight, broken, receiverVars, target, overtaken, failures>>

Init ==
    /\ source = [p \in PVs |-> 1]
    /\ slice = [t \in Threads |-> <<>>] /\ connection = FirstConnection
    /\ inFlight = [c \in Connections |-> <<>>] /\ broken = {}
    /\ memory = [p \in PVs |-> 0] /\ changeFlag = {}
    /\ target = [p \in PVs |-> 0]
    /\ overtaken = {} /\ failures = 0

Change(p) ==
    /\ source[p] < MaxChanges
    /\ source' = [source EXCEPT ![p] = @ + 1]
    /\ UNCHANGED <<senderVars, inFlight, broken, receiverVars, target, overtaken, failures>>

-----------------------------------------------------------------------------
(* The sender.                                                             *)

AllFinished == \A t \in Threads : slice[t] = <<>>

\* The main thread copies memory and queue once every thread has finished: a
\* window that holds p, one PV at most for each thread.
Publish(p) ==
    /\ AllFinished
    /\ \E window \in [Threads -> {<<q>> : q \in PVs} \cup {<<>>}] :
        /\ \E t \in Threads : window[t] = <<p>>
        /\ \A t, u \in Threads : t # u /\ window[t] # <<>> => window[t] # window[u]
        /\ slice' = [t \in Threads |->
               [k \in DOMAIN window[t] |-> [pv |-> window[t][k], value |-> source[window[t][k]]]]]
    /\ UNCHANGED <<source, connection, inFlight, broken, receiverVars, target, overtaken, failures>>

\* Variant with a bug: what is sent passes what was sent before.
Passing(t) == slice[t] \o inFlight[connection[t]]

Written(t) == inFlight[connection[t]] \o slice[t]

\* SendVariables: the thread writes its slice and goes on.
Send(t) ==
    /\ slice[t] # <<>> /\ connection[t] \notin broken
    /\ Len(inFlight[connection[t]]) < MaxInFlight
    /\ inFlight' = [inFlight EXCEPT ![connection[t]] = Written(t)]
    /\ slice' = [slice EXCEPT ![t] = <<>>]
    /\ UNCHANGED <<source, connection, broken, receiverVars, target, overtaken, failures>>

\* The write fails: the slice is given up, what is in flight arrives up to
\* some point, and the thread connects again.
Reconnect(t) ==
    /\ slice[t] # <<>>
    /\ connection[t] \notin broken => failures < MaxFailures
    /\ failures' = IF connection[t] \in broken THEN failures ELSE failures + 1
    /\ \E new \in Connections \ {connection[u] : u \in Threads} :
        /\ inFlight[new] = <<>>
        /\ connection' = [connection EXCEPT ![t] = new]
        /\ broken' = broken \ {connection[t], new}
    /\ \E arrives \in 0 .. Len(inFlight[connection[t]]) :
           inFlight' = [inFlight EXCEPT ![connection[t]] = SubSeq(@, 1, arrives)]
    /\ slice' = [slice EXCEPT ![t] = <<>>]
    /\ UNCHANGED <<source, receiverVars, target, overtaken>>

ThreadStep(t) == Send(t) \/ Reconnect(t)

-----------------------------------------------------------------------------
(* The receiver.                                                           *)

\* Variant with a bug: the flag of the last comparison replaces the earlier one.
LastComparison(m) == IF m.value # memory[m.pv] THEN changeFlag \cup {m.pv}
                                               ELSE changeFlag \ {m.pv}

Flagged(m) == IF m.value # memory[m.pv] THEN changeFlag \cup {m.pv} ELSE changeFlag

\* An older value of this PV that another connection still brings.
IsOlder(c, m) ==
    \E d \in Connections \ {c} : \E k \in DOMAIN inFlight[d] :
        inFlight[d][k].pv = m.pv /\ inFlight[d][k].value < m.value

\* A thread of the receiver stores the next variable of its connection.
Store(c) ==
    /\ inFlight[c] # <<>>
    /\ LET m == Head(inFlight[c])
       IN  /\ memory' = [memory EXCEPT ![m.pv] = m.value]
           /\ changeFlag' = Flagged(m)
           /\ overtaken' = IF IsOlder(c, m) THEN overtaken \cup {m.pv} ELSE overtaken
    /\ inFlight' = [inFlight EXCEPT ![c] = Tail(@)]
    /\ UNCHANGED <<source, senderVars, broken, target, failures>>

\* The put thread takes a flagged value and puts it.
Put(p) ==
    /\ p \in changeFlag
    /\ target' = [target EXCEPT ![p] = memory[p]]
    /\ changeFlag' = changeFlag \ {p}
    /\ UNCHANGED <<source, senderVars, inFlight, broken, memory, overtaken, failures>>

\* Variant with a bug: everything is to be put at the start.
AllFlagged == PVs

FlagsAtStart == {}

\* The receiver is started again: memory and flags are zero, and the
\* connections with what they carried are gone.
RestartReceiver ==
    /\ failures < MaxFailures /\ failures' = failures + 1
    /\ memory' = [p \in PVs |-> 0] /\ changeFlag' = FlagsAtStart
    /\ inFlight' = [c \in Connections |-> <<>>]
    /\ broken' = {connection[t] : t \in Threads}
    /\ UNCHANGED <<source, senderVars, target, overtaken>>

Next ==
    \/ \E p \in PVs : Change(p) \/ Publish(p) \/ Put(p)
    \/ \E t \in Threads : ThreadStep(t)
    \/ \E c \in Connections : Store(c)
    \/ RestartReceiver

Spec == Init /\ [][Next]_vars

\* Threads run on both sides.  That windows come and each PV is in one again
\* and again is what SenderPool (WindowsKeepComing) and SenderQueue
\* (EventuallyDelivered) show, hence the strong fairness.
FairSpec ==
    /\ Spec
    /\ \A p \in PVs : SF_vars(Publish(p)) /\ WF_vars(Put(p))
    /\ \A t \in Threads : WF_vars(ThreadStep(t))
    /\ \A c \in Connections : WF_vars(Store(c))

-----------------------------------------------------------------------------
(* Properties.                                                             *)

TypeOK ==
    LET Messages == Seq([pv : PVs, value : 1 .. MaxChanges])
    IN  /\ source \in [PVs -> 1 .. MaxChanges]
        /\ slice \in [Threads -> Messages]
        /\ connection \in [Threads -> Connections]
        /\ inFlight \in [Connections -> Messages] /\ broken \subseteq Connections
        /\ memory \in [PVs -> 0 .. MaxChanges] /\ changeFlag \subseteq PVs
        /\ target \in [PVs -> 0 .. MaxChanges]
        /\ overtaken \subseteq PVs /\ failures \in 0 .. MaxFailures

\* Each PV of the receiving side holds a value of its own PV: the diode
\* implements the link.
TheLink == INSTANCE Link
ImplementsTheLink == TheLink!Spec

\* A PV of the receiving side goes back to an older value only when that was
\* in flight on another connection while a newer one was stored: on one
\* connection, and after any failure, values come in order.
GoesBackOnlyIfOvertaken ==
    [][\A p \in PVs : target'[p] < target[p] => p \in overtaken]_vars

\* When the source rests, the receiving side ends up with its values, whatever
\* was lost or overtaken.
CatchesUp == <>[](\A p \in PVs : target[p] = source[p])

=============================================================================
