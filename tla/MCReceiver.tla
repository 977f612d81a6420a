----------------------------- MODULE MCReceiver -----------------------------
(***************************************************************************)
(* The four parts of the receiver: its memory with the threads that store  *)
(* and put, Start() and Stop() with the threads they govern, the payload   *)
(* of one message, and the list of PVs.  They share no state here; a       *)
(* behaviour is an execution of one of them, while the others rest.        *)
(***************************************************************************)
EXTENDS MCReceiverStore, ReceiverLifecycle, MCPayloadParser, PvList

VARIABLE part

receiverParts ==
    <<part, receiverVars, lifecycleVars, vars, pvListVars>>

ListAtFirst ==
    /\ PvListInit
    /\ numberOfNames = 0
    /\ pvs = [p \in Positions |-> CHOOSE n \in Names : TRUE]
    /\ varName = CHOOSE n \in Names : TRUE

\* A payload rests when its message has been answered.
PayloadOver ==
    /\ message = CHOOSE m \in Messages : TRUE
    /\ isChunked = FALSE
    /\ pc = "error" /\ start = 0 /\ recv = 0
    /\ stored = <<>> /\ dropped = 0

ReceiverInit ==
    /\ part \in {"store", "lifecycle", "payload", "list"}
    /\ StoreInit /\ LifecycleInit
    /\ IF part = "payload" THEN Init ELSE PayloadOver
    /\ IF part = "list" THEN PvListInit ELSE ListAtFirst

OfStore(A) ==
    part = "store" /\ A /\ UNCHANGED <<part, lifecycleVars, vars, pvListVars>>
OfLifecycle(A) ==
    part = "lifecycle" /\ A /\ UNCHANGED <<part, receiverVars, vars, pvListVars>>
OfPayload(A) ==
    part = "payload" /\ A /\ UNCHANGED <<part, receiverVars, lifecycleVars, pvListVars>>
OfList(A) ==
    part = "list" /\ A /\ UNCHANGED <<part, receiverVars, lifecycleVars, vars>>

ReceiverNext ==
    \/ OfStore(StoreNext) \/ OfLifecycle(LifecycleNext)
    \/ OfPayload(Next) \/ OfList(PvListNext)

\* The fairness of each part, while it is the one that runs.
ReceiverSpec ==
    /\ ReceiverInit /\ [][ReceiverNext]_receiverParts
    /\ \A c \in Clients : WF_receiverVars(part = "store" /\ ClientStep(c))
    /\ \A t \in PutThreads : WF_receiverVars(part = "store" /\ PutStep(t))
    /\ WF_lifecycleVars(part = "lifecycle" /\ MainStep)
    /\ \A t \in CycleThreads : WF_lifecycleVars(part = "lifecycle" /\ CycleLoop(t))
    /\ \A c \in Services : WF_lifecycleVars(part = "lifecycle" /\ ServerCycle(c))
    /\ WF_vars(part = "payload" /\ Next)

=============================================================================
