--------------------------- MODULE MCSenderParts ----------------------------
(***************************************************************************)
(* Two parts of the sender that share no state here: the subscriber with   *)
(* its threads, and one call of SendVariables.  A behaviour is an          *)
(* execution of one of them, while the other rests.                        *)
(***************************************************************************)
EXTENDS MCSubscriber, SenderSlice

VARIABLE part

senderParts == <<part, subscriberVars, sliceVars>>

\* A call rests when it has returned, with an error of its first write.
SliceOver ==
    /\ totalSize = [p \in Slice |-> 0]
    /\ stage = "done" /\ cntVariables = 0 /\ inMessage = 0 /\ varOffset = 0
    /\ err = TRUE /\ sent = {}

SenderPartsInit ==
    /\ part \in {"subscriber", "slice"}
    /\ SubscriberInit
    /\ IF part = "slice" THEN SliceInit ELSE SliceOver

SenderPartsNext ==
    \/ part = "subscriber" /\ SubscriberNext /\ UNCHANGED <<part, sliceVars>>
    \/ part = "slice" /\ SliceNext /\ UNCHANGED <<part, subscriberVars>>

\* Threads run, Channel Access delivers, the sender keeps its cycle, and a call
\* goes on.
SenderPartsSpec ==
    /\ SenderPartsInit /\ [][SenderPartsNext]_senderParts
    /\ \A t \in Ids :
           WF_subscriberVars(part = "subscriber" /\ (Startup(t) \/ CleanContext(t)))
    /\ \A p \in PVs : WF_subscriberVars(part = "subscriber" /\ GetValueCallback(p))
                      /\ WF_subscriberVars(part = "subscriber" /\ GetTimeoutCallback(p))
    /\ WF_subscriberVars(part = "subscriber" /\ Synchronise)
    /\ WF_subscriberVars(part = "subscriber" /\ StopDone)
    /\ WF_sliceVars(part = "slice" /\ SliceNext)

=============================================================================
