---------------------------- MODULE SenderSlice -----------------------------
(***************************************************************************)
(* One call of PrioritySender::SendVariables: a pool thread writes the     *)
(* slice of the queue it has taken, in one or more HTTP messages (rounds). *)
(* A PV longer than maxVarSize is written in fragments.  Three counters    *)
(* govern the loops: cntVariables PVs are done in the whole call, at most  *)
(* nVarsPerThread fragments are written in a round, and varOffset is the   *)
(* position in the current PV.                                             *)
(*                                                                         *)
(* A PV is named by its place in the slice; listIndex moves with           *)
(* cntVariables.  Modules SenderPool and SenderQueue take this call as one *)
(* or two steps, for PVs that fit in one fragment (MaxVarSize's default).  *)
(***************************************************************************)
EXTENDS Integers

CONSTANTS
    nVarsPerThread,  \* the length of the slice
    maxVarSize,      \* the longest fragment
    Sizes            \* the sizes a PV may have; 0 when it is not connected

ASSUME SliceAssumption ==
    /\ nVarsPerThread \in Nat
    /\ maxVarSize \in Nat \ {0}
    /\ Sizes \subseteq Nat

Slice == 0 .. nVarsPerThread - 1

VARIABLES
    totalSize,     \* the size of each PV of the slice
    stage,         \* "message", "pv", "fragment", "done"
    cntVariables,  \* PVs gone through
    inMessage,     \* the i of the code: fragments and PVs counted in this
                   \* message
    varOffset,     \* where the next fragment starts in its PV
    err,           \* a write, a flush or a reply has failed
    sent           \* the fragments written: PV, start, length

sliceVars == <<totalSize, stage, cntVariables, inMessage, varOffset, err, sent>>

\* The loops of the message go on; the code updates it wherever i or err change.
condition == inMessage < nVarsPerThread /\ ~err

SliceInit ==
    /\ totalSize \in [Slice -> Sizes]
    /\ stage = "message" /\ cntVariables = 0 /\ inMessage = 0 /\ varOffset = 0
    /\ err = FALSE /\ sent = {}

\* Variant with a bug: the fragments of the previous messages are counted.
CountOn == inMessage

\* The count of a message starts at zero.
FreshCount == 0

\* The header of a message is written, or fails.
BeginMessage ==
    /\ stage = "message" /\ ~err /\ cntVariables < nVarsPerThread
    /\ inMessage' = FreshCount
    /\ \/ err' = FALSE /\ stage' = "pv"
       \/ err' = TRUE /\ stage' = "done"
    /\ UNCHANGED <<totalSize, cntVariables, varOffset, sent>>

Return ==
    /\ stage = "message" /\ cntVariables >= nVarsPerThread
    /\ stage' = "done"
    /\ UNCHANGED <<totalSize, cntVariables, inMessage, varOffset, err, sent>>

BeginPv ==
    /\ stage = "pv" /\ condition /\ cntVariables < nVarsPerThread
    /\ totalSize[cntVariables] > 0
    /\ stage' = "fragment"
    /\ UNCHANGED <<totalSize, cntVariables, inMessage, varOffset, err, sent>>

\* A PV that is not connected is counted and left out.
SkipPv ==
    /\ stage = "pv" /\ condition /\ cntVariables < nVarsPerThread
    /\ totalSize[cntVariables] = 0
    /\ inMessage' = inMessage + 1
    /\ cntVariables' = cntVariables + 1
    /\ UNCHANGED <<totalSize, stage, varOffset, err, sent>>

Shorter(a, b) == IF a < b THEN a ELSE b

\* Variant with a bug: a fragment is always maxVarSize long.
FullFragment == maxVarSize

ActualSize == Shorter(totalSize[cntVariables] - varOffset, maxVarSize)

\* A fragment is written.  The offset moves only if the message goes on.
WriteFragment ==
    /\ stage = "fragment" /\ condition /\ varOffset < totalSize[cntVariables]
    /\ sent' = sent \cup {[pv |-> cntVariables, from |-> varOffset,
                           len |-> ActualSize]}
    /\ inMessage' = inMessage + 1
    /\ UNCHANGED <<totalSize, stage, cntVariables, err>>
    /\ varOffset' = IF condition' THEN varOffset + ActualSize ELSE varOffset

WriteFails ==
    /\ stage = "fragment" /\ condition /\ varOffset < totalSize[cntVariables]
    /\ err' = TRUE
    /\ inMessage' = inMessage + 1
    /\ UNCHANGED <<totalSize, stage, cntVariables, varOffset, sent>>

\* Variant with a bug: the offset of a finished PV is that of the next one.
KeptOffset == varOffset

OffsetOfNextPv == IF varOffset >= totalSize[cntVariables] THEN 0 ELSE varOffset

EndPv ==
    /\ stage = "fragment" /\ (~condition \/ varOffset >= totalSize[cntVariables])
    /\ varOffset' = OffsetOfNextPv
    /\ cntVariables' = cntVariables + 1
    /\ stage' = "pv"
    /\ UNCHANGED <<totalSize, inMessage, err, sent>>

\* The message is flushed and the pending replies are read: this may fail, or
\* the server may answer that the connection is complete.
EndMessage ==
    /\ stage = "pv" /\ (~condition \/ cntVariables >= nVarsPerThread)
    /\ \/ ~err /\ err' = FALSE /\ stage' = "message"
       \/ err' = TRUE /\ stage' = "done"
    /\ UNCHANGED <<totalSize, cntVariables, inMessage, varOffset, sent>>

SliceNext ==
    \/ BeginMessage \/ Return \/ BeginPv \/ SkipPv
    \/ WriteFragment \/ WriteFails \/ EndPv \/ EndMessage

SliceSpec == SliceInit /\ [][SliceNext]_sliceVars

\* The call runs: every write ends, well or badly.
FairSliceSpec == SliceSpec /\ WF_sliceVars(SliceNext)

-----------------------------------------------------------------------------
(* Properties.                                                             *)

Fragments == [pv : Slice, from : Nat, len : 1 .. maxVarSize]

SliceTypeOK ==
    /\ totalSize \in [Slice -> Sizes]
    /\ stage \in {"message", "pv", "fragment", "done"}
    /\ cntVariables \in 0 .. nVarsPerThread
    /\ stage = "fragment" => cntVariables < nVarsPerThread
    /\ inMessage \in Nat /\ varOffset \in Nat
    /\ err \in BOOLEAN
    /\ sent \subseteq Fragments

\* A fragment lies within its PV, whatever offset the previous PV left: the
\* receiver is never given bytes of another PV (PrioritySender.cpp 629-631).
FragmentsWithinPv ==
    \A f \in sent : f.from + f.len <= totalSize[f.pv]

Whole(p) == \A b \in 0 .. totalSize[p] - 1 :
               \E f \in sent : f.pv = p /\ f.from <= b /\ b < f.from + f.len

OneFragmentEach == \A p \in Slice : totalSize[p] <= maxVarSize

\* When no PV is longer than a fragment, a call that returns without error
\* has written the whole slice, in as many messages as it takes.
SliceIsWholeUnfragmented ==
    OneFragmentEach /\ stage = "done" /\ ~err => \A p \in Slice : Whole(p)

\* The call returns: each message makes progress in the slice.
SliceEnds == <>(stage = "done")

=============================================================================
