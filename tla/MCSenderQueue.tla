--------------------------- MODULE MCSenderQueue ----------------------------
(* Small instances of SenderQueue.                                         *)
EXTENDS SenderQueue

\* Large and small PVs alternate: the insertion has something to compare.
MixedSizes == [pv \in PVs |-> IF pv % 2 = 0 THEN 2 ELSE 1]

\* All PVs have one size: the insertion moves nothing.
OneSize == [pv \in PVs |-> 1]

=============================================================================
