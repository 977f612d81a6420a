---------------------------- MODULE MCStampedPut ----------------------------
(* A PV of one double, one of one int32, and one of one string.            *)
EXTENDS StampedPut

Sizes == [p \in PVs |-> CASE p = "double" -> 8 [] p = "int32" -> 4 [] p = "string" -> 40
                           [] p = "array" -> 8]
Counts == [p \in PVs |-> IF p = "array" THEN 3 ELSE 1]

=============================================================================
