-------------------------- MODULE MCReceiverStore ---------------------------
(* A small receiver: three PVs, of which the sender knows the last one     *)
(* under index 0, the first one under index 1, and another under index 2.  *)
EXTENDS ReceiverStore

NamesFound == [i \in 0 .. 2 |-> CASE i = 0 -> 2 [] i = 1 -> 0 [] i = 2 -> NotFound]
SameSize == [p \in 0 .. 2 |-> "fits"]
OtherSize == [p \in 0 .. 2 |-> IF p = 2 THEN "larger" ELSE IF p = 1 THEN "none" ELSE "fits"]

=============================================================================
