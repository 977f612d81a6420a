------------------------------ MODULE MCDiode -------------------------------
(* One PV over two threads and three connections of two messages: PVs meet *)
(* only in windows, which SenderQueue and SenderPool model.                *)
EXTENDS Diode

OneEach == [t \in 1 .. 2 |-> t]

=============================================================================
