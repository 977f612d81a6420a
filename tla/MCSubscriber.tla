---------------------------- MODULE MCSubscriber ----------------------------
(* Two threads share three PVs: the first has too many elements and is     *)
(* discarded when it answers, the others share the second buffer.          *)
EXTENDS Subscriber

SomeElements == [p \in 0 .. numberOfPvs - 1 |-> CASE p = 0 -> 3 [] p = 1 -> 2 [] OTHER -> 1]
NoneYet == -1

=============================================================================
