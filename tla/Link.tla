-------------------------------- MODULE Link --------------------------------
(***************************************************************************)
(* What the diode promises of each PV: the receiving side holds a value    *)
(* that the PV has had, none at first, and takes over others from time to  *)
(* time, not always newer ones.                                            *)
(***************************************************************************)
EXTENDS Naturals

CONSTANT PVs

VARIABLES
    source,   \* changes of each PV so far
    target    \* the change whose value the receiving side has, 0 for none

vars == <<source, target>>

Init == source = [p \in PVs |-> 1] /\ target = [p \in PVs |-> 0]

Change(p) == source' = [source EXCEPT ![p] = @ + 1] /\ UNCHANGED target

TakeOver(p) ==
    /\ \E change \in 1 .. source[p] : target' = [target EXCEPT ![p] = change]
    /\ UNCHANGED source

Next == \E p \in PVs : Change(p) \/ TakeOver(p)

Spec == Init /\ [][Next]_vars

=============================================================================
