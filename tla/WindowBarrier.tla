--------------------------- MODULE WindowBarrier ----------------------------
(***************************************************************************)
(* What the barrier of PrioritySender promises until Stop() is called: the *)
(* main thread and the pool take turns.  A window is written only when     *)
(* every thread has finished with the previous one, each thread finishes a *)
(* window once, and no thread finishes one while the next is written.      *)
(***************************************************************************)
CONSTANT Threads

VARIABLES
    writing,    \* the main thread writes the next window
    finished,   \* the threads that have finished with the current one
    stopped     \* Stop() has been called: nothing is promised any more

vars == <<writing, finished, stopped>>

TypeOK == writing \in BOOLEAN /\ finished \subseteq Threads /\ stopped \in BOOLEAN

Init == writing = FALSE /\ finished = {} /\ stopped = FALSE

Finish(t) ==
    /\ ~writing /\ ~stopped /\ t \notin finished
    /\ finished' = finished \cup {t}
    /\ UNCHANGED <<writing, stopped>>

BeginWindow ==
    /\ ~writing /\ ~stopped /\ finished = Threads
    /\ writing' = TRUE
    /\ UNCHANGED <<finished, stopped>>

PostWindow ==
    /\ writing
    /\ writing' = FALSE /\ finished' = {}
    /\ UNCHANGED stopped

Stop ==
    /\ ~stopped
    /\ stopped' = TRUE /\ writing' = FALSE /\ finished' = {}

Next == (\E t \in Threads : Finish(t)) \/ BeginWindow \/ PostWindow \/ Stop

Spec == Init /\ [][Next]_vars

=============================================================================
