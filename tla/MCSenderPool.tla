---------------------------- MODULE MCSenderPool ----------------------------
(* Small instances of SenderPool.                                          *)
EXTENDS SenderPool, TLC

CONSTANTS t1, t2, t3

TwoThreads   == {t1, t2}
ThreeThreads == {t1, t2, t3}

\* maxBytesPerCycle may cut every window, or none.
AllWindows  == 0 .. maxSignalPerThread
FullWindows == {maxSignalPerThread}

ThreadSymmetry == Permutations(Threads)

=============================================================================
