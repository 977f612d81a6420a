\* Three pool threads, windows of every length over four positions, no Stop().
SPECIFICATION Spec
CONSTANTS
    t1 = t1
    t2 = t2
    t3 = t3
    Threads <- ThreeThreads
    NumberOfVariables = 4
    NumberOfSignalToBeSent = 1
    WindowLengths <- AllWindows
    NumberOfChunks = 0
    MayStop = FALSE
    MaxCount = 4
INVARIANTS
    PublishExclusive
    BarrierInv
    WindowIsPartitioned
PROPERTY TakesTurns
SYMMETRY ThreadSymmetry
CHECK_DEADLOCK FALSE
