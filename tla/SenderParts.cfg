\* Three PVs, of which one is too long, over two threads; slices of four PVs of at
\* most five units, in fragments of two.
SPECIFICATION SenderPartsSpec
CONSTANTS
    numberOfPvs = 3
    numberOfPoolThreads = 2
    Elements <- SomeElements
    maxArraySize = 2
    MaxChanges = 2
    NoThread <- NoneYet
    nVarsPerThread = 4
    maxVarSize = 2
    Sizes = {0, 1, 2, 3, 5}
INVARIANTS
    EachPvHasItsPlace
    ChangesAreFlagged
    FragmentsWithinPv
    SliceIsWholeUnfragmented
PROPERTIES
    CopyCatchesUp
    StopReturns
    SliceEnds
CHECK_DEADLOCK FALSE
