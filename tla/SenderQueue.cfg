\* Four PVs, three threads with one PV each, and a cap on bytes that cuts some
\* windows; three changes of PVs, one connection fails.
SPECIFICATION FairSpec
CONSTANTS
    NumberOfVariables = 4
    NumberOfPoolThreads = 3
    NumberOfSignalToBeSent = 1
    PvSize <- MixedSizes
    MaxBytesPerCycle = 4
    ResetCounter = 6
    MaxChanges = 3
    MaxFailures = 1
INVARIANTS
    QueueIsPermutation
    ChangedAreFirst
PROPERTY EventuallyDelivered
