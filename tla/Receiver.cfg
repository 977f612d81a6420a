\* Three PVs, two put threads, two connections with two variables and one failing
\* put; three put threads and three of the service that start and stop; messages
\* of two or three variables; lists of at most four of five names.
SPECIFICATION ReceiverSpec
CONSTANTS
    numberOfVariables = 3
    numberOfInitThreads = 2
    Clients = {c1, c2}
    LocalIndex <- NamesFound
    Size <- OtherSize
    Contents = {0, 1}
    MaxMessages = 2
    MaxFailures = 1
    Unmapped = Unmapped
    NotFound = NotFound
    None = None
    numberOfCycleThreads = 3
    maxNumberOfThreads = 3
    Sockets = {k1, k2, k3}
    NULL = NULL
    Messages <- SomeMessages
    PV_NAME_MAX_SIZE_REC = 3
    PieceSize = 32
    Names = {0, 1, 2, 3, 4}
    maxNumberOfVariables = 4
INVARIANTS
    NothingIsLost
    PutsArePairs
    NamesMatch
    SocketsHaveOneOwner
    ThreadsFindTheMemory
    StoredInOrder
    NothingIsLeft
    SearchFinds
PROPERTIES
    OwnChangesArePut
    PutThreadsRun
    StopEndsAll
    EveryMessageIsAnswered
CHECK_DEADLOCK FALSE
