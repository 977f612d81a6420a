\* PVs of one size on both sides, two put threads, two connections.
SPECIFICATION StoreFairSpec
CONSTANTS
    numberOfVariables = 3
    numberOfInitThreads = 2
    Clients = {c1, c2}
    LocalIndex <- NamesFound
    Size <- SameSize
    Contents = {0, 1}
    MaxMessages = 1
    MaxFailures = 0
    Unmapped = Unmapped
    NotFound = NotFound
    None = None
PROPERTY AllChangesArePut
