SPECIFICATION PutSpec
CONSTANTS
    PVs = {"int32", "string"}
    ElementSize <- Sizes
    Count <- Counts
    Strings = {"string"}
    LinkedTime = {}
    StringLengths = {6, 40}
    LargePayload = 65535
    RecvBuffer = 24
    LargeBuffer = 128
    MaxPuts = 1
INVARIANT TimeIsTheStamp
