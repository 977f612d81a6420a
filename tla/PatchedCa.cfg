\* Two puts, with small sizes: a stamped array is a large message, and does not
\* fit.  Three put callbacks on two channels without access security; one
\* channel with a subscription with it.  The TCP thread may end.
SPECIFICATION PatchedSpec
CONSTANTS
    PVs = {"double", "array"}
    ElementSize <- Sizes
    Count <- Counts
    Strings = {}
    LinkedTime = {"array"}
    StringLengths = {1}
    LargePayload = 24
    RecvBuffer = 24
    LargeBuffer = 32
    MaxPuts = 2
    Chans = {c1, c2}
    FirstChannel = c1
    Subs = {s1}
    MaxCallbacks = 3
    Names = {n}
    None = None
INVARIANTS
    Framed
    StampGoesWithValue
    PutsAreAccountedFor
    ClearedIsFree
    ToldIsCurrent
    UpdatesTellAccess
PROPERTIES
    RequestsEnd
    ClaimsAreAnswered
CHECK_DEADLOCK FALSE
