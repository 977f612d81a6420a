SPECIFICATION FairSpec
CONSTANTS
    PVs = {1}
    Threads = {1, 2}
    Connections = {1, 2, 3}
    FirstConnection <- OneEach
    MaxChanges = 3
    MaxInFlight = 2
    MaxFailures = 2
PROPERTIES
    ImplementsTheLink
    GoesBackOnlyIfOvertaken
    CatchesUp
