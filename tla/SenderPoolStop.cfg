\* Two pool threads, no wake-up lost, Stop() at any time or never.
SPECIFICATION TimelySpec
CONSTANTS
    t1 = t1
    t2 = t2
    t3 = t3
    Threads <- TwoThreads
    NumberOfVariables = 2
    NumberOfSignalToBeSent = 1
    WindowLengths <- FullWindows
    NumberOfChunks = 0
    MayStop = TRUE
    MaxCount = 3
INVARIANT ThreadNumbers
PROPERTIES
    StopIsReleased
    WindowsKeepComing
CHECK_DEADLOCK FALSE
