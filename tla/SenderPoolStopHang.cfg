\* Two pool threads that lose no wake-up, Stop() at any time: it may itself lose
\* the last Post.
SPECIFICATION TimelySpec
CONSTANTS
    t1 = t1
    t2 = t2
    t3 = t3
    Threads <- TwoThreads
    NumberOfVariables = 2
    NumberOfSignalToBeSent = 1
    WindowLengths <- FullWindows
    NumberOfChunks = 0
    MayStop = TRUE
    MaxCount = 3
PROPERTIES
    StopReturns
CHECK_DEADLOCK FALSE
