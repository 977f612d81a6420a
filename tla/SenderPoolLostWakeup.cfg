\* Two pool threads, no Stop(), any timing: a posted window may miss a thread.
SPECIFICATION FairSpec
CONSTANTS
    t1 = t1
    t2 = t2
    t3 = t3
    Threads <- TwoThreads
    NumberOfVariables = 2
    NumberOfSignalToBeSent = 1
    WindowLengths <- FullWindows
    NumberOfChunks = 0
    MayStop = FALSE
    MaxCount = 3
PROPERTIES
    EachThreadSends
CHECK_DEADLOCK FALSE
