\* Three PVs of one size and one thread that sends one PV in a cycle: a changed
\* PV can be left behind the window and change again.
SPECIFICATION Spec
CONSTANTS
    NumberOfVariables = 3
    NumberOfPoolThreads = 1
    NumberOfSignalToBeSent = 1
    PvSize <- OneSize
    MaxBytesPerCycle = 1
    ResetCounter = 20
    MaxChanges = 4
    MaxFailures = 0
INVARIANT NoneBeforeChanged
CHECK_DEADLOCK FALSE
