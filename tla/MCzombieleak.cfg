CONSTANTS
    t1 = t1
    t2 = t2
    t3 = t3
    Threads <- MCThreads
    Main = t1
    NULL = NULL
    MaxSteps = 4
    MaxFd = 3
    FdArgs <- MCFdArgs
    IOLens = {1}
    InputChars = 1
    MaxIOCalls = 0
    NiceIncs <- MCNiceIncs
SPECIFICATION FaultSpec
VIEW MCView
CHECK_DEADLOCK FALSE
INVARIANT ZombiesAreReclaimable
