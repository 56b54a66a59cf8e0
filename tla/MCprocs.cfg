CONSTANTS
    t1 = t1
    t2 = t2
    t3 = t3
    Threads <- MCThreads
    Main = t1
    NULL = NULL
    MaxSteps = 3
    MaxFd = 3
    FdArgs <- MCFdArgs
    IOLens = {1}
    InputChars = 1
    MaxIOCalls = 2
    NiceIncs = {1}
SPECIFICATION Spec
VIEW MCView
CHECK_DEADLOCK FALSE
INVARIANT TypeOK
INVARIANT SchedulerConsistent
INVARIANT ExitProtocol
INVARIANT ZombiesAreReclaimable
INVARIANT ParentOutlivesChild
INVARIANT BlockedAreQueued
INVARIANT ConsoleProtocol
INVARIANT NoAbort
PROPERTY Termination
PROPERTY ReadyInsertIsStable
