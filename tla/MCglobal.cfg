CONSTANTS
    Spaces = {s1, s2}
    NoSpace = NoSpace
    NumPages = 2
    NumPhysPages = 2
    NumSwapPages = 4
    Section <- MCSection2
    TextPage = 0
    Policies = {"DUMB", "FIFO", "LRU"}
    WsDeltaSize = 1
    ContractionEnabled = FALSE
    WSetGarbage = {1}
    HistoryGarbage = {0}
    WriteVals = {1}

SPECIFICATION Spec

INVARIANT TypeOK
INVARIANT OwnersMatchPageTables
INVARIANT SwapOwnersMatchPageTables
INVARIANT FlagsMatchOwners
INVARIANT SharedPagesAreCow
INVARIANT NoAbort
PROPERTY ImplementsVMemory
SYMMETRY MCSymmetry
VIEW MCView
