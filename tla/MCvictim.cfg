CONSTANTS
    Spaces = {s1, s2}
    NoSpace = NoSpace
    NumPages = 2
    NumPhysPages = 2
    NumSwapPages = 4
    Section <- MCSection2
    TextPage = 0
    Policies = {"FIFO"}
    WsDeltaSize = 1
    ContractionEnabled = FALSE
    WSetGarbage = {0}
    HistoryGarbage = {0}
    WriteVals = {1}


SPECIFICATION Spec
INVARIANT NoAbort
VIEW MCView
SYMMETRY MCSymmetry
