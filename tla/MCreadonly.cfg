CONSTANTS
    Spaces = {s1}
    NoSpace = NoSpace
    NumPages = 2
    NumPhysPages = 2
    NumSwapPages = 4
    Section <- MCSection2
    TextPage = 0
    Policies = {"DUMB"}
    WsDeltaSize = 1
    ContractionEnabled = FALSE
    WSetGarbage = {8}
    HistoryGarbage = {0}
    WriteVals = {1}


SPECIFICATION Spec
INVARIANT TextIsNeverModified
VIEW MCView
