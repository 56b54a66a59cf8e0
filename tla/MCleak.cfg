CONSTANTS
    Spaces = {s1}
    NoSpace = NoSpace
    NumPages = 5
    NumPhysPages = 5
    NumSwapPages = 5
    Section <- MCSection5
    TextPage = 0
    Policies = {"DUMB"}
    WsDeltaSize = 1
    ContractionEnabled = TRUE
    WSetGarbage = {8}
    HistoryGarbage = {0}
    WriteVals = {1}


SPECIFICATION Spec
INVARIANT FlagsMatchOwners
