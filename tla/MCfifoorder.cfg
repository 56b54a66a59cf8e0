CONSTANTS
    NumPages = 3
    MaxScans = 1
    Histories = {0}

SPECIFICATION Spec

INVARIANT FIFOEvictsOldest

CHECK_DEADLOCK FALSE
