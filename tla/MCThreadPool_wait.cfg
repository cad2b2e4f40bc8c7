SPECIFICATION Spec
CONSTANTS
    Workers = {w1, w2}
    NumLists = 3
    ListLen <- MCShortListLen
    MayFail <- MCShortMayFail
PROPERTY
    WaitReturnsEventually
CHECK_DEADLOCK FALSE
