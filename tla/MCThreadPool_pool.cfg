SPECIFICATION Spec
CONSTANTS
    Workers = {w1, w2, w3}
    NumLists = 5
    ListLen <- MCListLen
    MayFail <- MCMayFail
INVARIANTS
    Barrier
PROPERTIES
    PromiseSafety
    Termination
\* A failed task blocks its worker and then the client: the program stops.
CHECK_DEADLOCK FALSE
