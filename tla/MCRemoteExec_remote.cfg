SPECIFICATION Spec
CONSTANTS
    N = 2
    Window = 1
    Jobs <- MCJobs
INVARIANTS
    OutputComplete
PROPERTIES
    KeepsPromise
    CallEnds
CHECK_DEADLOCK FALSE
