SPECIFICATION Spec
CONSTANTS
    P = 2
    MaxVMs = 2
    Topos = {"a", "b"}
    Batch <- MCBatch
    MaxFaults = 3
INVARIANTS
    CleanStart
    PlannedVMs
    OwnResults
    SkipsOnlyCompleted
PROPERTY BatchEnds
CHECK_DEADLOCK FALSE
