SPECIFICATION Spec
CONSTANT
    MaxKills = 2
INVARIANTS
    SuccessMeansReady
    FailureMeansGone
    PidIsThere
    NoDescriptorLeft
PROPERTY
    RunEnds
\* A parent whose child was killed waits for ever.
CHECK_DEADLOCK FALSE
