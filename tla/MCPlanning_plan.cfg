SPECIFICATION Spec
CONSTANTS
    Configs <- MCConfigs
    Cores = 4
    MaxVMNum = 2
    Memory = 400
    MemoryReq = 200
    Sizes <- MCSizes
    X = 1
    Y = 12
    MaxTries = 15
INVARIANTS
    EndsAgree
    VniPerPair
    OnOwnMachine
    EnoughNamespaces
    CountsMatchFiles
PROPERTY PlanningEnds
CHECK_DEADLOCK FALSE
