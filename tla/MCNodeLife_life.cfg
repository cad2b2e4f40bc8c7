SPECIFICATION Spec
CONSTANTS
    Nodes = {0, 1, 2}
    Graph = {0, 1}
    Linked = {0}
    MeasureNodes = {0, 1}
    SampleNodes = {2}
    Pids = {p1, p2, p3}
    NoPid = NoPid
    Absent = Absent
    Free = Free
    Other = Other
    BbNum = 2
    MaxRuns = 3
    MaxFaults = 2
SYMMETRY Symmetry
INVARIANTS
    CleanLeavesNothing
    DoneMeansStarted
    OneNetwork
PROPERTIES
    KillsOnlyOwn
    AttachesOwn
CHECK_DEADLOCK FALSE
