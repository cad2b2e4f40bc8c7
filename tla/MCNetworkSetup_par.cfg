SPECIFICATION Spec
CONSTANTS
    Main = main
    NodeOrder <- MCNodeOrder
    Workers = {w1, w2}
    EdgeOrder <- MCMixedOrder
    BackBoneNums = {1, 2}
    NodesMayFail = {}
    BbNsMayFail = {1}
    MayFail = {}
    LeftBehind = {}
    MaxHandle = 8
INVARIANTS
    PlacedUnlessSwitched
    HandlesAccounted
    CleanSuccess
PROPERTIES
    UsesPool
    SetupEnds
\* A task that fails blocks the pool for ever: the program stops.
CHECK_DEADLOCK FALSE
