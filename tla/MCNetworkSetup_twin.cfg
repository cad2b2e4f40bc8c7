SPECIFICATION Spec
CONSTANTS
    Main = main
    NodeOrder <- MCNodeOrder
    Workers = {}
    EdgeOrder <- MCTwinOrder
    BackBoneNums = {1}
    NodesMayFail = {}
    BbNsMayFail = {}
    MayFail = {}
    LeftBehind = {}
    MaxHandle = 5
PROPERTIES
    VxlanCreationEnds
CHECK_DEADLOCK FALSE
