SPECIFICATION Spec
CONSTANTS
    Main = main
    NodeOrder <- MCNodeOrder
    Workers = {}
    EdgeOrder <- MCNaiveOrder
    BackBoneNums = {1, 2, 3, 4, 5}
    NodesMayFail = {2}
    BbNsMayFail = {1}
    MayFail <- MCMayFail
    LeftBehind <- MCLeftBehind
    MaxHandle = 9
INVARIANTS
    LinksWhereAssigned
    SharesRespected
PROPERTIES
    BuildsVirtualNetwork
    SetupEnds
