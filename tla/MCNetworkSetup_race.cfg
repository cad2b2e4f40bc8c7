SPECIFICATION Spec
CONSTANTS
    Main = main
    NodeOrder <- MCNodeOrder
    Workers = {w1, w2}
    EdgeOrder <- MCShortNaiveOrder
    BackBoneNums = {2}
    NodesMayFail = {}
    BbNsMayFail = {}
    MayFail = {}
    LeftBehind = {}
    MaxHandle = 8
INVARIANTS
    CalledInBbNs
