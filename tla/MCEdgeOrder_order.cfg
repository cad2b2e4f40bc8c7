SPECIFICATION Spec
CONSTANTS
    Nodes <- MCNodes
    Edges <- MCEdges
    Dangling <- MCDangling
    Home <- MCHome
    Graphs <- MCGraphs
INVARIANTS
    EachLinkOnce
    NodesComeFirst
    CountAgrees
PROPERTY
    TakesBest
