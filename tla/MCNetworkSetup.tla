--------------------------- MODULE MCNetworkSetup ---------------------------
(* Instances of NetworkSetup for TLC. *)
EXTENDS NetworkSetup

\* Three nodes, four internal links and a link to node 9 on another server.
MCNodeOrder == <<1, 2, 3>>
MCEdges == <<<<1, 2, -1>>, <<1, 3, -1>>, <<2, 9, 4097>>, <<2, 3, -1>>,
             <<3, 1, -1>>>>

\* NaiveOrder: all the links in the list of the last node.
MCNaiveOrder == <<<<>>, <<>>, MCEdges>>
MCShortNaiveOrder == <<<<>>, <<>>, SubSeq(MCEdges, 1, 4)>>

\* A list of one link, then one with a change of namespace in the middle.
MCMixedOrder == <<<<>>, <<<<2, 9, 4097>>>>,
                  <<<<3, 1, -1>>, <<3, 8, 4098>>, <<3, 2, -1>>>>>>

\* Two links between node 2 and node 9: both sub-topology lines carry the one
\* VNI that the pair of nodes was given.
MCTwinOrder == <<<<>>, <<>>, <<<<1, 2, -1>>, <<2, 9, 4097>>, <<2, 9, 4097>>>>>>

MCLeftBehind == {<<3, 3>>}
MCMayFail == {<<3, 2>>, <<3, 3>>}
=============================================================================
