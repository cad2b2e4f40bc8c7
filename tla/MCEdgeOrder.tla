---------------------------- MODULE MCEdgeOrder ----------------------------
(* Instances of EdgeOrder for TLC. *)
EXTENDS EdgeOrder

MCNodes == 1..4
MCEdges == {"a", "b", "c"}
MCDangling == {"x", "y"}
MCHome == [d \in MCDangling |-> IF d = "x" THEN 1 ELSE 2]

\* Every graph of three edges on four nodes, parallel edges included.
MCGraphs == [MCEdges -> {{u, v} : u, v \in MCNodes} \ {{u} : u \in MCNodes}]
=============================================================================
