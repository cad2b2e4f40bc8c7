---------------------------- MODULE AsTopologies ----------------------------
(* The offline scripts in coordinator/scripts/as_topo_util/ that make the    *)
(* "as" topologies out of a table of AS relationships. A graph is a function *)
(* from AS numbers to sets of neighbours, as load_as_relationships returns   *)
(* it: symmetric, and every AS in it has a neighbour.                        *)
EXTENDS Topologies, FiniteSetsExt

Relationships(pairs) ==
    [a \in UNION pairs |-> {b \in UNION pairs : {a, b} \in pairs /\ a # b}]

(* Neighbours outside the graph are forgotten.                               *)
WithoutDangling(graph) == [a \in DOMAIN graph |-> graph[a] \intersect DOMAIN graph]

(* Each link is written by its smaller end, if that end has it.              *)
SaveTopology(graph) ==
    File(DOMAIN graph,
         {Line(p[1], p[2], 0) : p \in {q \in (DOMAIN graph) \X (DOMAIN graph) :
                                          q[1] < q[2] /\ q[2] \in graph[q[1]]}})

-----------------------------------------------------------------------------
(* expand_topology: ASes with the most connections to those taken so far are *)
(* added until there are enough.                                             *)

Connections(graph, taken, a) == Cardinality(graph[a] \intersect taken)
Candidates(graph, taken) ==
    LET outside == {a \in DOMAIN graph \ taken : Connections(graph, taken, a) > 0}
    IN {a \in outside : \A b \in outside :
           Connections(graph, taken, b) <= Connections(graph, taken, a)}

(* The candidates are added in the order of a hash table until the target is *)
(* reached: any of them may be left over.                                    *)
Additions(graph, taken, target) ==
    LET candidates == Candidates(graph, taken)
        room == target - Cardinality(taken)
    IN IF Cardinality(candidates) <= room THEN {candidates} ELSE kSubset(room, candidates)

(* The new ASes come with all their neighbours, and the links of all ASes    *)
(* are cut down to the graph as it is now.                                   *)
AddAses(graph, expanded, new) ==
    WithoutDangling([a \in DOMAIN expanded \union new |->
                        IF a \in new THEN graph[a] ELSE expanded[a]])

(* All results expand_topology can have.                                     *)
RECURSIVE ExpandFrom(_, _, _)
ExpandFrom(graph, expanded, target) ==
    IF \/ Cardinality(DOMAIN expanded) >= target
       \/ Candidates(graph, DOMAIN expanded) = {}
    THEN {WithoutDangling(expanded)}
    ELSE UNION {ExpandFrom(graph, AddAses(graph, expanded, new), target) :
                   new \in Additions(graph, DOMAIN expanded, target)}

ExpandTopology(graph, seeds, target) ==
    IF seeds = {} THEN {[a \in {} |-> {}]}
    ELSE ExpandFrom(graph, [a \in seeds |-> graph[a]], target)

-----------------------------------------------------------------------------
(* prune_topology: leaves, or else the ASes of lowest degree, are removed    *)
(* until there are few enough.                                               *)

Degree(graph, a) == Cardinality(graph[a])
Leaves(graph) == {a \in DOMAIN graph : Degree(graph, a) = 1}
Doomed(graph) ==
    IF Leaves(graph) # {} THEN Leaves(graph)
    ELSE {a \in DOMAIN graph : \A b \in DOMAIN graph : Degree(graph, a) <= Degree(graph, b)}

(* Of two leaves that are each other's neighbour the second has none left    *)
(* when its turn comes, and asking for it is an exception.                   *)
PruneRaises(graph) == \E a \in Leaves(graph) : graph[a] \subseteq Leaves(graph)

(* The result, if there is one.                                              *)
RECURSIVE PruneTopology(_, _)
PruneTopology(graph, target) ==
    IF Cardinality(DOMAIN graph) <= target THEN {graph}
    ELSE IF PruneRaises(graph) THEN {}
    ELSE LET kept == DOMAIN graph \ Doomed(graph)
         IN PruneTopology(WithoutDangling([a \in kept |-> graph[a]]), target)
=============================================================================
