----------------------------- MODULE MCPlanning -----------------------------
EXTENDS Planning, AsTopologies, TLC

Base == [topo |-> <<"chain", 3>>, pms |-> 1, method |-> "metis",
         fixedVMs |-> 0, fixedMem |-> 0, fixedBbns |-> 0]

OnePm == {[Base EXCEPT !.topo = t, !.fixedBbns = b] :
             t \in {<<"chain", 4>>, <<"star", 4>>, <<"grid", 2, 2>>, <<"trie", 4, 2>>,
                    <<"clos", 2>>, <<"sudoisolated", 2, 2>>, <<"pairs", 2>>,
                    <<"fullmesh", 4>>, <<"isolated", 2>>, <<"trie", 1, 2>>},
             b \in {0, 2}}
TwoPms == {[Base EXCEPT !.topo = t, !.pms = 2, !.method = "naive"] :
             t \in {<<"chain", 4>>, <<"grid", 2, 2>>, <<"trie", 1, 2>>, <<"sudoisolated", 2, 1>>}}
            \union {[Base EXCEPT !.topo = <<"chain", 3>>, !.pms = 2]}
ThreePms == {[Base EXCEPT !.topo = t, !.pms = 3, !.method = "tbs", !.fixedVMs = 1] :
               t \in {<<"grid", 1, 5>>, <<"trie", 1, 2>>}}
Fixed == {[Base EXCEPT !.topo = <<"chain", 3>>, !.fixedVMs = n, !.fixedMem = m] :
             n \in 1 .. 4, m \in {0, 100, 200}}
(* AS topologies: a square with a tail grown from one of its corners, and a  *)
(* path grown from its end.                                                  *)
Square == Relationships({{1, 2}, {1, 3}, {2, 4}, {3, 4}, {4, 5}})
Path == Relationships({{1, 2}, {2, 3}, {3, 4}})
As == {[Base EXCEPT !.topo = <<"as", SaveTopology(e)>>] :
          e \in ExpandTopology(Square, {1}, 4) \union ExpandTopology(Square, {1}, 5)
                  \union ExpandTopology(Path, {1}, 3) \union ExpandTopology(Path, {4}, 3)}
MCConfigs == As \union OnePm \union TwoPms \union ThreePms \union Fixed
MCSizes == {8, 100, 200}

(* The numbers of topo_util.py are those of the generated files, and every   *)
(* line of a file has its nodes in the first line; the number of links of a  *)
(* fat tree (clients are counted with k instead of k \div 2 per leaf) and    *)
(* the trie of one node are the exceptions.                                  *)
Small == {<<"isolated", 3>>, <<"star", 1>>, <<"clos", 2>>, <<"clos", 4>>}
           \union {<<t, n>> : t \in {"pairs", "chain", "star", "fullmesh"}, n \in 1 .. 6}
           \union {<<"trie", n, k>> : n \in 2 .. 9, k \in 2 .. 4}
           \union {<<"grid", x, y>> : x \in 2 .. 4, y \in 2 .. 4}

ASSUME \A t \in Small :
    LET f == GenerateTopo(t)
    IN /\ Mentioned(f) \subseteq f.nodes
       /\ Cardinality(f.nodes) = NodeNum(t)
       /\ (Cardinality(f.lines) = LinkNum(t)) <=> t[1] # "clos"
ASSUME ~(Mentioned(Trie(1, 2)) \subseteq Trie(1, 2).nodes)

(* Written and expected names of a sub-topology agree in a directory without *)
(* dots and only there.                                                      *)
ASSUME /\ WrittenName(<<"grid_2_2", "txt">>, "sub0") = SubTopoName(<<"grid_2_2", "txt">>, "sub0")
       /\ WrittenName(<<"v1", "0/grid_2_2", "txt">>, "sub0")
            # SubTopoName(<<"v1", "0/grid_2_2", "txt">>, "sub0")

(* On every graph of four ASes, for every set of seeds and every target: an  *)
(* expansion reaches its target unless all that is connected to the seeds is *)
(* taken; no link is invented; an expansion of at most one round keeps every *)
(* link between its ASes, but a longer one need not (a link to an AS added   *)
(* in a later round is missing at the earlier end).                          *)
Pairs4 == {{p[1], p[2]} : p \in {q \in (1 .. 4) \X (1 .. 4) : q[1] < q[2]}}
Graphs4 == {Relationships(S) : S \in SUBSET Pairs4 \ {{}}}
AllLinks(g, nodes) ==
    {Line(p[1], p[2], 0) : p \in {q \in nodes \X nodes : q[1] < q[2] /\ q[2] \in g[q[1]]}}
Complete(g, e) == SaveTopology(e).lines = AllLinks(g, DOMAIN e)

ASSUME \A g \in Graphs4 : \A seeds \in SUBSET DOMAIN g \ {{}} : \A target \in 1 .. 4 :
    \A e \in ExpandTopology(g, seeds, target) :
        /\ seeds \subseteq DOMAIN e
        /\ \/ Cardinality(DOMAIN e) = Max({target, Cardinality(seeds)})
           \/ Candidates(g, DOMAIN e) = {} /\ Cardinality(DOMAIN e) < target
        /\ SaveTopology(e).lines \subseteq AllLinks(g, DOMAIN e)
        /\ DOMAIN e \subseteq seeds \union Candidates(g, seeds) => Complete(g, e)
ASSUME \E e \in ExpandTopology(Path, {1}, 3) : ~Complete(Path, e)
ASSUME \A e \in ExpandTopology(Path, {4}, 3) : Complete(Path, e)

(* Pruning keeps every link between the ASes it keeps, may go below its      *)
(* target and has a result unless a component of two ASes is met.            *)
ASSUME \A g \in Graphs4 : \A target \in 0 .. 4 :
    \A kept \in PruneTopology(g, target) :
        Cardinality(DOMAIN kept) <= target /\ Complete(g, kept)
ASSUME PruneTopology(Square, 3) = {[a \in {} |-> {}]}
ASSUME PruneTopology(Relationships({{1, 2}, {3, 4}}), 2) = {}
=============================================================================
