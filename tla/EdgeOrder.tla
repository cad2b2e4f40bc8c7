------------------------------ MODULE EdgeOrder ------------------------------
(***************************************************************************)
(* agent/code/algo: the orders in which an agent sets up nodes and links.  *)
(* All algorithms but the naive one are one greedy loop: take a node of    *)
(* highest contribution, put its links to the nodes taken before and its   *)
(* links to other servers into its list, and adjust the contributions of   *)
(* the other neighbours.  They differ in the first contributions and in    *)
(* the sign of the adjustment.  Nodes of equal contribution come in any    *)
(* order: the map of nodes is traversed in a random one.                   *)
(***************************************************************************)
EXTENDS Integers, FiniteSets, Sequences

CONSTANTS Nodes,     \* keys of AdjacencyList
          Edges,     \* internal edges; several may join the same two nodes
          Dangling,  \* edges to other servers
          Home,      \* Home[d]: the node of this server that d belongs to
          Graphs     \* the graphs to consider: the two ends of every edge

ASSUME GraphAssumption ==
    /\ IsFiniteSet(Nodes) /\ Nodes # {}
    /\ IsFiniteSet(Edges) /\ IsFiniteSet(Dangling)
    /\ Edges \cap Dangling = {}
    /\ Home \in [Dangling -> Nodes]
    \* The coordinator writes no link of a node to itself (fmt_util.py:86).
    /\ \A g \in Graphs : /\ g \in [Edges -> SUBSET Nodes]
                         /\ \A e \in Edges : \E u, v \in Nodes : u # v /\ g[e] = {u, v}

Links == Edges \cup Dangling

Algorithms == {"naive", "degree", "dynamic", "weighted_dynamic", "best_weighted_dynamic"}

VARIABLES algorithm,      \* the option -a
          ends,           \* ends[e]: the nodes e joins
          contribution,   \* contribution[n], of the nodes still in the heap
          nodeOrder,      \* the nodes taken
          edgeOrder,      \* edgeOrder[i]: the links listed for nodeOrder[i]
          curEdgeNumSeq   \* curEdgeNumSeq[i]: links in the lists up to i

vars == <<algorithm, ends, contribution, nodeOrder, edgeOrder, curEdgeNumSeq>>

selectedNodes == {nodeOrder[i] : i \in 1..Len(nodeOrder)}

EdgesOf(n) == {e \in Edges : n \in ends[e]}
DanglingOf(n) == {d \in Dangling : Home[d] = n}
EdgesBetween(n, m) == {e \in Edges : ends[e] = {n, m}}

\* The ends of a link on this server.
LocalEnds(x) == IF x \in Edges THEN ends[x] ELSE {Home[x]}

-----------------------------------------------------------------------------
\* What a node is worth before any is taken.
InitContribution(n) ==
    CASE algorithm = "dynamic" -> Cardinality(DanglingOf(n))
      [] algorithm \in {"degree", "weighted_dynamic"} ->
             Cardinality(EdgesOf(n)) + Cardinality(DanglingOf(n))
      [] OTHER -> 0

Init == /\ algorithm \in Algorithms
        /\ ends \in Graphs
        /\ contribution = [n \in Nodes |-> InitContribution(n)]
        /\ nodeOrder = <<>>
        /\ edgeOrder = <<>>
        /\ curEdgeNumSeq = <<>>

\* Faulty variant: every link of the node, to nodes taken before or not.
EdgeSubsetAll(n) == EdgesOf(n) \cup DanglingOf(n)

\* Faulty variant: the links to the nodes that are still to be taken.
EdgeSubsetEarly(n) ==
    {e \in EdgesOf(n) : \E m \in ends[e] \ {n} : m \notin selectedNodes} \cup DanglingOf(n)

\* The links listed for n: to nodes taken before, and to other servers.
EdgeSubset(n) ==
    {e \in EdgesOf(n) : ends[e] \subseteq selectedNodes \cup {n}} \cup DanglingOf(n)

\* Faulty variant: the neighbours keep what they were worth.
NewContributionStale(n) == contribution

\* The neighbours not yet taken lose ("degree") or gain one for each edge.
NewContribution(n) ==
    LET step == IF algorithm = "degree" THEN -1 ELSE 1
    IN  [m \in Nodes |->
            IF m = n \/ m \in selectedNodes THEN contribution[m]
            ELSE contribution[m] + step * Cardinality(EdgesBetween(n, m))]

curEdgeNum == IF curEdgeNumSeq = <<>> THEN 0 ELSE curEdgeNumSeq[Len(curEdgeNumSeq)]

\* Faulty variant: the links to other servers are not counted.
NumListedInternal(set) == Cardinality(set \cap Edges)

NumListed(set) == Cardinality(set)

\* n is taken, with the list of links `set`.
Take(n, set) ==
    /\ nodeOrder' = Append(nodeOrder, n)
    /\ edgeOrder' = Append(edgeOrder, set)
    /\ curEdgeNumSeq' = Append(curEdgeNumSeq, curEdgeNum + NumListed(set))
    /\ UNCHANGED <<algorithm, ends>>

\* One round of the greedy loop: heap.Pop and what follows.
SelectNode(n) ==
    /\ algorithm # "naive"
    /\ n \notin selectedNodes
    /\ \A m \in Nodes \ selectedNodes : contribution[n] >= contribution[m]
    /\ Take(n, EdgeSubset(n))
    /\ contribution' = NewContribution(n)

\* NaiveOrder: the nodes in any order; all links in the list of the last one.
NaiveNode(n) ==
    /\ algorithm = "naive"
    /\ n \notin selectedNodes
    /\ Take(n, IF selectedNodes \cup {n} = Nodes THEN Links ELSE {})
    /\ UNCHANGED contribution

Terminated == selectedNodes = Nodes /\ UNCHANGED vars

Next == (\E n \in Nodes : SelectNode(n) \/ NaiveNode(n)) \/ Terminated

Spec == Init /\ [][Next]_vars
-----------------------------------------------------------------------------
(* Properties. *)

TypeOK == /\ algorithm \in Algorithms
          /\ ends \in Graphs
          /\ contribution \in [Nodes -> Int]
          /\ nodeOrder \in Seq(Nodes)
          /\ edgeOrder \in Seq(SUBSET Links)
          /\ Len(edgeOrder) = Len(nodeOrder)
          /\ curEdgeNumSeq \in Seq(Nat)
          /\ Len(curEdgeNumSeq) = Len(nodeOrder)

\* The order is a plan for the whole graph: every node is in it once and every
\* link, also each of several between two nodes, is in exactly one list. Each
\* heuristic lists an edge when it reaches its second end (degree.go:44).
EachLinkOnce ==
    /\ \A i, j \in 1..Len(nodeOrder) : nodeOrder[i] = nodeOrder[j] => i = j
    /\ \A i, j \in 1..Len(edgeOrder) : i # j => edgeOrder[i] \cap edgeOrder[j] = {}
    /\ selectedNodes = Nodes =>
           \A x \in Links : \E i \in 1..Len(edgeOrder) : x \in edgeOrder[i]

\* A link is listed only when its ends on this server have been taken: set up
\* in this order, a link never waits for a node (SetupLink needs both nodes).
NodesComeFirst ==
    \A i \in 1..Len(edgeOrder) : \A x \in edgeOrder[i] :
        LocalEnds(x) \subseteq {nodeOrder[k] : k \in 1..i}

\* The last count is the number of links that the set-up divides among the
\* backbone namespaces, GetEdgeNum (graph.go:71, netManage.go:63).
CountAgrees ==
    selectedNodes = Nodes => curEdgeNum = Cardinality(Links)

\* The links in the lists up to i.
Covered(i) == {x \in Links : \E k \in 1..i : x \in edgeOrder[k]}

\* The list that belongs to position i, by the nodes taken up to i.
ListFor(i) ==
    LET taken == {nodeOrder[k] : k \in 1..i}
    IN  IF algorithm = "naive" THEN {x \in Links : taken = Nodes}
        ELSE {x \in Links : nodeOrder[i] \in LocalEnds(x) /\ LocalEnds(x) \subseteq taken}

\* Inductive: each list is the one its position calls for, each count is the
\* number of links listed so far.
OrderInv == /\ TypeOK
            /\ \A i, j \in 1..Len(nodeOrder) : nodeOrder[i] = nodeOrder[j] => i = j
            /\ \A i \in 1..Len(nodeOrder) : edgeOrder[i] = ListFor(i)
            /\ \A i \in 1..Len(nodeOrder) : curEdgeNumSeq[i] = Cardinality(Covered(i))

\* What a node not yet taken would add to the links that can be set up.
Gain(n) == Cardinality(EdgeSubset(n))

\* The dynamic order takes a node that adds as many links as any other would
\* ("to maximize edges incrementally", dynamic.go:5): contributions kept up to
\* date in the heap are the true gains.
TakesBest ==
    [][algorithm = "dynamic" /\ nodeOrder' # nodeOrder =>
          \A n \in Nodes \ selectedNodes :
              Gain(n) <= Cardinality(edgeOrder'[Len(edgeOrder')])]_vars
=============================================================================
