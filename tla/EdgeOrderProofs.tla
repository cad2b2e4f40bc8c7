-------------------------- MODULE EdgeOrderProofs --------------------------
(***************************************************************************)
(* Theorems about EdgeOrder, for every algorithm and every finite graph,   *)
(* however ties are broken.                                                *)
(***************************************************************************)
EXTENDS EdgeOrder, FiniteSetTheorems, SequenceTheorems, TLAPS

\* The nodes taken up to position i, and the list of n if it is taken next.
Taken(i) == {nodeOrder[k] : k \in 1..i}
NextList(n) ==
    IF algorithm = "naive" THEN {x \in Links : selectedNodes \cup {n} = Nodes}
    ELSE {x \in Links : n \in LocalEnds(x) /\ LocalEnds(x) \subseteq selectedNodes \cup {n}}

-----------------------------------------------------------------------------
\* A link has one or two ends on this server, all of them nodes.
LEMMA EndsAreNodes ==
    ASSUME TypeOK, NEW x \in Links
    PROVE  \E u, v \in Nodes : LocalEnds(x) = {u, v}
<1>1. CASE x \in Edges
  <2>1. PICK u \in Nodes, v \in Nodes : ends[x] = {u, v}
      BY <1>1, GraphAssumption DEF TypeOK
  <2>. QED  BY <1>1, <2>1 DEF LocalEnds
<1>2. CASE x \notin Edges
  <2>1. x \in Dangling /\ Home[x] \in Nodes
      BY <1>2, GraphAssumption DEF Links
  <2>. QED  BY <1>2, <2>1 DEF LocalEnds
<1>. QED  BY <1>1, <1>2

LEMMA LinksFinite ==
    ASSUME NEW S \in SUBSET Links
    PROVE  IsFiniteSet(S) /\ Cardinality(S) \in Nat
<1>1. IsFiniteSet(Links)
    BY GraphAssumption, FS_Union DEF Links
<1>2. IsFiniteSet(S)
    BY <1>1, FS_Subset
<1>. QED  BY <1>2, FS_CardinalityType

LEMMA DisjointUnion ==
    ASSUME NEW S, IsFiniteSet(S), NEW T, IsFiniteSet(T), S \cap T = {}
    PROVE  Cardinality(S \cup T) = Cardinality(S) + Cardinality(T)
<1>1. Cardinality(S \cup T) = Cardinality(S) + Cardinality(T) - Cardinality(S \cap T)
    BY FS_Union
<1>2. Cardinality(S \cap T) = 0
    BY FS_EmptySet
<1>3. Cardinality(S) \in Nat /\ Cardinality(T) \in Nat
    BY FS_CardinalityType
<1>. QED  BY <1>1, <1>2, <1>3

\* The list of the greedy loop holds the links that have their last end in n.
LEMMA EdgeSubsetIs ==
    ASSUME TypeOK, NEW n \in Nodes, algorithm # "naive"
    PROVE  EdgeSubset(n) = NextList(n)
<1>1. EdgesOf(n) \subseteq Edges /\ DanglingOf(n) \subseteq Dangling
    BY DEF EdgesOf, DanglingOf
<1>2. ASSUME NEW x \in Edges PROVE x \in EdgeSubset(n) <=> x \in NextList(n)
  <2>1. x \notin DanglingOf(n) /\ x \in Links
      BY <1>1, GraphAssumption DEF Links
  <2>. QED  BY <2>1 DEF EdgeSubset, NextList, EdgesOf, LocalEnds
<1>3. ASSUME NEW x \in Dangling PROVE x \in EdgeSubset(n) <=> x \in NextList(n)
  <2>1. x \notin Edges /\ x \notin EdgesOf(n) /\ x \in Links
      BY <1>1, GraphAssumption DEF Links
  <2>2. LocalEnds(x) = {Home[x]}
      BY <2>1 DEF LocalEnds
  <2>. QED  BY <2>1, <2>2 DEF EdgeSubset, NextList, DanglingOf
<1>4. EdgeSubset(n) \subseteq Links /\ NextList(n) \subseteq Links
    BY <1>1 DEF EdgeSubset, NextList, Links
<1>. QED  BY <1>2, <1>3, <1>4 DEF Links

-----------------------------------------------------------------------------
(* The invariant. *)

LEMMA InitOrderInv == Init => OrderInv
<1>. SUFFICES ASSUME Init PROVE OrderInv
    OBVIOUS
<1>. USE DEF Init
<1>1. ASSUME NEW n \in Nodes PROVE InitContribution(n) \in Int
  <2>1. EdgesOf(n) \in SUBSET Links /\ DanglingOf(n) \in SUBSET Links
      BY DEF EdgesOf, DanglingOf, Links
  <2>2. Cardinality(EdgesOf(n)) \in Nat /\ Cardinality(DanglingOf(n)) \in Nat
      BY <2>1, LinksFinite
  <2>3. CASE algorithm = "dynamic"
      BY <2>2, <2>3 DEF InitContribution
  <2>4. CASE algorithm \in {"degree", "weighted_dynamic"}
      BY <2>2, <2>4 DEF InitContribution
  <2>5. CASE algorithm \in {"naive", "best_weighted_dynamic"}
      BY <2>5 DEF InitContribution
  <2>. QED  BY <2>3, <2>4, <2>5 DEF Algorithms
<1>2. Len(nodeOrder) = 0 /\ Len(edgeOrder) = 0 /\ Len(curEdgeNumSeq) = 0
    OBVIOUS
<1>3. TypeOK
    BY <1>1, <1>2 DEF TypeOK
<1>. QED  BY <1>2, <1>3 DEF OrderInv

\* Taking one more node with the list that is due to it.
LEMMA TakeInv ==
    ASSUME OrderInv, NEW n \in Nodes \ selectedNodes,
           Take(n, NextList(n)), contribution' \in [Nodes -> Int]
    PROVE  OrderInv'
<1>0. PICK L \in Nat : L = Len(nodeOrder)
    BY LenProperties DEF OrderInv, TypeOK
<1>1. /\ nodeOrder \in Seq(Nodes) /\ edgeOrder \in Seq(SUBSET Links) /\ curEdgeNumSeq \in Seq(Nat)
      /\ L \in Nat /\ Len(nodeOrder) = L /\ Len(edgeOrder) = L /\ Len(curEdgeNumSeq) = L
    BY <1>0 DEF OrderInv, TypeOK
<1>2. NextList(n) \in SUBSET Links
    BY DEF NextList
<1>3. /\ algorithm' = algorithm /\ ends' = ends
      /\ nodeOrder' \in Seq(Nodes) /\ Len(nodeOrder') = L + 1
      /\ nodeOrder'[L + 1] = n
      /\ \A i \in 1..L : nodeOrder'[i] = nodeOrder[i]
    BY <1>1, AppendProperties DEF Take
<1>4. /\ edgeOrder' \in Seq(SUBSET Links) /\ Len(edgeOrder') = L + 1
      /\ edgeOrder'[L + 1] = NextList(n)
      /\ \A i \in 1..L : edgeOrder'[i] = edgeOrder[i]
    BY <1>1, <1>2, AppendProperties DEF Take
<1>range. \A i \in 1..(L + 1) : i \in 1..L \/ i = L + 1
    BY <1>1
<1>5. ASSUME NEW i \in 1..L PROVE Taken(i)' = Taken(i)
  <2>1. \A k \in 1..i : nodeOrder'[k] = nodeOrder[k]
      BY <1>1, <1>3
  <2>. QED  BY <2>1 DEF Taken
<1>6. selectedNodes = Taken(L) /\ Taken(L + 1)' = selectedNodes \cup {n}
  <2>1. selectedNodes = Taken(L)
      BY <1>0 DEF selectedNodes, Taken
  <2>2. L + 1 \in 1..(L + 1) /\ \A k \in 1..L : k \in 1..(L + 1)
      BY <1>1
  <2>3. ASSUME NEW m \in selectedNodes \cup {n} PROVE m \in Taken(L + 1)'
    <3>1. CASE m = n
        BY <1>3, <2>2, <3>1 DEF Taken
    <3>2. CASE m \in selectedNodes
      <4>1. PICK k \in 1..L : m = nodeOrder[k]
          BY <1>1, <3>2 DEF selectedNodes
      <4>. QED  BY <1>3, <2>2, <4>1 DEF Taken
    <3>. QED  BY <3>1, <3>2
  <2>4. ASSUME NEW m \in Taken(L + 1)' PROVE m \in selectedNodes \cup {n}
    <3>1. PICK k \in 1..(L + 1) : m = nodeOrder'[k]
        BY DEF Taken
    <3>. QED  BY <1>1, <1>3, <1>range, <3>1 DEF selectedNodes
  <2>. QED  BY <2>1, <2>3, <2>4
<1>7. \A i, j \in 1..(L + 1) : nodeOrder'[i] = nodeOrder'[j] => i = j
  <2>1. \A i \in 1..L : nodeOrder'[i] \in selectedNodes
      BY <1>1, <1>3 DEF selectedNodes
  <2>2. \A i \in 1..L : nodeOrder'[i] # nodeOrder'[L + 1]
      BY <1>3, <2>1
  <2>3. \A i, j \in 1..L : nodeOrder'[i] = nodeOrder'[j] => i = j
      BY <1>1, <1>3 DEF OrderInv
  <2>. QED  BY <1>range, <2>2, <2>3
<1>8. \A x \in Links : LocalEnds(x)' = LocalEnds(x)
    BY <1>3 DEF LocalEnds
<1>9. \A i \in 1..(L + 1) : edgeOrder'[i] = ListFor(i)'
  <2>1. ASSUME NEW i \in 1..L PROVE edgeOrder'[i] = ListFor(i)'
    <3>1. edgeOrder'[i] = ListFor(i)
        BY <1>1, <1>4 DEF OrderInv
    <3>2. ListFor(i)' = ListFor(i)
        BY <1>3, <1>5, <1>8 DEF ListFor, Taken
    <3>. QED  BY <3>1, <3>2
  <2>2. ListFor(L + 1)' = NextList(n)
    <3>1. {nodeOrder'[k] : k \in 1..(L + 1)} = selectedNodes \cup {n}
        BY <1>6 DEF Taken
    <3>2. CASE algorithm = "naive"
        BY <1>3, <3>1, <3>2 DEF ListFor, NextList
    <3>3. CASE algorithm # "naive"
        BY <1>3, <1>8, <3>1, <3>3 DEF ListFor, NextList
    <3>. QED  BY <3>2, <3>3
  <2>. QED  BY <1>range, <1>4, <2>1, <2>2
<1>10. Covered(L) \in SUBSET Links /\ NextList(n) \cap Covered(L) = {}
  <2>1. ASSUME NEW x \in NextList(n), NEW k \in 1..L, x \in edgeOrder[k] PROVE FALSE
    <3>1. x \in ListFor(k) /\ nodeOrder[k] \in selectedNodes
        BY <1>1, <2>1 DEF OrderInv, selectedNodes
    <3>2. Taken(k) \subseteq selectedNodes
        BY <1>1 DEF Taken, selectedNodes
    <3>3. CASE algorithm = "naive"
        BY <3>1, <3>2, <3>3 DEF ListFor, Taken
    <3>4. CASE algorithm # "naive"
        BY <3>1, <3>2, <3>4 DEF ListFor, Taken, NextList
    <3>. QED  BY <3>3, <3>4
  <2>. QED  BY <2>1 DEF Covered
<1>11. ASSUME NEW i \in 1..L PROVE Covered(i)' = Covered(i)
  <2>1. \A k \in 1..i : edgeOrder'[k] = edgeOrder[k]
      BY <1>1, <1>4
  <2>. QED  BY <2>1 DEF Covered
<1>12. Covered(L + 1)' = Covered(L) \cup NextList(n)
  <2>1. L + 1 \in 1..(L + 1) /\ \A k \in 1..L : k \in 1..(L + 1)
      BY <1>1
  <2>2. ASSUME NEW x \in Links
        PROVE  (\E k \in 1..(L + 1) : x \in edgeOrder'[k])
                   <=> (\E k \in 1..L : x \in edgeOrder[k]) \/ x \in NextList(n)
      BY <1>4, <1>range, <2>1
  <2>. QED  BY <1>2, <2>2 DEF Covered
<1>13. curEdgeNum = Cardinality(Covered(L))
  <2>1. CASE L = 0
    <3>1. Covered(L) = {} /\ curEdgeNumSeq = <<>>
        BY <1>1, <2>1 DEF Covered
    <3>. QED  BY <3>1, FS_EmptySet DEF curEdgeNum
  <2>2. CASE L # 0
      BY <1>1, <2>2 DEF curEdgeNum, OrderInv
  <2>. QED  BY <2>1, <2>2
<1>14. curEdgeNum + NumListed(NextList(n)) = Cardinality(Covered(L + 1)')
  <2>1. IsFiniteSet(Covered(L)) /\ IsFiniteSet(NextList(n))
      BY <1>2, <1>10, LinksFinite
  <2>2. Covered(L) \cap NextList(n) = {}
      BY <1>10
  <2>3. Cardinality(Covered(L) \cup NextList(n)) = Cardinality(Covered(L)) + Cardinality(NextList(n))
      BY <2>1, <2>2, DisjointUnion
  <2>. QED  BY <1>12, <1>13, <2>3 DEF NumListed
<1>15. curEdgeNum + NumListed(NextList(n)) \in Nat
    BY <1>2, <1>10, <1>13, LinksFinite DEF NumListed
<1>16. /\ curEdgeNumSeq' \in Seq(Nat) /\ Len(curEdgeNumSeq') = L + 1
       /\ curEdgeNumSeq'[L + 1] = curEdgeNum + NumListed(NextList(n))
       /\ \A i \in 1..L : curEdgeNumSeq'[i] = curEdgeNumSeq[i]
    BY <1>1, <1>15, AppendProperties DEF Take
<1>17. \A i \in 1..(L + 1) : curEdgeNumSeq'[i] = Cardinality(Covered(i)')
  <2>1. \A i \in 1..L : curEdgeNumSeq'[i] = Cardinality(Covered(i)')
      BY <1>1, <1>11, <1>16 DEF OrderInv
  <2>. QED  BY <1>range, <1>14, <1>16, <2>1
<1>18. TypeOK'
    BY <1>3, <1>4, <1>16 DEF TypeOK, OrderInv
<1>. QED  BY <1>3, <1>7, <1>9, <1>17, <1>18 DEF OrderInv

LEMMA StepOrderInv == OrderInv /\ [Next]_vars => OrderInv'
<1>. SUFFICES ASSUME OrderInv, [Next]_vars PROVE OrderInv'
    OBVIOUS
<1>0. TypeOK
    BY DEF OrderInv
<1>1. ASSUME NEW n \in Nodes, SelectNode(n) PROVE OrderInv'
  <2>1. algorithm # "naive" /\ n \in Nodes \ selectedNodes /\ Take(n, NextList(n))
      BY <1>0, <1>1, EdgeSubsetIs DEF SelectNode
  <2>2. ASSUME NEW m \in Nodes PROVE Cardinality(EdgesBetween(n, m)) \in Nat
    <3>1. EdgesBetween(n, m) \in SUBSET Links
        BY DEF EdgesBetween, Links
    <3>. QED  BY <3>1, LinksFinite
  <2>3. \A m \in Nodes : contribution[m] \in Int
      BY <1>0 DEF TypeOK
  <2>4. NewContribution(n) \in [Nodes -> Int]
      BY <2>2, <2>3 DEF NewContribution
  <2>5. contribution' \in [Nodes -> Int]
      BY <1>1, <2>4 DEF SelectNode
  <2>. QED  BY <2>1, <2>5, TakeInv
<1>2. ASSUME NEW n \in Nodes, NaiveNode(n) PROVE OrderInv'
  <2>1. n \in Nodes \ selectedNodes /\ Take(n, NextList(n))
    <3>1. NextList(n) = IF selectedNodes \cup {n} = Nodes THEN Links ELSE {}
        BY <1>2 DEF NaiveNode, NextList
    <3>. QED  BY <1>2, <3>1 DEF NaiveNode
  <2>2. contribution' \in [Nodes -> Int]
      BY <1>0, <1>2 DEF NaiveNode, TypeOK
  <2>. QED  BY <2>1, <2>2, TakeInv
<1>3. CASE UNCHANGED vars
  <2>. USE <1>3 DEF vars
  <2>1. TypeOK'
      BY <1>0 DEF TypeOK
  <2>2. \A x : LocalEnds(x)' = LocalEnds(x)
      BY DEF LocalEnds
  <2>3. \A i : ListFor(i)' = ListFor(i) /\ Covered(i)' = Covered(i)
      BY <2>2 DEF ListFor, Covered
  <2>. QED  BY <2>1, <2>3 DEF OrderInv
<1>. QED  BY <1>1, <1>2, <1>3 DEF Next, Terminated

\* The invariant holds in every state of every run of every algorithm.
THEOREM OrderInvariant == Spec => []OrderInv
<1>. QED  BY InitOrderInv, StepOrderInv, PTL DEF Spec

\* Types: orders, lists and counts stay in step.
THEOREM TypeCorrect == Spec => []TypeOK
<1>1. OrderInv => TypeOK
    BY DEF OrderInv
<1>. QED  BY <1>1, OrderInvariant, PTL

-----------------------------------------------------------------------------
(* What follows from the invariant. *)

\* A link of the list at i has its ends among the nodes up to i, and is due
\* there only.
LEMMA ListedEnds ==
    ASSUME OrderInv, NEW i \in 1..Len(nodeOrder), NEW x \in edgeOrder[i]
    PROVE  /\ x \in Links
           /\ LocalEnds(x) \subseteq Taken(i)
           /\ \/ algorithm = "naive" /\ Taken(i) = Nodes
              \/ algorithm # "naive" /\ nodeOrder[i] \in LocalEnds(x)
<1>1. x \in ListFor(i)
    BY DEF OrderInv
<1>2. x \in Links
    BY <1>1 DEF ListFor
<1>3. TypeOK
    BY DEF OrderInv
<1>4. LocalEnds(x) \subseteq Nodes
    BY <1>2, <1>3, EndsAreNodes
<1>. QED  BY <1>1, <1>2, <1>4 DEF ListFor, Taken

\* Set up in this order, a link never comes before one of its nodes.
THEOREM NodesFirst == Spec => []NodesComeFirst
<1>1. OrderInv => NodesComeFirst
  <2>. SUFFICES ASSUME OrderInv, NEW i \in 1..Len(edgeOrder), NEW x \in edgeOrder[i]
                PROVE  LocalEnds(x) \subseteq {nodeOrder[k] : k \in 1..i}
      BY DEF NodesComeFirst
  <2>1. i \in 1..Len(nodeOrder)
      BY DEF OrderInv, TypeOK
  <2>. QED  BY <2>1, ListedEnds DEF Taken
<1>. QED  BY <1>1, OrderInvariant, PTL

\* Two lists share no link.
LEMMA ListsDisjoint ==
    ASSUME OrderInv, NEW i \in 1..Len(nodeOrder), NEW j \in 1..Len(nodeOrder), i < j
    PROVE  edgeOrder[i] \cap edgeOrder[j] = {}
<1>. SUFFICES ASSUME NEW x \in edgeOrder[i], x \in edgeOrder[j] PROVE FALSE
    OBVIOUS
<1>1. nodeOrder \in Seq(Nodes) /\ Len(nodeOrder) \in Nat /\ nodeOrder[j] \in Nodes
    BY ElementOfSeq DEF OrderInv, TypeOK
<1>2. nodeOrder[j] \in Taken(i)
    BY <1>1, ListedEnds
<1>3. PICK k \in 1..i : nodeOrder[k] = nodeOrder[j]
    BY <1>2 DEF Taken
<1>4. k \in 1..Len(nodeOrder) /\ k # j
    BY <1>1, <1>3
<1>. QED  BY <1>3, <1>4 DEF OrderInv

\* When all nodes are taken, every link is in a list.
LEMMA AllCovered ==
    ASSUME OrderInv, selectedNodes = Nodes, NEW x \in Links
    PROVE  \E i \in 1..Len(nodeOrder) : x \in edgeOrder[i]
<1>. DEFINE L == Len(nodeOrder)
<1>1. TypeOK /\ nodeOrder \in Seq(Nodes) /\ L \in Nat
    BY DEF OrderInv, TypeOK
<1>2. PICK u \in Nodes, v \in Nodes : LocalEnds(x) = {u, v}
    BY <1>1, EndsAreNodes
<1>3. PICK p \in 1..L, q \in 1..L : nodeOrder[p] = u /\ nodeOrder[q] = v
    BY DEF selectedNodes
<1>4. CASE algorithm = "naive"
  <2>1. L \in 1..L
      BY <1>1, <1>3
  <2>all. {nodeOrder[k] : k \in 1..L} = Nodes
      BY DEF selectedNodes
  <2>2. x \in ListFor(L)
      BY <1>4, <2>all DEF ListFor
  <2>. QED  BY <2>1, <2>2 DEF OrderInv
<1>5. CASE algorithm # "naive"
  <2>1. PICK i \in {p, q} : p <= i /\ q <= i
      BY <1>1
  <2>2. i \in 1..L /\ p \in 1..i /\ q \in 1..i
      BY <1>1, <2>1
  <2>3. nodeOrder[i] \in LocalEnds(x) /\ LocalEnds(x) \subseteq Taken(i)
      BY <1>2, <1>3, <2>1, <2>2 DEF Taken
  <2>4. x \in ListFor(i)
      BY <1>5, <2>3 DEF ListFor, Taken
  <2>. QED  BY <2>2, <2>4 DEF OrderInv
<1>. QED  BY <1>4, <1>5

\* Every node once, every link in exactly one list: the order is a plan for
\* the whole graph.
THEOREM PlanIsComplete == Spec => []EachLinkOnce
<1>1. OrderInv => EachLinkOnce
  <2>. SUFFICES ASSUME OrderInv PROVE EachLinkOnce
      OBVIOUS
  <2>1. Len(nodeOrder) \in Nat /\ Len(edgeOrder) = Len(nodeOrder)
      BY DEF OrderInv, TypeOK
  <2>2. \A i, j \in 1..Len(nodeOrder) : nodeOrder[i] = nodeOrder[j] => i = j
      BY DEF OrderInv
  <2>3. ASSUME NEW i \in 1..Len(nodeOrder), NEW j \in 1..Len(nodeOrder), i # j
        PROVE  edgeOrder[i] \cap edgeOrder[j] = {}
    <3>1. CASE i < j
        BY <3>1, ListsDisjoint
    <3>2. CASE j < i
        BY <3>2, ListsDisjoint
    <3>. QED  BY <2>1, <2>3, <3>1, <3>2
  <2>4. selectedNodes = Nodes =>
            \A x \in Links : \E i \in 1..Len(nodeOrder) : x \in edgeOrder[i]
      BY AllCovered
  <2>. QED  BY <2>1, <2>2, <2>3, <2>4 DEF EachLinkOnce
<1>. QED  BY <1>1, OrderInvariant, PTL

\* The count that the set-up divides by and the number of links it is given
\* are one number.
THEOREM CountsAgree == Spec => []CountAgrees
<1>1. OrderInv => CountAgrees
  <2>. SUFFICES ASSUME OrderInv, selectedNodes = Nodes
                PROVE  curEdgeNum = Cardinality(Links)
      BY DEF CountAgrees
  <2>. DEFINE L == Len(nodeOrder)
  <2>1. curEdgeNumSeq \in Seq(Nat) /\ Len(curEdgeNumSeq) = L /\ L \in Nat
      BY DEF OrderInv, TypeOK
  <2>2. L # 0
      BY GraphAssumption, <2>1 DEF selectedNodes
  <2>3. curEdgeNum = Cardinality(Covered(L))
      BY <2>1, <2>2 DEF curEdgeNum, OrderInv
  <2>4. Covered(L) = Links
      BY AllCovered DEF Covered
  <2>. QED  BY <2>3, <2>4
<1>. QED  BY <1>1, OrderInvariant, PTL

-----------------------------------------------------------------------------
(* The greedy choice of the dynamic order. *)

\* What is in the heap is what a node would add.
GainInv == algorithm = "dynamic" =>
               \A m \in Nodes \ selectedNodes : contribution[m] = Gain(m)

LEMMA EdgeSubsetInLinks ==
    ASSUME NEW m \in Nodes
    PROVE  EdgeSubset(m) \in SUBSET Links
BY DEF EdgeSubset, EdgesOf, DanglingOf, Links

LEMMA InitGainInv == Init => GainInv
<1>. SUFFICES ASSUME Init, algorithm = "dynamic", NEW m \in Nodes \ selectedNodes
              PROVE  contribution[m] = Gain(m)
    BY DEF GainInv
<1>1. TypeOK
    BY InitOrderInv DEF OrderInv
<1>2. selectedNodes = {}
    BY DEF Init, selectedNodes
<1>3. ASSUME NEW e \in EdgesOf(m), ends[e] \subseteq {m} PROVE FALSE
  <2>1. \E u, v \in Nodes : u # v /\ ends[e] = {u, v}
      BY <1>1, GraphAssumption DEF EdgesOf, TypeOK
  <2>. QED  BY <1>3, <2>1
<1>4. EdgeSubset(m) = DanglingOf(m)
    BY <1>2, <1>3 DEF EdgeSubset
<1>. QED  BY <1>4 DEF Init, InitContribution, Gain

\* Taking n adds to the gain of m the edges between them, each counted once.
LEMMA SelectGain ==
    ASSUME TypeOK, GainInv, algorithm = "dynamic", NEW n \in Nodes, SelectNode(n),
           NEW m \in Nodes, m \notin selectedNodes'
    PROVE  contribution'[m] = Gain(m)'
<1>1. PICK L \in Nat : L = Len(nodeOrder)
    BY LenProperties DEF TypeOK
<1>2. /\ Len(nodeOrder') = L + 1 /\ nodeOrder'[L + 1] = n
      /\ \A i \in 1..L : nodeOrder'[i] = nodeOrder[i]
    BY <1>1, AppendProperties DEF TypeOK, SelectNode, Take
<1>3. /\ L + 1 \in 1..(L + 1) /\ \A k \in 1..L : k \in 1..(L + 1)
      /\ \A k \in 1..(L + 1) : k \in 1..L \/ k = L + 1
    OBVIOUS
<1>4. selectedNodes' = selectedNodes \cup {n}
  <2>1. ASSUME NEW x \in selectedNodes \cup {n} PROVE x \in selectedNodes'
      BY <1>1, <1>2, <1>3 DEF selectedNodes
  <2>2. ASSUME NEW x \in selectedNodes' PROVE x \in selectedNodes \cup {n}
      BY <1>1, <1>2, <1>3 DEF selectedNodes
  <2>. QED  BY <2>1, <2>2
<1>5. n \notin selectedNodes /\ m # n /\ m \notin selectedNodes
      /\ algorithm' = algorithm /\ ends' = ends
    BY <1>4 DEF SelectNode, Take
<1>6. EdgesBetween(n, m) \in SUBSET Links
    BY DEF EdgesBetween, Links
<1>7. EdgeSubset(m)' = EdgeSubset(m) \cup EdgesBetween(n, m)
  <2>1. EdgesOf(m)' = EdgesOf(m) /\ DanglingOf(m)' = DanglingOf(m)
      BY <1>5 DEF EdgesOf, DanglingOf
  <2>2. ASSUME NEW e \in EdgesOf(m)
        PROVE  ends[e] \subseteq selectedNodes' \cup {m}
                   <=> ends[e] \subseteq selectedNodes \cup {m} \/ e \in EdgesBetween(n, m)
    <3>1. PICK u \in Nodes, v \in Nodes : u # v /\ ends[e] = {u, v}
        BY GraphAssumption DEF EdgesOf, TypeOK
    <3>2. m \in {u, v} /\ e \in Edges
        BY <3>1 DEF EdgesOf
    <3>. QED  BY <1>4, <1>5, <3>1, <3>2 DEF EdgesBetween
  <2>3. EdgesBetween(n, m) \subseteq EdgesOf(m)
      BY DEF EdgesBetween, EdgesOf
  <2>. QED  BY <1>5, <2>1, <2>2, <2>3 DEF EdgeSubset
<1>8. EdgeSubset(m) \cap EdgesBetween(n, m) = {}
  <2>1. EdgesBetween(n, m) \cap DanglingOf(m) = {}
      BY GraphAssumption DEF EdgesBetween, DanglingOf
  <2>. QED  BY <1>5, <2>1 DEF EdgeSubset, EdgesBetween
<1>9. Cardinality(EdgeSubset(m)') = Cardinality(EdgeSubset(m)) + Cardinality(EdgesBetween(n, m))
  <2>1. IsFiniteSet(EdgeSubset(m)) /\ IsFiniteSet(EdgesBetween(n, m))
      BY <1>6, EdgeSubsetInLinks, LinksFinite
  <2>. QED  BY <1>7, <1>8, <2>1, DisjointUnion
<1>10. contribution'[m] = contribution[m] + Cardinality(EdgesBetween(n, m))
  <2>1. contribution[m] \in Int /\ Cardinality(EdgesBetween(n, m)) \in Nat
      BY <1>6, LinksFinite DEF TypeOK
  <2>. QED  BY <1>5, <2>1 DEF SelectNode, NewContribution
<1>11. contribution[m] = Cardinality(EdgeSubset(m))
    BY <1>5 DEF GainInv, Gain
<1>. QED  BY <1>9, <1>10, <1>11 DEF Gain

LEMMA StepGainInv == TypeOK /\ GainInv /\ [Next]_vars => GainInv'
<1>. SUFFICES ASSUME TypeOK, GainInv, [Next]_vars, algorithm' = "dynamic",
                     NEW m \in Nodes, m \notin selectedNodes'
              PROVE  contribution'[m] = Gain(m)'
    BY DEF GainInv
<1>1. ASSUME NEW n \in Nodes, SelectNode(n) PROVE contribution'[m] = Gain(m)'
  <2>1. algorithm = "dynamic"
      BY <1>1 DEF SelectNode, Take
  <2>. QED  BY <1>1, <2>1, SelectGain
<1>2. ASSUME NEW n \in Nodes, NaiveNode(n) PROVE FALSE
    BY <1>2 DEF NaiveNode, Take
<1>3. CASE UNCHANGED vars
  <2>1. m \notin selectedNodes /\ algorithm = "dynamic" /\ contribution' = contribution
      BY <1>3 DEF vars, selectedNodes
  <2>2. Gain(m)' = Gain(m)
      BY <1>3 DEF vars, Gain, EdgeSubset, EdgesOf, DanglingOf, selectedNodes
  <2>. QED  BY <2>1, <2>2 DEF GainInv
<1>. QED  BY <1>1, <1>2, <1>3 DEF Next, Terminated

\* The dynamic order never takes a node when another would add more links.
THEOREM GreedyChoice == Spec => TakesBest
<1>1. TypeOK /\ GainInv /\ [Next]_vars =>
          [algorithm = "dynamic" /\ nodeOrder' # nodeOrder =>
              \A n \in Nodes \ selectedNodes :
                  Gain(n) <= Cardinality(edgeOrder'[Len(edgeOrder')])]_vars
  <2>. SUFFICES ASSUME TypeOK, GainInv, Next, algorithm = "dynamic", nodeOrder' # nodeOrder,
                       NEW m \in Nodes \ selectedNodes
                PROVE  Gain(m) <= Cardinality(edgeOrder'[Len(edgeOrder')])
      BY DEF vars
  <2>1. PICK n \in Nodes : SelectNode(n)
      BY DEF Next, Terminated, vars, NaiveNode
  <2>2. contribution[m] = Gain(m) /\ contribution[n] = Gain(n)
      BY <2>1 DEF GainInv, SelectNode
  <2>3. edgeOrder'[Len(edgeOrder')] = EdgeSubset(n)
    <3>1. edgeOrder \in Seq(SUBSET Links) /\ EdgeSubset(n) \in SUBSET Links
        BY EdgeSubsetInLinks DEF TypeOK
    <3>2. edgeOrder' = Append(edgeOrder, EdgeSubset(n))
        BY <2>1 DEF SelectNode, Take
    <3>. QED  BY <3>1, <3>2, AppendProperties
  <2>4. contribution[n] >= contribution[m]
      BY <2>1 DEF SelectNode
  <2>5. Gain(m) \in Nat /\ Gain(n) \in Nat
      BY EdgeSubsetInLinks, LinksFinite DEF Gain
  <2>6. Gain(m) <= Gain(n)
      BY <2>2, <2>4, <2>5
  <2>. QED  BY <2>3, <2>6 DEF Gain
<1>2. OrderInv => TypeOK
    BY DEF OrderInv
<1>. QED  BY <1>1, <1>2, OrderInvariant, InitGainInv, StepGainInv, PTL DEF Spec, TakesBest
=============================================================================
