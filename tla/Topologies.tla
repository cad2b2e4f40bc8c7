----------------------------- MODULE Topologies -----------------------------
(* The topology files of the coordinator: the generators of                  *)
(* coordinator/scripts/topo/ and the expected numbers of nodes and links in  *)
(* util/topo_util.py. A file holds a first line of nodes and one line per    *)
(* link; lines are a set, and a tag keeps lines with equal ends apart.       *)
EXTENDS Integers, FiniteSets, Sequences

Line(a, b, tag) == [from |-> a, to |-> b, tag |-> tag]
File(nodes, lines) == [nodes |-> nodes, lines |-> lines]

Isolated(n) == File(1 .. n, {})
SudoIsolated(l, n) == File(1 .. (n + 2), {Line(1, 2, t) : t \in 1 .. l})
Pairs(n) == File(1 .. (2 * n), {Line(2 * i - 1, 2 * i, 0) : i \in 1 .. n})
Chain(n) == File(1 .. n, {Line(i, i + 1, 0) : i \in 1 .. (n - 1)})
Star(n) == File(1 .. n, {Line(1, i, 0) : i \in 2 .. n})
FullMesh(n) ==
    File(1 .. n, {Line(p[1], p[2], 0) : p \in {q \in (1 .. n) \X (1 .. n) : q[1] < q[2]}})

(* A torus of x by y nodes, in which a side of length 2 gives two lines      *)
(* between the same nodes and a side of length 1 none.                       *)
Grid(x, y) ==
    LET Cells == (0 .. (x - 1)) \X (0 .. (y - 1))
        Id(i, j) == i * y + j + 1
        Right == {Line(Id(c[1], c[2]), Id(c[1], (c[2] + 1) % y), "right") : c \in Cells}
        Down == {Line(Id(c[1], c[2]), Id((c[1] + 1) % x, c[2]), "down") : c \in Cells}
    IN File({Id(c[1], c[2]) : c \in Cells},
            (IF y > 1 THEN Right ELSE {}) \union (IF x > 1 THEN Down ELSE {}))

(* Layer after layer, node c hangs below node (c - 2) \div k + 1. The loop   *)
(* always writes the line of node 2, also when n = 1 (and never ends when    *)
(* k = 1: k is at least 2 here).                                             *)
Trie(n, k) ==
    LET last == IF n > 1 THEN n ELSE 2
    IN File(1 .. n, {Line(c, (c - 2) \div k + 1, 0) : c \in 2 .. last})

(* A fat tree of k pods. Numbers are given to the leaves and spines of each  *)
(* pod, then to the superspines, then to the clients.                        *)
Clos(k) ==
    LET h == k \div 2
        Leaf(p, i) == (p - 1) * 2 * h + i
        Spine(p, i) == (p - 1) * 2 * h + h + i
        Super(i) == 2 * h * k + i
        Client(p, i, c) == 2 * h * k + h * h + ((p - 1) * h + i - 1) * h + c
        Slots == (1 .. k) \X (1 .. h) \X (1 .. h)
    IN File(1 .. (2 * h * k + h * h + k * h * h),
            {Line(Leaf(s[1], s[2]), Spine(s[1], s[3]), 0) : s \in Slots}
              \union {Line(Spine(s[1], s[2]), Super((s[2] - 1) * h + s[3]), 0) : s \in Slots}
              \union {Line(Client(s[1], s[2], s[3]), Leaf(s[1], s[2]), 0) : s \in Slots})

(* The generator named by the first argument is run with the others; the     *)
(* arguments name the file. That of "as" copies a file of coordinator/data/, *)
(* which stands here for its size.                                           *)
GenerateTopo(t) ==
    CASE t[1] = "isolated" -> Isolated(t[2])
      [] t[1] = "sudoisolated" -> SudoIsolated(t[2], t[3])
      [] t[1] = "pairs" -> Pairs(t[2])
      [] t[1] = "chain" -> Chain(t[2])
      [] t[1] = "star" -> Star(t[2])
      [] t[1] = "fullmesh" -> FullMesh(t[2])
      [] t[1] = "grid" -> Grid(t[2], t[3])
      [] t[1] = "trie" -> Trie(t[2], t[3])
      [] t[1] = "clos" -> Clos(t[2])
      [] t[1] = "as" -> t[2]

-----------------------------------------------------------------------------
(* The numbers topo_util.py gives for a topology. Those of "sudoisolated"    *)
(* are left out: the functions raise an exception for every argument.        *)
NodeNum(t) ==
    CASE t[1] \in {"isolated", "chain", "star", "fullmesh", "trie"} -> t[2]
      [] t[1] = "pairs" -> 2 * t[2]
      [] t[1] = "grid" -> t[2] * t[3]
      [] t[1] = "clos" -> (5 * t[2] * t[2] + t[2] * t[2] * t[2]) \div 4
      [] t[1] = "as" -> Cardinality(t[2].nodes)

LinkNum(t) ==
    CASE t[1] = "isolated" -> 0
      [] t[1] = "pairs" -> t[2]
      [] t[1] \in {"chain", "star", "trie"} -> t[2] - 1
      [] t[1] = "fullmesh" -> (t[2] * (t[2] - 1)) \div 2
      [] t[1] = "grid" -> 2 * t[2] * t[3]
      [] t[1] = "clos" ->
           LET k == t[2]
               h == k \div 2
           IN ((h * h + 2 * h * k) * k + h * k * k) \div 2
      [] t[1] = "as" -> Cardinality(t[2].lines)

-----------------------------------------------------------------------------
(* Names of files are split at their dots. sub is the piece that names the   *)
(* server. The sub-topology of a server is written under one name and looked *)
(* for under another; they are the same when the only dot is the suffix's.   *)
SubTopoName(name, sub) ==
    IF Len(name) = 1 THEN <<name[1], sub>>
    ELSE SubSeq(name, 1, Len(name) - 1) \o <<sub, name[Len(name)]>>

WrittenName(name, sub) == <<name[1], sub>> \o SubSeq(name, 2, Len(name))
=============================================================================
