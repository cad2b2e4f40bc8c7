------------------------------ MODULE Planning ------------------------------
(* What one test of the coordinator computes before any network is built     *)
(* (one_test in coordinator/test.py): the topology is read, its nodes are    *)
(* divided over the physical machines (PMs), a number of VMs is chosen for   *)
(* each PM, the nodes of each PM are divided over its VMs (servers), and a   *)
(* sub-topology and a number of backbone namespaces result for each server.  *)
(*                                                                           *)
(* METIS and TBS are external: METIS returns any map to the parts or refuses *)
(* its input, TBS may refuse a capacity or fail altogether. Either answers   *)
(* the same call always the same way, and a refused call is repeated by the  *)
(* code without end. The gains that rank numbers of VMs are real numbers    *)
(* and are left open; only that one VM has gain 0 is used.                   *)
EXTENDS Topologies, FiniteSetsExt, SequencesExt

CONSTANTS
    Configs,    \* settings: topology, number of PMs, options -n, -m, -k, method
    Cores,      \* coreNum of a PM
    MaxVMNum,   \* maxVMNum of a PM
    Memory,     \* Memory of a PM
    MemoryReq,  \* MemoryReq(GB) of the experiment
    Sizes,      \* memory sizes of a VM in theta_m_table
    X, Y,       \* cost parameters of a PM
    MaxTries    \* bound on the runs of TBS that are counted

(* Files are finite and have no line from a node to itself.                  *)
ASSUME PlanningAssumption ==
    /\ \A c \in Configs :
         /\ c.pms \in Nat \ {0} /\ c.fixedBbns \in Nat
         /\ LET file == GenerateTopo(c.topo)
            IN /\ file.nodes \subseteq Int /\ IsFiniteSet(file.nodes)
               /\ IsFiniteSet(file.lines) /\ \A l \in file.lines : l.from # l.to
    /\ Cores \in Nat /\ MaxTries \in Nat /\ X \in Nat \ {0} /\ Y \in Nat \ {0}

VARIABLES
    conf,        \* the settings of this test
    stage,       \* where one_test is
    graph,       \* nodes and adjacency lists, as numbers of entries
    node2pm,     \* PM of each node
    tries,       \* runs of TBS
    refused,     \* calls of METIS and TBS that fail however often they are made
    plan,        \* n, m and vcpus of each PM
    vmPm,        \* PM of each server: the VM configuration list
    nextPm,      \* loop over the PMs that submits partitioning tasks
    accServers,  \* acc_server_num in that loop
    tasks,       \* submitted tasks that have not completed
    node2server, \* server of each node
    subs,        \* sub-topology of each server
    tdf,         \* highest load of a connection between PMs
    bbns         \* number of backbone namespaces of each server

vars == <<conf, stage, graph, node2pm, tries, refused, plan, vmPm, nextPm,
          accServers, tasks, node2server, subs, tdf, bbns>>
outside == <<tries, refused>>

PMs == 0 .. (conf.pms - 1)
Servers == 0 .. (Len(vmPm) - 1)
PmOf(s) == vmPm[s + 1]

-----------------------------------------------------------------------------
(* Reading the file                                                          *)

Mentioned(file) == {l.from : l \in file.lines} \union {l.to : l \in file.lines}

(* The first scan removes the nodes that have no link from the list. Faulty  *)
(* variant: they stay.                                                       *)
ReadNodesKeepIsolated(file) == file.nodes
ReadNodes(file) == {n \in file.nodes : n \in Mentioned(file)}

(* How often v is in the list of u: each line is entered at both its ends.   *)
Entries(file, u, v) ==
    Cardinality({l \in file.lines : l.from = u /\ l.to = v})
    + Cardinality({l \in file.lines : l.from = v /\ l.to = u})

ReadGraph(file) ==
    [nodes |-> ReadNodes(file),
     adj |-> [u \in Mentioned(file) \union file.nodes |->
                 [v \in Mentioned(file) \union file.nodes |-> Entries(file, u, v)]]]

(* A neighbour that is not in the list of nodes is a KeyError wherever the   *)
(* lists are used to look neighbours up.                                     *)
Closed(nodes, adj) == \A u \in nodes, v \in DOMAIN adj : adj[u][v] > 0 => v \in nodes

(* The part of the graph on one PM. With one PM it is the graph; with more,  *)
(* each entry is appended to the lists of both nodes, and so is its reverse. *)
PmNodes(p) == {n \in graph.nodes : node2pm[n] = p}
PmAdj(p) ==
    IF conf.pms = 1 THEN graph.adj
    ELSE [u \in PmNodes(p) |-> [v \in PmNodes(p) |-> graph.adj[u][v] + graph.adj[v][u]]]

-----------------------------------------------------------------------------
(* Partitioning                                                              *)

(* partition_metis: one part is handled without METIS. A call that METIS     *)
(* refuses with METIS_InputError is made again with the same arguments: it   *)
(* never comes back.                                                         *)
MetisParts(nodes, k) == IF k = 1 THEN [nodes -> {0}] ELSE [nodes -> 0 .. (k - 1)]

(* The factors, in hundredths, tried one after the other for TBS: five       *)
(* decreasing ones alternate with a growing one.                             *)
CapacityFactor(k) ==
    IF k % 2 = 1 /\ k <= 9 THEN 105 - k \div 2
    ELSE LET grown == IF k <= 10 THEN k \div 2 ELSE k - 5
         IN 110 + 5 * (grown - 1)

CpuCapacity(k) == (CapacityFactor(k) * Cardinality(graph.nodes)) \div (100 * conf.pms)

(* TBS is outside the repository: a TBS that works may succeed when the PMs  *)
(* together can hold the nodes and does when each of them can.               *)
TbsMaySucceed(c) == c * conf.pms >= Cardinality(graph.nodes)
TbsMayFail(c) == c < Cardinality(graph.nodes)

-----------------------------------------------------------------------------
(* Number of VMs                                                             *)

(* edge_count of a partition, as get_partition_stats counts it: an edge      *)
(* between two servers counts twice for the server of its lower end and not  *)
(* at all for the other. Nothing reads the other two counts of that          *)
(* function, node_count and dangling_edges. Faulty variant: it counts once.  *)
EdgeCountOnce(nodes, adj, part, s) ==
    SumFunction([e \in {f \in nodes \X nodes : f[1] < f[2]} |->
                    IF part[e[1]] = s THEN adj[e[1]][e[2]] ELSE 0])
EdgeCount(nodes, adj, part, s) ==
    SumFunction([e \in {f \in nodes \X nodes : f[1] < f[2]} |->
                    IF part[e[1]] # s THEN 0
                    ELSE IF part[e[2]] = s THEN adj[e[1]][e[2]] ELSE 2 * adj[e[1]][e[2]]])

(* The highest edge count over the servers that have nodes.                  *)
EMax(nodes, adj, part) == Max({EdgeCount(nodes, adj, part, part[n]) : n \in nodes})

(* Pairs of a number of VMs and a memory size that are within the PM. The    *)
(* search leaves out Cores itself.                                           *)
FeasiblePairs ==
    {c \in (1 .. (Cores - 1)) \X Sizes : c[1] * c[2] >= MemoryReq /\ c[1] * c[2] <= Memory}
AskedPairs ==
    {c \in FeasiblePairs : /\ conf.fixedVMs > 0 => c[1] = conf.fixedVMs
                           /\ conf.fixedMem > 0 => c[2] = conf.fixedMem}

(* The pair of highest gain, if its gain is above -1, otherwise one VM of 8. *)
(* One VM has gain 0.                                                        *)
AllocationChoices ==
    IF \E c \in AskedPairs : c[1] = 1 THEN AskedPairs ELSE AskedPairs \union {<<1, 8>>}

(* max() of no servers, division by the time 0 of a PM without links, a      *)
(* neighbour without server.                                                 *)
AllocationRaises(p) ==
    \/ PmNodes(p) = {}
    \/ ~Closed(PmNodes(p), PmAdj(p))
    \/ FeasiblePairs # {}
         /\ EMax(PmNodes(p), PmAdj(p), [n \in PmNodes(p) |-> 0]) = 0

-----------------------------------------------------------------------------
(* Sub-topologies                                                            *)

EdgesWithin(s) ==
    {e \in graph.nodes \X graph.nodes :
        /\ e[1] < e[2] /\ graph.adj[e[1]][e[2]] > 0
        /\ node2server[e[1]] = s /\ node2server[e[2]] = s}
Crossing ==
    {e \in graph.nodes \X graph.nodes :
        e[1] < e[2] /\ graph.adj[e[1]][e[2]] > 0 /\ node2server[e[1]] # node2server[e[2]]}

(* VXLAN ids are handed out from 4097 on, in the order in which pairs are    *)
(* met (here by their nodes); a pair that is met again keeps its id. Faulty  *)
(* variant: numbering starts again for each node.                            *)
VniPerNode(e) == 4097 + Cardinality({f \in Crossing : f[1] = e[1] /\ f[2] < e[2]})
Vni(e) ==
    4097 + Cardinality({f \in Crossing : f[1] < e[1] \/ (f[1] = e[1] /\ f[2] < e[2])})

(* The entry written for an end of a crossing edge e: "end                   *)
(* peer_external_server_vni". Faulty variant: it names its own server.       *)
DanglingOwnServer(end, peer, e) ==
    [end |-> end, peer |-> peer, server |-> node2server[end], vni |-> Vni(e),
     copies |-> graph.adj[end][peer]]
Dangling(end, peer, e) ==
    [end |-> end, peer |-> peer, server |-> node2server[peer], vni |-> Vni(e),
     copies |-> graph.adj[end][peer]]

SubTopology(s) ==
    [nodes |-> {n \in graph.nodes : node2server[n] = s},
     inner |-> [e \in EdgesWithin(s) |-> graph.adj[e[1]][e[2]]],
     dangling |-> {Dangling(e[1], e[2], e) : e \in {f \in Crossing : node2server[f[1]] = s}}
                    \union {Dangling(e[2], e[1], e) :
                               e \in {f \in Crossing : node2server[f[2]] = s}}]

(* The lines of a file after the first.                                      *)
LinkCount(sub) ==
    SumFunction(sub.inner) + SumFunction([d \in sub.dangling |-> d.copies])

(* The load of the connection between two PMs, in units of VLINK_BW; all     *)
(* connections have the same bandwidth. Each pair is counted from the lower  *)
(* PM.                                                                       *)
CrossLoad(p, q) ==
    SumFunction([e \in {f \in graph.nodes \X graph.nodes :
                           PmOf(node2server[f[1]]) = p /\ PmOf(node2server[f[2]]) = q} |->
                    graph.adj[e[1]][e[2]]])
ComputeTdf == Max({0} \union {CrossLoad(c[1], c[2]) : c \in {d \in PMs \X PMs : d[1] < d[2]}})

(* The least k with k * k >= links * Y / (2 * X), or the number asked for,   *)
(* but no more than there are links.                                         *)
BbnsNum(links) ==
    IF conf.fixedBbns = 0
    THEN CHOOSE k \in 0 .. (links * Y) :
             /\ 2 * X * k * k >= links * Y
             /\ k = 0 \/ 2 * X * (k - 1) * (k - 1) < links * Y
    ELSE Min({links, conf.fixedBbns})

-----------------------------------------------------------------------------
NoGraph == [nodes |-> {}, adj |-> <<>>]

Init ==
    /\ conf \in Configs
    /\ stage = "read"
    /\ graph = NoGraph
    /\ node2pm = <<>> /\ tries = 0 /\ refused = {} /\ plan = <<>> /\ vmPm = <<>>
    /\ nextPm = 0 /\ accServers = 0 /\ tasks = {} /\ node2server = <<>>
    /\ subs = <<>> /\ tdf = 0 /\ bbns = <<>>

GenerateAndRead ==
    /\ stage = "read"
    /\ graph' = ReadGraph(GenerateTopo(conf.topo))
    /\ stage' = "pms"
    /\ UNCHANGED <<conf, node2pm, outside, plan, vmPm, nextPm, accServers, tasks,
                   node2server, subs, tdf, bbns>>

(* partition_graph_across_pm: with more than one PM the lists are looked up. *)
AssignToPms(map) ==
    /\ node2pm' = map
    /\ stage' = IF conf.pms > 1 /\ ~Closed(graph.nodes, graph.adj) THEN "raised" ELSE "alloc"
    /\ UNCHANGED <<conf, graph, plan, vmPm, nextPm, accServers, tasks, node2server,
                   subs, tdf, bbns>>

PartitionPmsOne ==
    /\ stage = "pms" /\ conf.pms = 1
    /\ AssignToPms([n \in graph.nodes |-> 0])
    /\ UNCHANGED outside

(* The calls with more than one part that are under way: the whole graph     *)
(* over the PMs; for each PM the numbers of VMs from 2 on; the partitioning  *)
(* tasks. TBS is run once its input has been written.                        *)
PartitionsPms == stage = "pms" /\ conf.pms > 1
CallingTbs == PartitionsPms /\ conf.method = "tbs" /\ Closed(graph.nodes, graph.adj)
Calls ==
    {c \in {<<"metis", 0>>} : PartitionsPms /\ conf.method = "metis"}
      \union {c \in {<<"tbs", 0>>} : CallingTbs}
      \union {<<"alloc", p>> : p \in {q \in PMs : /\ stage = "alloc" /\ Cores > 1
                                                /\ PmNodes(q) # {}
                                                /\ Closed(PmNodes(q), PmAdj(q))}}
      \union {<<"split", t.pm>> : t \in {u \in tasks : u.num > 1}}

(* METIS refuses the input of a call (METIS_InputError), or TBS fails        *)
(* whatever capacity it is given (run_tbs answers False to every failure).   *)
OutsideRefuses ==
    /\ \E c \in Calls \ refused : refused' = refused \union {c}
    /\ UNCHANGED <<conf, stage, graph, node2pm, tries, plan, vmPm, nextPm, accServers, tasks,
                   node2server, subs, tdf, bbns>>

(* Another error of METIS, or a TBS program or directory that is not there,  *)
(* is raised when the other threads are done.                                *)
OutsideRaises ==
    /\ Calls # {} /\ refused = {}
    /\ stage' = "raised"
    /\ UNCHANGED <<conf, graph, node2pm, outside, plan, vmPm, nextPm, accServers, tasks,
                   node2server, subs, tdf, bbns>>

(* "naive" draws a random PM for each node, METIS returns some map.          *)
PartitionPmsAny ==
    /\ PartitionsPms /\ conf.method # "tbs"
    /\ <<"metis", 0>> \notin refused
    /\ \E map \in [graph.nodes -> PMs] : AssignToPms(map)
    /\ UNCHANGED outside

(* The graph is converted for TBS, which looks every neighbour up.           *)
TbsConvertRaises ==
    /\ PartitionsPms /\ conf.method = "tbs" /\ ~Closed(graph.nodes, graph.adj)
    /\ stage' = "raised"
    /\ UNCHANGED <<conf, graph, node2pm, outside, plan, vmPm, nextPm, accServers, tasks,
                   node2server, subs, tdf, bbns>>

TbsSucceeds ==
    /\ CallingTbs /\ <<"tbs", 0>> \notin refused
    /\ TbsMaySucceed(CpuCapacity(tries + 1))
    /\ \E map \in [graph.nodes -> PMs] : AssignToPms(map)
    /\ UNCHANGED outside

(* run_tbs answers False and the next factor is tried. Faulty variant: each  *)
(* try starts with the first.                                                *)
TbsFailsAnew ==
    /\ CallingTbs /\ tries < MaxTries
    /\ TbsMayFail(CpuCapacity(tries + 1)) \/ <<"tbs", 0>> \in refused
    /\ tries' = 0
    /\ UNCHANGED <<conf, stage, graph, node2pm, refused, plan, vmPm, nextPm, accServers, tasks,
                   node2server, subs, tdf, bbns>>
TbsFails ==
    /\ CallingTbs /\ tries < MaxTries
    /\ TbsMayFail(CpuCapacity(tries + 1)) \/ <<"tbs", 0>> \in refused
    /\ tries' = tries + 1
    /\ UNCHANGED <<conf, stage, graph, node2pm, refused, plan, vmPm, nextPm, accServers, tasks,
                   node2server, subs, tdf, bbns>>

(* All PMs are planned; an exception for one of them is raised when its      *)
(* result is fetched. Too many VMs for a PM end the test.                    *)
AllocateVMs ==
    /\ stage = "alloc" /\ \A p \in PMs : <<"alloc", p>> \notin refused
    /\ IF \E p \in PMs : AllocationRaises(p)
       THEN stage' = "raised" /\ UNCHANGED plan
       ELSE \E choice \in [PMs -> AllocationChoices] :
              /\ plan' = [p \in PMs |->
                            [n |-> choice[p][1], m |-> choice[p][2],
                             vcpus |-> Min({8, Cores \div choice[p][1]})]]
              /\ stage' = IF \A p \in PMs : choice[p][1] <= MaxVMNum THEN "vms" ELSE "skipped"
    /\ UNCHANGED <<conf, graph, node2pm, outside, vmPm, nextPm, accServers, tasks,
                   node2server, subs, tdf, bbns>>

(* alter_vm_for_all_pms: the addresses of the VMs are listed PM after PM.    *)
ListVMs ==
    /\ stage = "vms"
    /\ vmPm' = FlattenSeq([i \in 1 .. conf.pms |-> [j \in 1 .. plan[i - 1].n |-> i - 1]])
    /\ stage' = "split"
    /\ UNCHANGED <<conf, graph, node2pm, outside, plan, nextPm, accServers, tasks,
                   node2server, subs, tdf, bbns>>

(* One PM's turn in the loop that submits the tasks; tasks already submitted *)
(* run meanwhile. Faulty variant: the servers of earlier PMs are forgotten.  *)
ServersOf(p) == Cardinality({s \in Servers : PmOf(s) = p})

SubmitPartitionForgetful ==
    /\ stage = "split" /\ nextPm \in PMs
    /\ tasks' = tasks \union {[pm |-> nextPm, num |-> ServersOf(nextPm), acc |-> 0]}
    /\ accServers' = accServers + ServersOf(nextPm)
    /\ nextPm' = nextPm + 1
    /\ UNCHANGED <<conf, stage, graph, node2pm, outside, plan, vmPm, node2server, subs,
                   tdf, bbns>>
SubmitPartition ==
    /\ stage = "split" /\ nextPm \in PMs
    /\ tasks' = tasks \union {[pm |-> nextPm, num |-> ServersOf(nextPm), acc |-> accServers]}
    /\ accServers' = accServers + ServersOf(nextPm)
    /\ nextPm' = nextPm + 1
    /\ UNCHANGED <<conf, stage, graph, node2pm, outside, plan, vmPm, node2server, subs,
                   tdf, bbns>>

(* partition_graph_across_vm for one PM; its result enters the common map.   *)
PartitionDone ==
    /\ stage = "split"
    /\ \E t \in {u \in tasks : <<"split", u.pm>> \notin refused} :
       \E parts \in MetisParts(PmNodes(t.pm), t.num) :
         /\ node2server' = [n \in PmNodes(t.pm) \union DOMAIN node2server |->
                              IF n \in PmNodes(t.pm) THEN parts[n] + t.acc ELSE node2server[n]]
         /\ tasks' = tasks \ {t}
    /\ UNCHANGED <<conf, stage, graph, node2pm, outside, plan, vmPm, nextPm, accServers,
                   subs, tdf, bbns>>

(* The rest of partition_topo_across_vms_for_all_pms: files, then the TDF.   *)
WriteSubTopos ==
    /\ stage = "split" /\ nextPm \notin PMs /\ tasks = {}
    /\ subs' = [s \in Servers |-> SubTopology(s)]
    /\ tdf' = ComputeTdf
    /\ stage' = "bbns"
    /\ UNCHANGED <<conf, graph, node2pm, outside, plan, vmPm, nextPm, accServers, tasks,
                   node2server, bbns>>

(* get_bbns_num_for_all_vms: the -b option of each server's agent.           *)
NumberBbNs ==
    /\ stage = "bbns"
    /\ bbns' = [s \in Servers |-> BbnsNum(LinkCount(subs[s]))]
    /\ stage' = "planned"
    /\ UNCHANGED <<conf, graph, node2pm, outside, plan, vmPm, nextPm, accServers, tasks,
                   node2server, subs, tdf>>

Progress ==
    \/ GenerateAndRead
    \/ PartitionPmsOne \/ PartitionPmsAny \/ TbsConvertRaises \/ TbsSucceeds \/ TbsFails
    \/ AllocateVMs \/ ListVMs
    \/ SubmitPartition \/ PartitionDone \/ WriteSubTopos \/ NumberBbNs

Next == Progress \/ OutsideRefuses \/ OutsideRaises

(* The coordinator goes on; METIS and TBS are not obliged to fail.           *)
Spec == Init /\ [][Next]_vars /\ WF_vars(Progress)

-----------------------------------------------------------------------------
(* Properties                                                                *)

Written == stage \in {"bbns", "planned"}
Lines(u, v) == Entries(GenerateTopo(conf.topo), u, v)

(* The sub-topologies together are the topology: each line of the file is    *)
(* written inside exactly one server's file, or at both ends' servers, which *)
(* then name each other and agree on the VXLAN id.                           *)
EndsAgree ==
    Written =>
        \A u \in graph.nodes, v \in graph.nodes : u < v =>
            LET inner == SumFunction([s \in Servers |-> IF <<u, v>> \in DOMAIN subs[s].inner
                                                         THEN subs[s].inner[<<u, v>>] ELSE 0])
                at == [s \in Servers |-> {d \in subs[s].dangling : {d.end, d.peer} = {u, v}}]
            IN \/ /\ inner = Lines(u, v)
                  /\ \A s \in Servers : at[s] = {}
               \/ \E s \in Servers : \E t \in Servers \ {s} : \E id \in {d.vni : d \in at[s]} :
                    /\ inner = 0
                    /\ u \in subs[s].nodes /\ v \in subs[t].nodes
                    /\ at[s] = {[end |-> u, peer |-> v, server |-> t, vni |-> id, copies |-> Lines(u, v)]}
                    /\ at[t] = {[end |-> v, peer |-> u, server |-> s, vni |-> id, copies |-> Lines(u, v)]}
                    /\ \A r \in Servers \ {s, t} : at[r] = {}

(* A VXLAN id belongs to one pair of nodes, over all servers: a device of    *)
(* one link can never receive the frames of another.                         *)
VniPerPair ==
    Written =>
        \A s \in Servers, t \in Servers : \A d \in subs[s].dangling, e \in subs[t].dangling :
            d.vni = e.vni => {d.end, d.peer} = {e.end, e.peer}

(* A node is on a server of the PM it was assigned to, although the servers  *)
(* are numbered across PMs and the PMs' partitions complete in any order.    *)
OnOwnMachine ==
    Written => \A n \in graph.nodes : /\ node2server[n] \in Servers
                                       /\ PmOf(node2server[n]) = node2pm[n]

(* The servers that have nodes are those that get backbone namespaces. One   *)
(* that METIS left without nodes gets none, and its agent divides by their   *)
(* number (netManage.go:63).                                                 *)
EnoughNamespaces ==
    stage = "planned" => \A s \in Servers : subs[s].nodes # {} <=> bbns[s] > 0

(* What is computed from the graph agrees with what was written: the highest *)
(* load between two PMs with the links the servers' files have between them, *)
(* and the edges counted to choose the number of VMs with the links the      *)
(* PM's files have within it, those between two servers at both ends (twice  *)
(* as many with several PMs, whose lists are doubled). That holds of the sum *)
(* over a PM's servers only: one server may count up to twice the links of   *)
(* its file, or none (EdgeCount), and the code takes the highest count.      *)
CountsMatchFiles ==
    Written =>
        LET Between(S, T) ==
                SumFunction([s \in S |->
                    SumFunction([d \in {e \in subs[s].dangling : e.server \in T} |-> d.copies])])
            On(p) == {s \in Servers : PmOf(s) = p}
        IN /\ \A p \in PMs, q \in PMs : p # q => Between(On(p), On(q)) <= tdf
           /\ tdf > 0 => \E p \in PMs : \E q \in PMs \ {p} : Between(On(p), On(q)) = tdf
           /\ \A p \in PMs :
                 SumFunction([s \in On(p) |-> EdgeCount(PmNodes(p), PmAdj(p), node2server, s)])
                   = (IF conf.pms = 1 THEN 1 ELSE 2)
                       * (SumFunction([s \in On(p) |-> SumFunction(subs[s].inner)])
                            + Between(On(p), On(p)))

(* Planning comes to an end unless METIS refuses an input or TBS does not    *)
(* work: TBS is tried with capacities that grow beyond every bound although  *)
(* five of them shrink. Otherwise it does not: the same call is made again   *)
(* and again (algorithm.py:67-79, 166-171).                                  *)
PlanningEnds == <>(stage \in {"planned", "skipped", "raised"} \/ refused # {})
=============================================================================
