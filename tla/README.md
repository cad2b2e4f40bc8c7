# Verification of SplitNN

SplitNN builds large virtual networks for emulation. This directory holds TLA+
modules that model its core, the TLC instances that check them, and proofs that
TLAPS checks. All paths below are relative to the repository; `netManage.go`,
`threadPool.go`, `ntlBrManager.go` and `goctr.c` are in `agent/code/network/`.

## 1. The system

The **coordinator** (Python, on the master VM) splits a topology over physical
machines and VMs, configures and starts the VMs, sends each its part, runs
`agent -o setup` and `agent -o clean` on all of them over SSH and collects the
times. The **agent** (Go, with a container runtime in C) builds its part on one
VM: nodes are containers; a link inside the VM is a bridge with two veth pairs,
a link to another VM a bridge with a veth pair and a VXLAN device. The bridges
live in *backbone network namespaces*, several per VM.

| component | state | operations | hard behaviour | what makes it correct |
|---|---|---|---|---|
| thread pool (`threadPool.go`) | channels, WaitGroup, `hasError` | `Run`, `AddTask`, `Wait`, the worker loop | workers against the client; tasks that fail | `Wait` is a barrier; every task once; the client gets through |
| `NetworkSetup` (`netManage.go`) | link counter, namespace index, threads' namespaces | set up nodes, namespaces, links; sequential or by the pool | namespace changes while tasks run; failures half-way | success means complete; links evenly spread over the namespaces |
| link manager (`ntlBrManager.go`) | `curBackBoneNs`, device counters, handles | `SetupBbNs`, `EnterBbNs`, `SetupLink`, `CleanAll*` | handles (file descriptors) shared by all threads; retry loop | a link's devices are in one namespace, the intended one; handles not mixed up, none lost but the known ones |
| container runtime (`goctr.c`, `cctr.c`) | processes, pipe, eventfd | `run`, `exec`, `kill` | three processes, two channels, failures of any system call | what is reported agrees with what runs; the call returns |
| node managers (`cctrManager.go`, `goctrManager.go`) | map of pids, pid files | `SetupNode`, `GetNodeNetNs`, `CleanNode`, `NodeExec` | stale pid files, ignored results | a pid names the node's container |
| measuring modes (`measure.go`) | none of their own | `node-`, `link-`, `const-`, `bbns-measure`: set up, time, clean | a clean-up for each way of setting up | nothing of theirs is left |
| agent main (`main.go`) | monitors, log files | dispatch of the operation | early returns | monitors stopped, namespaces restored |
| orders (`agent/code/algo/`) | none (pure) | one order of nodes and edges per algorithm | parallel edges, a heap whose keys change, ties | every edge exactly once, after its nodes |
| coordinator (`coordinator/test.py`) | connections, result directories | one test, all tests, one process after the other | exceptions between start and destruction; failures nobody looks at | VMs as planned, results of this test, no VM left running unnoticed |
| remote execution (`coordinator/util/remote.py`) | SSH channels, threads | execute, send, receive, on many machines | two streams in one window, failing and silent connections, machines that are `None` | one whole answer per machine; the call ends |
| partitioning (`coordinator/util/mvs/partition/`) | VNI table (in a call) | split over PMs, over VMs; write sub-topologies | links between VMs written twice; tasks that complete in any order | both ends agree; every link once; nodes on their own machine |
| VM allocation (`mvs/optimize.py`, `mns.py`) | none (pure) | numbers of VMs and namespaces | zero links, bounds, several ways of counting | a namespace for every server with nodes; sums agree with the files |
| VM life cycle (`mvs/vm_manage.py`, `vm_manager/`) | definitions and states of VMs, `vm_ips.txt` | alter, start, wait, destroy | scripts that stop half-way, stale files | what runs is what was planned |
| topology generators (`coordinator/scripts/`) | none (pure) | one file per kind of topology; growing and pruning AS graphs | parallel edges, isolated nodes, order of a hash table | lines between nodes of the file, no link lost |

They interact as follows: `main` calls `NetworkSetup`; this calls the node
manager (which runs the container runtime) and the link manager, directly or
from tasks of the pool; the link manager asks the node manager for handles of
the nodes' namespaces. The link manager's fields and the table of file
descriptors are shared by all threads without a lock. On the master VM `one_test`
first plans (topology, PMs, allocation), then alters, starts and connects to the
VMs through remote execution, splits the topology over them, sends, sets up,
reaps the results and destroys the VMs. Planning and the life of the VMs meet in
the list of VMs, which decides how servers are numbered; the plan and the agent
meet in the sub-topology file, its VNIs and the number of namespaces.

## 2. Modules

| module | models | extends or instantiates |
|---|---|---|
| `BatchedTasks` | abstract: tasks in lists, each at most once, list after list | |
| `ThreadPool` | the pool and the parallel loop of `NetworkSetup` as its client | `BatchedTasks` (refined) |
| `ThreadPoolProofs` | inductive invariant and theorems about `ThreadPool` | `ThreadPool` |
| `VirtualNetwork` | abstract: each link built once, success only when all are | |
| `NetworkSetup` | `NetworkSetup`, link manager, threads, handles | `ThreadPool`, `VirtualNetwork` (both refined) |
| `NetworkSetupProofs` | inductive invariants and theorems about `NetworkSetup` | `NetworkSetup`; instantiates `ThreadPoolProofs` |
| `ContainerRun` | starting one container: parent, child, init | |
| `ContainerRunProofs` | inductive invariant and theorems about `ContainerRun` | `ContainerRun` |
| `EdgeOrder` | the orders of `agent/code/algo/`: one greedy loop, four variants of it, and the naive order | |
| `EdgeOrderProofs` | inductive invariants and theorems about `EdgeOrder` | `EdgeOrder` |
| `Topologies` | the generators, expected numbers, names of files | |
| `AsTopologies` | growing and pruning AS graphs (`as_topo_util/`) | `Topologies` |
| `Planning` | what one test computes: partitions, allocation, sub-topologies, namespaces | `Topologies` |
| `PlanningProofs` | sums over finite sets, inductive invariant and theorems about `Planning` | `Planning` |
| `FanOut` | abstract: one answer per machine asked, then the return or an exception, with no thread at work | |
| `RemoteExec` | a command or transfer on many machines | `FanOut` (refined) |
| `RemoteExecProofs` | inductive invariant and theorems about `RemoteExec` | `RemoteExec` |
| `Coordinator` | a batch of processes, each with its tests, and the VMs and disks they leave | |
| `CoordinatorProofs` | inductive invariant and theorems about `Coordinator` | `Coordinator` |
| `NodeLife` | pid files, containers and names of namespaces over several runs of the agent | |
| `NodeLifeProofs` | inductive invariant and theorems about `NodeLife` | `NodeLife` |
| `MC...` | instances for TLC | the module of that name |

**ThreadPool.** `client`, `list`, `pos` say where `NetworkSetup` is in its two
nested loops; `worker` and `task` where each goroutine is. `AddTask` is the
method up to the blocking send; the rendezvous on the unbuffered channel is the
action `Receive`. `TaskFails` takes a worker to `p.errors <- err`, where only a
client that has returned from `Wait` could receive. `completed` is history.

**NetworkSetup.** One action per call that changes state, so that other threads
can run between any two: reading `curBackBoneNs`, opening node handles, creating
devices, moving the VXLAN device, changing the namespace, closing handles. The
handles are a table `handle` from small numbers to namespaces; opening takes the
lowest free number, as the kernel does, so a stale number can name another
namespace; an open that finds no free number (`MaxHandle` is the limit of descriptors)
fails. In the pool's terms the client is in its loop also after a failure there. `ns` is the current namespace of each thread. With `Workers = {}` the
module is the sequential set-up, otherwise its pool variables follow
`ThreadPool` (property `UsesPool`). Of an edge `(i, j, server, vxlanID)` the server is
left out; devices are represented by the namespace of the bridge (`where`) and
of the VXLAN device (`vxlan`). `LeftBehind` names links whose VXLAN device an
earlier failed set-up left in the host namespace. The creation of a VXLAN
device fails while another of its VNI exists that was created in the host
namespace; this is the kernel's rule, modelled from outside `src/`. `dropped`
is history: the handles nobody has any more though they are open, which are
the one `NewNamed` returns for each namespace created (`ntlBrManager.go:58`, overwritten
at `netManage.go:93`) and the one an `EnterBbNs` that fails half-way leaves
(`ntlBrManager.go:75-86`).

**ContainerRun.** `fds[p]` are the descriptors of process p, `pipe` the pieces
in the error pipe, `counter` the eventfd. Each system call that can fail does,
nondeterministically; `Kill` is a kill from outside. `broken` is history: which of
the parent's reads, of the error pipe (`goctr.c:398`) and of the pid (411), and of the
child's write of the pid (388) failed. A read may fail also while it blocks.

**EdgeOrder.** The algorithms other than `naive` are one loop with different first
contributions and adjustments, and are modelled as such; a step takes one node
out of the heap. The heap is represented by what it guarantees: a node of highest
contribution comes out, any one of several. The end points of the edges are chosen in
the initial state, so one run covers all small graphs. `best_weighted_dynamic`
is the plan it returns, the last one it computes, which does not depend on the
node it was computed for. A list is a set of links: an edge is one
element however its end points are written.

**Topologies, AsTopologies.** A file is a set of nodes and a set of lines; a tag
keeps parallel lines apart. These are pure operators; `MCPlanning` checks them
with assumptions: the numbers of `topo_util.py` agree with the generated files
except the links of a fat tree (`get_clos_link_num` counts k clients per leaf,
the generator writes k / 2), every line has its nodes in the file except for
a trie of one node, and on all graphs of four ASes an expansion reaches its target
or takes all it can, and invents no link. Growing in several rounds can
lose links (`expand_as_topo.py:70`), and pruning has no result when a component
of two ASes is met (`prune_as_topo.py:45`).

**Planning.** One behaviour is the planning of one test: `stage` follows
`one_test`, with the steps on the VMs left out. METIS, the random partition and
the real-valued gain are choices: all maps to the parts, all pairs of a number of
VMs and a memory size within the machine. Exceptions (a PM without nodes or
links, a neighbour that is no node) end in stage `raised`. `tasks` holds the
partitions of the PMs that have been submitted and not yet completed. `Calls` are
the calls of METIS and TBS under way; each may be refused (`OutsideRefuses`: METIS_InputError,
or a TBS that always fails; the code then makes it again for ever, which
`refused` records) or end in another exception (`OutsideRaises`). `tries` is bounded
by `MaxTries`. `EdgeCount` is `edge_count` as the code computes it, the only one of
the three counts of `get_partition_stats` that anything reads.

**RemoteExec.** Both streams of a command share one window (`Unread`); the
thread reads errors to their end, then output. `conn` is up, broken (streams end,
data is lost) or silent (nothing ends). A machine that is `None` raises an
exception during the submission; the executor then joins the threads already
started, which `FanOut` demands too (`atWork`): neither the return nor the exception
reaches the caller before the last thread has ended. Files and commands are one module because the two siblings for
files are the same loop.

**Coordinator.** The state is what outlives a test: definitions, states and memory
of VMs (`defined`, `boot`, `mem`, each the test that set it), `vm_ips.txt`,
the files on VM disks and the result directories. A remote operation can fail on
any machine (`Fails`); where the code does not look, the test goes on. `Crash` is
any exception. `alter_vm.sh` may be stopped after any line, and its `virsh`
may fail for any VM: the line is in `vm_ips.txt` first, then the VM is altered, not altered or
left `Undefined`, and the next start does not boot it. A transfer that breaks leaves the beginning
of its file: of `vm_ips.txt` the first lines or none, and the test goes on with
fewer VMs (with none it ends in an exception, `NoVMs`); of a sub-topology or configuration
a `Broken` one. An agent whose configuration is broken, or does not have its
server (`NoServer`; that of the repository has one), ends before it truncates its log.
`trouble` and `left` are history: which operations of this test
failed where, and which VMs an exception or a failed destroy left. A result
directory carries the time the process began, so it is named by the process and
the topology. What Planning finds for a test is part of `Batch`.

**NodeLife.** The agent runs again and again on one VM, each time with an operation and
a node manager (`op`, `mgr`); `pc` is where the run is. What outlives it are
the processes (`holder`: what runs under each pid), the pid files (`file`:
a pid, `NoPid` for a file that holds -1 or nothing, `Absent`) and the named
namespaces (`bbns`). `cache` is the map `nodeId2Pid`, `hand` the pid between the
return of the runtime and the map. `SetupNode` is `RunContainer`, `WritePid` and
`TakePid`, because the agent can end between any two; `goctr` takes the pid
returned, `cctr` what it reads back from the file. `CleanNode` kills whatever has
the pid in the file. `Delete` is the second writing of the files by `goctr`, one node after
the other: `CreateFile` truncates the file, `SavePid` writes the pid, and the agent may end
in between. `ToClean` is what the code cleans (`node-measure` begins at node 2);
what should be left is said by the property, from the nodes the operation has.
Failures (`Fault`) and deaths of containers are bounded by `MaxFaults`. In `node-measure` the
number of nodes of a sample is left open. History: `wiped`, `unwritten`, `astray`,
`dead`, `built`, `ended`; a container is `astray` when its file was removed, overwritten
or never written, left empty by the end of the agent, or when `cctr kill` did not run. From outside `src/`:
a name of a namespace is not taken twice (`netns.NewNamed`), pids are used
again, and SIGKILL hits whatever process has the pid.

Operators called "Faulty variant" are not part of any behaviour: each is an
action as a plausible mistake would have it, and shows that a property fails
when the mistake is made.

## 3. Runs

| run | instance | result |
|---|---|---|
| `pool` | 3 workers, lists of 0, 4, 0, 1, 2 tasks, three may fail | all properties hold |
| `pool_wait` | 2 workers, failing tasks | **violated**: `Wait` does not return (finding) |
| `net_seq` | sequential, 3 nodes, 5 links, 1 to 5 namespaces, a node, a namespace and two links may fail, a VXLAN device may be left over | all hold |
| `net_par` | 2 workers, 4 links (two external) in lists of 1 and 3, 1 or 2 namespaces | all hold |
| `net_race` | 2 workers, 2 namespaces, one list | **violated**: `SetupLink` called in a node's namespace (finding) |
| `net_twin` | sequential, two links of one pair of nodes to another VM | **violated**: endless retry (finding) |
| `ctr` | one container, every call may fail, up to 2 kills | all hold |
| `plan` | 43 settings: chain, star, grid, trie, fat tree, parallel links, pairs, mesh, isolated nodes, AS graphs; 1 to 3 PMs; all partitions, METIS and TBS refusing | all hold |
| `remote` | 2 machines, 5 kinds of commands, window of 1, any set asked or missing | all hold |
| `coord` | 3 processes with 7 tests, 2 PMs of 2 VMs, up to 3 failures, transfers cut short | all hold |
| `life` | 3 runs of the agent, any operation and node manager each, 3 nodes, 3 pids, up to 2 failures | all hold |
| `order` | five algorithms, every graph of 3 edges on 4 nodes, 2 links to other VMs | all hold |

What the bounds leave room for. `pool`: a list longer than the pool makes the
client block in the send; empty lists skip `Wait`; errors occur in a first and in
a last list. `net_par`: the change of namespace falls inside a list with tasks
still running, the case in which handles are closed and reused. `MaxHandle` leaves
room for what is open at once: two node handles per thread that builds links, two of
the link manager, and one dropped per namespace created (8 in `net_par` and `net_race`, 9 in `net_seq`, 5 in `net_twin`).
`net_seq`: with 1 to 5 namespaces for 5 links the share is 5, 3, 2, 2 and 1, so the
last namespace is full, partly filled, and unused, and both ways to round wrong show. `ctr`: two kills reach every
combination of dead child and dead init. `order`: three edges on four nodes include
a triangle, a path, parallel edges and isolated nodes.

`plan`: a grid of width 2 has parallel links, which must stay on one VNI;
isolated nodes and a PM without nodes occur; three PMs with one VM each make the
order in which partitions complete matter for the number of servers; TBS fails
up to the point where its capacity suffices, or always; `MaxTries` is beyond that point. The memory sizes leave allocations
of 1 to 3 VMs, of which 3 is more than the machine allows. `remote`: a window of
one piece is filled by commands of two pieces. `coord`: the same topology
is tested again with the same and with other numbers of VMs, so that names of files
on the disks coincide; three failures are enough for one in the test that leaves
VMs running, one in a later test and one more. Two VMs per PM are enough for a file
with some of its lines and for a second VM that is not altered when the first is. Both `outcome`s other than planned occur.

`life`: three runs allow a set-up, a run that reads its files or loses them, and
a clean; with three pids for three nodes pids are used again within a run and
between runs, by containers and by other processes. One node is in no topology,
one node of the topology has no link. Two failures allow a start that fails and
a write, a kill or a removal that fails later. With one node for
the samples a sample has no second node; instances with four nodes and four pids, and with four
runs of the agent, take minutes, were checked apart from `life` and hold too.

Deadlock is not checked in `plan`, `remote`, `coord` and `life`, which end, nor in `pool`, `net_par` (a pool left behind by its client),
`pool_wait`, `net_twin` and `ctr`, where the program really stops.

## 4. Findings

1. *A failing task blocks the parallel set-up for ever* (`threadPool.go:75`).
   The error is sent on an unbuffered channel that is read only after `Wait`.
2. *A parallel set-up with several backbone namespaces can build a link in a
   wrong namespace* (`netManage.go:109`, `ntlBrManager.go:89-92`): the handle
   given to a task is closed while the task runs and its number is reused.
   With one namespace (`PlacedUnlessSwitched`) all is well in every interleaving.
3. *Two links between one pair of nodes on different VMs hang the set-up*
   (`ntlBrManager.go:410`): they carry one VNI (`fmt_util.py:94-101`).

Observations the models contain without a run of their own:

- Links are evenly distributed over the namespaces only when one list holds them
  all, as in the default order (`naive`): the index of the namespace starts again
  with each list (`netManage.go:104`).
- `node-measure` leaves its first two nodes running: the loop that cleans starts
  at node 2, while the comment and the message before it speak of all nodes
  (`measure.go:130-135`). `CleanLeavesNothing` names this exception.
- Each backbone namespace costs an open handle that nobody closes
  (`netManage.go:93`), and a failed `EnterBbNs` one more (`ntlBrManager.go:76-86`).
  `HandlesAccounted` counts them and shows that there are no others.
- When the parent cannot read the pid (`goctr.c:414`) a container that is ready is
  reported as failed and goes on running; a failed read of the error pipe (398)
  passes for success.
- `edge_count`, from which the number of VMs is chosen, counts a link between
  two servers twice for one of them and not at all for the other
  (`optimize.py:43-44`). Only its sum over a PM agrees with the files.
- METIS refusing its input (`algorithm.py:76-79`) and a TBS that fails whatever
  its capacity (166-171) are asked again without end.
- A `vm_ips.txt` whose transfer breaks is read like a whole one
  (`vm_manage.py:76-84`): the test goes on with fewer VMs than planned.
- A server that METIS leaves empty gets 0 namespaces, by which its agent
  divides (`netManage.go:63`).

## 5. Fairness

Weak fairness of each thread's step (`ThreadPool`, `NetworkSetup`) and of each
process's step (`ContainerRun`): the Go scheduler and the kernel run whatever is
not blocked. Failures and kills are never forced. A retry loop that changes
nothing is a stuttering step, so it gives no progress. `Planning` and `Coordinator`
are one thread each and have weak fairness of what that thread does (`Progress`, `Next`); METIS and
TBS are not obliged to fail. Planning ends because one
series of factors for TBS grows, unless METIS or TBS refuses a call for good (`PlanningEnds`), and a batch ends
unless it waits for a VM whose start failed or that has lost its definition (`BatchEnds`). In `RemoteExec` each machine's thread and command
have weak fairness together, the caller's return and exception separately; nothing forces
a connection to fail, and `CallEnds` names the two ways in which a call never ends:
a silent connection, and a window full of output nobody reads. `NodeLife` has
no fairness: a run of the agent can end anywhere, and its properties are about what is left.

## 6. Proofs

`ThreadPoolProofs` proves, for every finite set of workers, all lists and all
sets of failing tasks, with no assumption beyond `WorkersAssumption` and
`ListsAssumption`: `PoolInv` is an invariant; hence type correctness (the counter of
the WaitGroup is never negative), `WgCounts`, `Barrier` and
`ErrorNeverCollected`; `FailedWorkerIsLost` for every step; and every step maps
to a step of `BatchedTasks` or to a stutter (`PromiseSafety`).

Why the invariant is what it is: `Barrier` speaks of the lists behind the client.
When `Wait` returns, the tasks of the current list join them, and all must be
complete. That needs `WgCounts` (the counter is 0 only when no worker holds a
closure), `ProgressInv` (a task handed out is complete or held by a worker) and
`ClientInv` (in `Wait` all tasks of the list have been handed out).
`ErrorNeverCollected` is needed because a worker with an error would end without
completing its task; `HeldInv` keeps two workers from holding one task.

`EdgeOrderProofs` proves, for every algorithm, every finite graph without loops and
every way to break ties, from `GraphAssumption` alone: `OrderInv`, and from
it `EachLinkOnce`, `NodesComeFirst` and `CountAgrees`; `TakesBest` with the second
invariant `GainInv`. `OrderInv` says what each list *is* in terms of the nodes
before it: that lists are disjoint follows because a link of list i has no end among
later nodes, that all links are listed because each link is due at the later of
its ends. `GainInv` is that the heap's contributions equal the gains; it is kept
because taking a node adds to each neighbour exactly the edges between the
two (`SelectGain`). That loops are excluded is justified by the coordinator,
which writes no edge from a node to itself (`fmt_util.py:86`).

`RemoteExecProofs` proves, for any number of machines, any window and any
commands, from `RemoteAssumption`: `OutputComplete` and the refinement of
`FanOut` (`KeepsPromise`), whose `atWork` is `AtWork`, the machines with a thread that has not ended. The invariant `RemoteInv` says per machine: no more is
read than was sent and no more sent than the command writes (`Flow`), what a
finished thread returns is all of the output unless the connection broke
(`Returned`), and answers are those of finished threads of submitted machines
(`Attributed`). The last makes each collection a step of `FanOut`, as the end of a thread is one; the caller
returns when it has the answers of `Submitted`, which are the machines asked when no
machine is `None`.

`CoordinatorProofs` proves, for any batch, any numbers of PMs and VMs and any bound
on the failures, from `CoordinatorAssumption`: `TypeOK`, `CleanStart`,
`SkipsOnlyCompleted`, `PlannedVMs` and `OwnResults`. Each has a strengthening
that says what holds stage by stage: `CleanInv` (from a start to the destruction the
VMs that run are listed or left), `DirInv` (a directory of this run is of a
complete test or of the one being made), `PlanInv` (from a successful alter on,
a planned VM has this test's definition or none, the list is the plan or, where
its transfer broke, the beginning of it, and what was booted has this test's memory), `DiskInv` (each
file of a listed VM is this test's once its transfer was tried, unless `trouble`
says it failed) and `LogInv` (no test is made twice, so until the set-up a log is of
an earlier test).

`NodeLifeProofs` proves, for any nodes, pids, numbers of runs and of failures, from
`NodeLifeAssumption`: `TypeOK`, `CleanLeavesNothing`, `DoneMeansStarted`, `OneNetwork`,
`KillsOnlyOwn` and `AttachesOwn`. The invariant follows a pid on its way.
`OnceInv`: a container is started once, has one pid and does not come
back, without which a pid that is found would say nothing. `HandInv`, `CacheInv` and
`FileInv`: what the runtime returned, the map and the files hold was a container of that
node, of this run unless `cctr` read an old file. `NamedInv` turns this round: every
container that runs is named by its file, about to be, or `astray`; with `CleanedInv`, its
copy for the nodes already cleaned, a clean that is done leaves nothing. `SaveInv` says
of the second writing that the file truncated is the one whose pid is at hand, as the map
has it; only the end of the agent at that point loses it.
`OwnNamedInv` is needed because the second writing by `goctr` takes containers
out of `astray` again. `NetInv` says which set-up the names of the namespaces belong to
at each point; it is why a second set-up must stop at a name.

`PlanningProofs` proves all five invariants of a plan, `EndsAgree`, `VniPerPair`,
`OnOwnMachine`, `EnoughNamespaces` and `CountsMatchFiles`, for any settings, topologies,
plans and outcomes of METIS and TBS. `PlanningAssumption` asks for finite files
of integers, at least one PM and no line from a node to itself. No generator
writes such a line and no `data/*_topo.txt` has one; `EnoughNamespaces` needs it, as
a node whose only line leads to itself is kept but is an end of no link.

The invariant follows the data from file to file. `ReadInv`: the graph is what
was read, nodes without a line left out. `PmInv`: each node has a PM, and every neighbour
is a node, for otherwise an exception has ended the run. `ListInv`: the VMs
are listed PM after PM, so the servers of a PM are the numbers from `First(p)` on.
`TaskInv`: a task numbers its servers from there, whenever it was submitted, which
is why the order in which tasks complete does not matter. `PlaceInv`: where
nodes are put, each on its own machine, and that in the end all are. `FileInv`: the
files are those of the final graph and assignment.

- Ids are counted in an order of the pairs of nodes, so equal ids mean
  equal sets of earlier pairs, and of two pairs one is earlier (`VniPerPair`).
- The sums are `SumFunction`, which the community modules define by recursion. What the
  proofs need of it (any summand may be taken out, zeros left out, summands renamed, a sum
  divided into parts or scaled) are lemmas, each proved from a smallest set
  for which it would fail. The same way `BlocksSorted` describes `FlattenSeq`.
- The dangling links of a set of servers are then a sum over ordered pairs
  of nodes (`BetweenIs`), the same from either side. So the TDF is the load of the
  busiest connection, and `edge_count` summed over the servers of a PM is the links in
  their files, with those between two servers counted at both ends (`CountsMatchFiles`).
  For a single server this is not so (section 4).
- A server with nodes has a link, so it gets a namespace, and one without nodes has no
  link and gets none (`EnoughNamespaces`).

`ContainerRunProofs` proves, for any number of kills, `SuccessMeansReady`,
`FailureMeansGone`, `PidIsThere` and `NoDescriptorLeft`, from an invariant that follows
the descriptors of the three processes. `ParentFds`, `WriterFds` and `Forked` say which
process holds which end at each point of its program; from them `EndOfFile`: the parent
reads the end of the pipe only when no process can write to it any more. With
`NoSilentDeath` (who ended without success has written, or was killed) and `Reported`
(what the pipe and the eventfd hold says what happened) the parent's verdict is right,
but where that very read or write failed: the theorems except `broken` calls by name, and
`FailureMeansGone` only the failed read of the pid.

`NetworkSetupProofs` proves, from `SetupAssumption` alone, for any nodes, links, lists,
workers, numbers of namespaces and descriptors:

- `TypeOK`, `HandlesAccounted` (theorem `HandlesAreAccounted`), `CleanSuccess` and `PlacedUnlessSwitched`, for the sequential
  set-up and for the parallel one;
- `LinksWhereAssigned` for the sequential set-up (`Workers = {}`), and for the
  parallel one with a single namespace; with several it does not hold (finding 2);
- `SharesRespected` when one list holds all links (`OneList`), as in the default
  order, sequential or parallel. With several lists it does not hold
  (section 4): the position starts again with each list;
- `UsesPool`: each step of the parallel set-up is a step of `ThreadPool` or a
  stutter, so what `ThreadPoolProofs` shows of the pool holds here too;
- `BuildsVirtualNetwork` for the sequential set-up. In the parallel one an error of
  `EnterBbNs` is final for the client while tasks go on building links, which the abstract
  network does not do.

The argument. `ThreadInv` and `HeldInv` say what a thread knows and holds at each point of
`SetupLink`; `ManagerInv` that the link manager's handles name backbone
namespaces. The last is what makes closing harmless: a thread closes handles of nodes and the
manager those of backbones, so neither closes the other's, even when numbers are
used again (`HandlesAccounted`). A namespace that is created drops one handle and raises
`curBackBoneNum` in the same step, and a set-up that failed makes no other, which bounds `dropped`. `LoopInv` counts links and lists, `SeqInv`
and `ParInv` say what is built or handed out behind that count; `ParInv` takes the
invariant of the pool from `ThreadPoolProofs` by `INSTANCE`. `HomeInv` follows the
namespace in which a thread runs, and `PlaceInv` the namespace of each link, as long as the namespace
has not been switched under a task. `ShareInv` needs that the index of the namespace is
the position in the list divided by the share (`LastMultiple`), so a namespace
has at most one share of positions; `SharesRespected` itself does not speak of the code's rounding,
which `RoundedUp` and `SharesCover` compare with the exact quotient from both sides. Where a proof needs a least number with some
property it is found by `WellFoundedInduction`, as an element minimal under `<`.

Only model-checked: liveness (`Termination`, `SetupEnds`, `RunEnds`,
`PlanningEnds`, `CallEnds`, `BatchEnds`), which rests on ENABLED, and the assumptions on
operators without a state (`MCPlanning`: generators, growing and pruning).

## 7. Plan

1. `ThreadPool`, `NetworkSetup`, `ContainerRun`, `EdgeOrder`, `Topologies`,
   `AsTopologies`, `Planning`, `RemoteExec`, `Coordinator`: done.
2. `NodeLife` with its proofs: done.
3. Theorems about `ContainerRun`, `NetworkSetup` and `Planning`: done. Every safety
   invariant and every safety part of a refinement that a run checks and that
   holds is a theorem, in part under the conditions named above.
4. Left: what the generators and the AS scripts return, for all parameters.

## 8. Not modelled

- Data processing, routing configuration, kernel parameters and monitors
  (`envManage.go`, `agent/scripts/`): I/O without a protocol. Names of devices, the counters kept for
  reports and the text of messages are left out.
- `NodeExec` and `exec.go`: reached from no operation of the agent. (`NodeExec` of
  `goctr` calls `goctr_kill`, `goctrManager.go:179`.)
- In `NodeLife`: times and memory the measuring modes take, the repetition of one link in
  them, kernel parameters. The coordinator itself never cleans with the agent
  (`test.py:485-488`) but destroys the VM; a clean is what users run.
- The gain of an allocation, a real number: any considered pair may be the best.
  When no considered pair has a gain above -1 the code silently plans one VM of
  8 GB (`optimize.py:133-137`), also when `-n` asked for another number; the
  model has that choice.
- What METIS and TBS compute: METIS returns any map, refuses its input or raises; a TBS
  that works succeeds when every PM can hold all nodes, may do so when all together can,
  and one that does not work never does.
- The loop of the trie generator for k = 1, which does not end, and
  `get_sudoisolated_node_num`, which raises an exception for all arguments.
- `test.py:65` reads `args.fixed_m` while the option's name is `fixed_m_conf`
  (`test.py:57`), so the program as it stands ends before its first test; the
  models take the option as meant.
- In `Coordinator`: a `vm_ips.txt` cut in the middle of a line, whose last address is
  of no VM of the experiment and is waited for for ever; silent machines (see `RemoteExec`), the compilation of the
  agent, results other than the set-up's log, and `vm_definer`, which prepares
  a machine once.
