---------------------------- MODULE Coordinator -----------------------------
(* A batch of runs of coordinator/test.py, one process after the other as in *)
(* mvm_batch_test.sh, and what they leave on the machines. Each run connects *)
(* to the physical machines (PMs) and makes its tests one by one; a test     *)
(* alters, starts, uses and destroys VMs. A remote operation can fail on any *)
(* machine (RemoteExec) and most of the code goes on as if it had not; an    *)
(* exception ends the process and leaves the VMs as they are. Machines that  *)
(* fall silent are left to RemoteExec, results other than the set-up's log   *)
(* and the compilation of the agent are left out.                            *)
EXTENDS Integers, Sequences, FiniteSets

CONSTANTS
    P,          \* PMs are 1 .. P, in the order of pm_config.json
    MaxVMs,     \* VMs of a PM
    Topos,      \* topologies
    Batch,      \* the runs, each a sequence of tests
    MaxFaults   \* bound on the failures of remote operations

PMs == 1 .. P
VMs == PMs \X (0 .. MaxVMs - 1)

(* A test has a topology and what Planning finds for it: how many VMs each   *)
(* PM gets, or that the test is skipped or raises an exception.              *)
ASSUME CoordinatorAssumption ==
    /\ P \in Nat \ {0} /\ MaxVMs \in Nat \ {0} /\ MaxFaults \in Nat
    /\ Len(Batch) \in Nat \ {0}
    /\ \A r \in 1 .. Len(Batch) : \A k \in 1 .. Len(Batch[r]) :
          /\ Batch[r][k].topo \in Topos
          /\ Batch[r][k].outcome \in {"planned", "skipped", "raised"}
          /\ Batch[r][k].vms \in [PMs -> 1 .. MaxVMs]

VARIABLES
    run, pos, stage,    \* the process, its test, and where one_test is
    faults,             \* failures so far
    pmUp,               \* PMs this process is connected to
    dirs, completed,    \* result directories with files; those of complete tests
    vmIps,              \* lines of vm_ips.txt on each PM, 0 if there is none
    defined,            \* test whose memory the definition of a VM has, or Undefined
    boot, mem,          \* test that booted a VM, None if off; test whose memory it has
    listed,             \* VMs of each PM in vm_config_list
    files,              \* sub-topologies on a VM's disk: the test that sent them,
                        \* or Broken
    config, setupLog,   \* server_config.json and tmp/setup_log.txt on a VM's disk
    results,            \* logs in this test's directory
    trouble,            \* operations of this test that failed on a machine
    left                \* VMs left running by an exception or a failed destroy

batchVars == <<run, pos, stage, faults, pmUp, dirs, completed>>
pmVars == <<vmIps, defined, boot, mem>>
diskVars == <<files, config, setupLog>>
testVars == <<listed, results, trouble>>
vars == <<batchVars, pmVars, diskVars, testVars, left>>

None == <<0, 0>>                \* no test; of a configuration, the repository's
Undefined == <<0, 1>>           \* a VM that has no definition
Broken == <<0, 2>>              \* a file of which only the beginning arrived
NoLog == [test |-> None, sub |-> None, config |-> None]

Cur == <<run, pos>>
Test == Batch[run][pos]
Dir == <<run, Test.topo>>

On == {v \in VMs : boot[v] # None}
First(n) == {v \in VMs : v[2] < n[v[1]]}
Listed == First(listed)
OnMachines(S) == {v \in Listed : v[1] \in S}

(* Servers are numbered in the order of vm_config_list, PM after PM, and the *)
(* file of a sub-topology is named after the topology and the server.        *)
ServersBefore(v) == {w \in Listed : w[1] < v[1] \/ (w[1] = v[1] /\ w[2] < v[2])}
ServerId(v) == Cardinality(ServersBefore(v))
FileOf(v) == <<Test.topo, ServerId(v)>>
Names == Topos \X (0 .. P * MaxVMs - 1)

(* An operation fails on the machines of S.                                  *)
Fails(op, S) ==
    /\ faults + Cardinality(S) <= MaxFaults
    /\ faults' = faults + Cardinality(S)
    /\ trouble' = trouble \union {<<op, x>> : x \in S}
NoFault == UNCHANGED <<faults, trouble>>

-----------------------------------------------------------------------------
(* Processes                                                                 *)

Init ==
    /\ run = 1 /\ pos = 1 /\ stage = "begin" /\ faults = 0
    /\ pmUp = {} /\ dirs = {} /\ completed = {}
    /\ vmIps = [p \in PMs |-> 0] /\ listed = [p \in PMs |-> 0]
    /\ defined = [v \in VMs |-> None] /\ boot = [v \in VMs |-> None]
    /\ mem = [v \in VMs |-> None]
    /\ files = [v \in VMs |-> [f \in Names |-> None]]
    /\ config = [v \in VMs |-> None]
    /\ setupLog = [v \in VMs |-> NoLog] /\ results = [v \in VMs |-> NoLog]
    /\ trouble = {} /\ left = {}

(* run_all_tests connects to the PMs; one that fails is None in the list.    *)
ConnectPMs ==
    /\ stage = "begin"
    /\ \E down \in SUBSET PMs : Fails("connect", down) /\ pmUp' = PMs \ down
    /\ stage' = "next"
    /\ UNCHANGED <<run, pos, dirs, completed, pmVars, diskVars, listed, results, left>>

EndProcess ==
    /\ run' = run + 1 /\ pos' = 1
    /\ stage' = IF run = Len(Batch) THEN "done" ELSE "begin"

(* An exception: the VMs that run stay up. Faulty variant: the process goes  *)
(* on with the next test.                                                    *)
CrashContinues ==
    /\ run' = run /\ pos' = pos + 1 /\ stage' = "next"
    /\ left' = On
    /\ UNCHANGED <<pmUp, completed>>
Crash ==
    /\ EndProcess
    /\ left' = On
    /\ UNCHANGED <<pmUp, completed>>

(* No test is left, and the connections to the PMs are closed.               *)
EndRun ==
    /\ stage = "next" /\ pos > Len(Batch[run])
    /\ EndProcess
    /\ UNCHANGED <<faults, pmUp, dirs, completed, pmVars, diskVars, testVars, left>>

-----------------------------------------------------------------------------
(* One test                                                                  *)

(* A directory that holds something belongs to a test made before.           *)
SkipTest ==
    /\ stage = "next" /\ pos <= Len(Batch[run]) /\ Dir \in dirs
    /\ pos' = pos + 1
    /\ UNCHANGED <<run, stage, faults, pmUp, dirs, completed, pmVars, diskVars,
                   testVars, left>>

(* Topology, partition over the PMs and allocation. The allocation is the    *)
(* first file in the directory.                                              *)
BeginTest ==
    /\ stage = "next" /\ pos <= Len(Batch[run]) /\ Dir \notin dirs
    /\ results' = [v \in VMs |-> NoLog] /\ trouble' = {}
    /\ \/ /\ Test.outcome = "planned"
          /\ dirs' = dirs \union {Dir}
          /\ stage' = "alter"
          /\ UNCHANGED <<run, pos, pmUp, completed, left>>
       \/ /\ Test.outcome = "skipped"
          /\ pos' = pos + 1
          /\ UNCHANGED <<run, stage, pmUp, dirs, completed, left>>
       \/ /\ Test.outcome = "raised"
          /\ Crash
          /\ UNCHANGED dirs
    /\ UNCHANGED <<faults, pmVars, diskVars, listed>>

(* alter_vm.sh removes vm_ips.txt and, VM after VM, writes its line, sets the*)
(* memory, and undefines and defines the VM. Nothing is looked at: a VM whose*)
(* virsh fails keeps its memory (old) or has no definition any more (gone),  *)
(* and one without a definition is not defined again. The script is stopped, *)
(* or one of its virsh fails, where lines[p] tells how many lines it wrote;  *)
(* where it does not run there are no lines[p]. Faulty variant: the old      *)
(* vm_ips.txt is not removed.                                                *)
Halfway(lines) == {v \in VMs : v[1] \in DOMAIN lines /\ v[2] < lines[v[1]]}
Altered(ok, lines) == {v \in VMs : v[1] \in ok /\ v[2] < Test.vms[v[1]]} \union Halfway(lines)
DefineVMs(ok, lines, old, gone) ==
    defined' = [v \in VMs |->
        IF v \notin Altered(ok, lines) \ old \/ defined[v] = Undefined THEN defined[v]
        ELSE IF v \in gone THEN Undefined ELSE Cur]

AlterOnAppending(ok, lines, old, gone) ==
    /\ vmIps' = [p \in PMs |->
          IF p \in ok
          THEN IF vmIps[p] + Test.vms[p] > MaxVMs THEN MaxVMs ELSE vmIps[p] + Test.vms[p]
          ELSE vmIps[p]]
    /\ DefineVMs(ok, lines, old, gone)
AlterOn(ok, lines, old, gone) ==
    /\ vmIps' = [p \in PMs |-> IF p \in ok THEN Test.vms[p]
                               ELSE IF p \in DOMAIN lines THEN lines[p] ELSE vmIps[p]]
    /\ DefineVMs(ok, lines, old, gone)

(* With a PM that is None the call raises after the PMs before it were given *)
(* their command.                                                            *)
AlterVMs ==
    /\ stage = "alter"
    /\ LET given == {p \in PMs : 1 .. p \subseteq pmUp}
       IN \E lost \in SUBSET given : \E begun \in SUBSET lost :
          \E lines \in [begun -> 0 .. MaxVMs] :
          \E old \in SUBSET Halfway(lines) : \E gone \in SUBSET Halfway(lines) :
             /\ Fails("alter", lost)
             /\ \A p \in begun : lines[p] <= Test.vms[p]
             /\ AlterOn(given \ lost, lines, old, gone)
             /\ IF given = PMs
                THEN stage' = "list" /\ UNCHANGED <<run, pos, pmUp, completed, left>>
                ELSE Crash
    /\ UNCHANGED <<dirs, boot, mem, diskVars, listed, results>>

(* vm_ips.txt is fetched from each PM. A file that is not there cannot be    *)
(* opened; one whose transfer breaks (cut) is there with its first lines or  *)
(* empty, and is read like any other.                                        *)
ListVMs ==
    /\ stage = "list"
    /\ \E lost \in SUBSET PMs : \E cut \in SUBSET lost : \E got \in [cut -> 0 .. MaxVMs] :
         /\ Fails("list", lost)
         /\ \A p \in cut : got[p] <= vmIps[p]
         /\ IF lost = cut /\ \A p \in PMs : vmIps[p] > 0
            THEN /\ listed' = [p \in PMs |-> IF p \in cut THEN got[p] ELSE vmIps[p]]
                 /\ stage' = "start"
                 /\ UNCHANGED <<run, pos, pmUp, completed, left>>
            ELSE Crash /\ UNCHANGED listed
    /\ UNCHANGED <<dirs, pmVars, diskVars, results>>

(* operate_vm.sh start: a VM that runs already is left as it is, one without *)
(* a definition does not start. Faulty variant: the last VM of each PM is    *)
(* forgotten.                                                                *)
Startable(S) == {v \in S \ On : defined[v] # Undefined}
BootOneLess(S) ==
    /\ boot' = [v \in VMs |->
          IF v \in Startable(S) /\ v[2] + 1 < listed[v[1]] THEN Cur ELSE boot[v]]
    /\ mem' = [v \in VMs |-> IF v \in Startable(S) THEN defined[v] ELSE mem[v]]
Boot(S) ==
    /\ boot' = [v \in VMs |-> IF v \in Startable(S) THEN Cur ELSE boot[v]]
    /\ mem' = [v \in VMs |-> IF v \in Startable(S) THEN defined[v] ELSE mem[v]]
StartVMs ==
    /\ stage = "start"
    /\ \E lost \in SUBSET PMs : \E some \in SUBSET OnMachines(lost) :
         Fails("start", lost) /\ Boot(OnMachines(PMs \ lost) \union some)
    /\ stage' = "wait"
    /\ UNCHANGED <<run, pos, pmUp, dirs, completed, vmIps, defined, diskVars, listed,
                   results, left>>

(* wait_for_all_vms_to_start: whether it was in time is not looked at.       *)
WaitForVMs ==
    /\ stage = "wait"
    /\ stage' = "mem1"
    /\ UNCHANGED <<run, pos, faults, pmUp, dirs, completed, pmVars, diskVars, testVars, left>>

(* get_mem_usage_of_all_pms: text that is not a number raises an exception.  *)
MeasureMemory(here, next) ==
    /\ stage = here
    /\ \/ /\ stage' = next /\ NoFault
          /\ UNCHANGED <<run, pos, pmUp, completed, left>>
       \/ \E p \in PMs : Fails("mem", {p}) /\ Crash
    /\ UNCHANGED <<dirs, pmVars, diskVars, listed, results>>

(* Connections are tried until all VMs are reached at once; an attempt that  *)
(* fails leaves everything as it was.                                        *)
ConnectVMs ==
    /\ stage = "connect" /\ Listed \subseteq On
    /\ stage' = "prepare"
    /\ UNCHANGED <<run, pos, faults, pmUp, dirs, completed, pmVars, diskVars, testVars, left>>

(* The code is synchronised, which restores the server_config.json of the    *)
(* repository, and the one of this test is sent; a transfer that breaks (cut)*)
(* leaves its beginning. Without a VM the pool of threads cannot be made.    *)
PrepareEnv ==
    /\ stage = "prepare" /\ Listed # {}
    /\ \E unsynced \in SUBSET Listed : \E lost \in SUBSET Listed : \E cut \in SUBSET lost :
         /\ faults + Cardinality(unsynced) + Cardinality(lost) <= MaxFaults
         /\ faults' = faults + Cardinality(unsynced) + Cardinality(lost)
         /\ trouble' = trouble \union {<<"config", v>> : v \in lost}
         /\ config' = [v \in VMs |-> CASE v \in Listed \ lost -> Cur
                                       [] v \in cut -> Broken
                                       [] v \in (lost \ cut) \ unsynced -> None
                                       [] OTHER -> config[v]]
    /\ stage' = "split"
    /\ UNCHANGED <<run, pos, pmUp, dirs, completed, pmVars, files, setupLog, listed,
                   results, left>>

NoVMs ==
    /\ stage = "prepare" /\ Listed = {} /\ Crash
    /\ UNCHANGED <<faults, dirs, pmVars, diskVars, testVars>>

(* The partition over the VMs, which writes the files that are sent next.    *)
(* The nodes of a PM without VMs have no server, which raises an exception.  *)
SplitTopology ==
    /\ stage = "split"
    /\ \/ /\ stage' = "send" /\ UNCHANGED <<run, pos, faults, pmUp, completed, left>>
       \/ /\ \/ faults < MaxFaults /\ faults' = faults + 1
             \/ (\E p \in PMs : listed[p] = 0) /\ UNCHANGED faults
          /\ Crash
    /\ UNCHANGED <<dirs, pmVars, diskVars, testVars>>

(* Faulty variant: a file that is there already is not sent again.           *)
ReceiversMissing(lost) == {v \in Listed \ lost : files[v][FileOf(v)] = None}
Receivers(lost) == Listed \ lost
DistributeSubTopos ==
    /\ stage = "send"
    /\ \E lost \in SUBSET Listed : \E cut \in SUBSET lost :
         /\ Fails("sub", lost)
         /\ files' = [v \in VMs |->
                CASE v \in Receivers(lost) -> [files[v] EXCEPT ![FileOf(v)] = Cur]
                  [] v \in cut -> [files[v] EXCEPT ![FileOf(v)] = Broken]
                  [] OTHER -> files[v]]
    /\ stage' = "setup"
    /\ UNCHANGED <<run, pos, pmUp, dirs, completed, pmVars, config, setupLog, listed,
                   results, left>>

(* The agent of each VM sets up the network of its file; its log replaces    *)
(* the one before. But it ends before it opens its log if it cannot read its *)
(* configuration or finds no server of its number there; the repository's has*)
(* one server, one of an earlier test may have too few, or another directory.*)
LogOf(v) == [test |-> Cur, sub |-> files[v][FileOf(v)], config |-> config[v]]
NoServer == {v \in Listed : config[v] = Broken \/ (config[v] = None /\ ServerId(v) > 0)}
SetUpNetworks ==
    /\ stage = "setup"
    /\ \E lost \in SUBSET Listed :
       \E silent \in SUBSET (lost \union {v \in Listed : config[v] # Cur}) :
         /\ Fails("setup", lost)
         /\ NoServer \subseteq silent
         /\ setupLog' = [v \in VMs |-> IF v \in Listed \ silent THEN LogOf(v) ELSE setupLog[v]]
    /\ stage' = "mem2"
    /\ UNCHANGED <<run, pos, pmUp, dirs, completed, pmVars, files, config, listed,
                   results, left>>

(* A log that was lost may have arrived in part.                             *)
ReapResults ==
    /\ stage = "reap"
    /\ \E lost \in SUBSET Listed : \E cut \in SUBSET lost :
         /\ Fails("reap", lost)
         /\ results' = [v \in VMs |->
                          IF v \in (Listed \ lost) \union cut THEN setupLog[v] ELSE NoLog]
    /\ stage' = "destroy"
    /\ UNCHANGED <<run, pos, pmUp, dirs, completed, pmVars, diskVars, listed, left>>

(* Connections are closed, then operate_vm.sh destroy. Faulty variant: the   *)
(* last VM of each PM is forgotten.                                          *)
ShutDownOneLess(S) ==
    boot' = [v \in VMs |-> IF v \in S /\ v[2] + 1 < listed[v[1]] THEN None ELSE boot[v]]
ShutDown(S) == boot' = [v \in VMs |-> IF v \in S THEN None ELSE boot[v]]
DestroyVMs ==
    /\ stage = "destroy"
    /\ \E lost \in SUBSET PMs : \E some \in SUBSET OnMachines(lost) :
         /\ Fails("destroy", lost)
         /\ ShutDown(OnMachines(PMs \ lost) \union some)
         /\ left' = (left \ OnMachines(PMs \ lost)) \union (OnMachines(lost) \ some)
    /\ stage' = "mem3"
    /\ UNCHANGED <<run, pos, pmUp, dirs, completed, vmIps, defined, mem, diskVars, listed,
                   results>>

(* The memory usage is written and the test is over.                         *)
FinishTest ==
    /\ stage = "finish"
    /\ completed' = completed \union {Dir}
    /\ pos' = pos + 1 /\ stage' = "next"
    /\ UNCHANGED <<run, faults, pmUp, dirs, pmVars, diskVars, testVars, left>>

Next ==
    \/ ConnectPMs \/ EndRun \/ SkipTest \/ BeginTest
    \/ AlterVMs \/ ListVMs \/ StartVMs \/ WaitForVMs
    \/ MeasureMemory("mem1", "connect") \/ ConnectVMs \/ PrepareEnv \/ NoVMs
    \/ SplitTopology \/ DistributeSubTopos \/ SetUpNetworks
    \/ MeasureMemory("mem2", "reap") \/ ReapResults \/ DestroyVMs
    \/ MeasureMemory("mem3", "finish") \/ FinishTest

Spec == Init /\ [][Next]_vars /\ WF_vars(Next)

-----------------------------------------------------------------------------
(* Properties                                                                *)

Tests == Nat \X Nat
Logs == [test : Tests, sub : Tests, config : Tests]
TestStages == {"alter", "list", "start", "wait", "mem1", "connect", "prepare", "split",
               "send", "setup", "mem2", "reap", "destroy", "mem3", "finish"}

TypeOK ==
    /\ run \in 1 .. Len(Batch) + 1 /\ pos \in Nat \ {0}
    /\ stage \in TestStages \union {"begin", "next", "done"}
    /\ stage # "done" => run <= Len(Batch)
    /\ stage \in TestStages => pos <= Len(Batch[run])
    /\ pmUp \subseteq PMs /\ left \subseteq VMs
    /\ vmIps \in [PMs -> 0 .. MaxVMs] /\ listed \in [PMs -> 0 .. MaxVMs]
    /\ defined \in [VMs -> Tests] /\ boot \in [VMs -> Tests] /\ mem \in [VMs -> Tests]
    /\ files \in [VMs -> [Names -> Tests]] /\ config \in [VMs -> Tests]
    /\ setupLog \in [VMs -> Logs] /\ results \in [VMs -> Logs]

(* Before a test starts its VMs no VM runs but those an exception or a       *)
(* failed destroy left behind, over all processes of the batch: the VMs a    *)
(* test destroys are those it started.                                       *)
CleanStart ==
    stage \in {"begin", "next", "alter", "list", "start", "done"} => On \subseteq left

(* A test runs on no VMs but those planned for it, with the memory planned   *)
(* for them, unless altering failed on their PM or the VM was left running;  *)
(* and on all of them unless vm_ips.txt did not arrive as a whole, which the *)
(* test takes for a shorter list (vm_manage.py:83).                          *)
UsingVMs == stage \in {"wait", "mem1", "connect", "prepare", "split", "send", "setup",
                       "mem2", "reap", "destroy"}
PlannedVMs ==
    UsingVMs =>
        \A v \in VMs : <<"alter", v[1]>> \in trouble
            \/ /\ v \in Listed => v[2] < Test.vms[v[1]]
               /\ v[2] < Test.vms[v[1]] => v \in Listed \/ <<"list", v[1]>> \in trouble
               /\ v \in (Listed \intersect On) \ left => boot[v] = Cur /\ mem[v] = Cur

(* A log in a test's directory is of a set-up of this test, unless the       *)
(* command, or the transfer of the configuration without which the agent does*)
(* not come to its log (main.go:297), failed on that VM; and then it is of   *)
(* this test's sub-topology and configuration unless their transfer failed:  *)
(* the disks keep the files of earlier tests.                                *)
OwnResults ==
    stage \in {"destroy", "mem3", "finish"} => \A v \in VMs : results[v] # NoLog =>
        IF results[v].test = Cur
        THEN /\ results[v].sub = Cur \/ <<"sub", v>> \in trouble
             /\ results[v].config = Cur \/ <<"config", v>> \in trouble
        ELSE <<"setup", v>> \in trouble \/ <<"config", v>> \in trouble

(* "Current test has been completed before, skip current iteration": a test  *)
(* is never skipped because one before it failed half-way.                   *)
SkipsOnlyCompleted ==
    stage = "next" /\ pos <= Len(Batch[run]) /\ Dir \in dirs => Dir \in completed

(* The batch ends unless a VM is waited for that did not start, be it that   *)
(* its start failed or that altering it, now or in an earlier test, left it  *)
(* without a definition.                                                     *)
Awaited == \E v \in Listed \ On : <<"start", v[1]>> \in trouble \/ defined[v] = Undefined
BatchEnds == <>(stage = "done") \/ <>[](stage = "connect" /\ Awaited)
=============================================================================
