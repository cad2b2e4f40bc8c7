------------------------- MODULE CoordinatorProofs --------------------------
(* Proofs about Coordinator for every batch, every number of machines and    *)
(* any number of failures.                                                   *)
EXTENDS Coordinator, FiniteSetTheorems, TLAPS

Use == {"wait", "mem1", "connect", "prepare", "split", "send", "setup", "mem2", "reap",
        "destroy"}

(* What a directory holds is of this run or an earlier one, and if it is of  *)
(* this run, of a complete test or of the one being made.                    *)
DirInv ==
    \A d \in dirs : \E r \in 1 .. run, t \in Topos :
        /\ d = <<r, t>>
        /\ r = run => d \in completed \/ (stage \in TestStages /\ d = Dir)

(* Running VMs were left behind or belong to the test being made.            *)
CleanInv == On \subseteq left \union (IF stage \in Use THEN Listed ELSE {})

-----------------------------------------------------------------------------
LEMMA BatchTests ==
    ASSUME NEW r \in 1 .. Len(Batch), NEW k \in 1 .. Len(Batch[r])
    PROVE  /\ Batch[r][k].topo \in Topos
           /\ Batch[r][k].vms \in [PMs -> 1 .. MaxVMs]
BY CoordinatorAssumption

(* The number of a listed server is within the numbers of files.             *)
LEMMA ServerIds ==
    ASSUME NEW v \in VMs
    PROVE  ServerId(v) \in 0 .. P * MaxVMs - 1
<1>1. IsFiniteSet(PMs) /\ Cardinality(PMs) = P
  BY FS_Interval, CoordinatorAssumption DEF PMs
<1>2. IsFiniteSet(0 .. MaxVMs - 1) /\ Cardinality(0 .. MaxVMs - 1) = MaxVMs
  BY FS_Interval, CoordinatorAssumption
<1>3. IsFiniteSet(VMs) /\ Cardinality(VMs) = P * MaxVMs
  BY <1>1, <1>2, FS_Product DEF VMs
<1>4. IsFiniteSet(VMs \ {v}) /\ Cardinality(VMs \ {v}) = P * MaxVMs - 1
  BY <1>3, FS_RemoveElement
<1>5. ServersBefore(v) \subseteq VMs \ {v}
  <2>1. v[1] \in PMs /\ v[2] \in 0 .. MaxVMs - 1
    BY DEF VMs
  <2>2. v \notin ServersBefore(v)
    BY <2>1, CoordinatorAssumption DEF ServersBefore, PMs
  <2> QED
    BY <2>2 DEF ServersBefore, Listed, First
<1>6. Cardinality(ServersBefore(v)) \in Nat
      /\ Cardinality(ServersBefore(v)) <= P * MaxVMs - 1
  BY <1>4, <1>5, FS_Subset, FS_CardinalityType
<1>7. P * MaxVMs \in Nat
  BY CoordinatorAssumption
<1> QED
  BY <1>6, <1>7 DEF ServerId

LEMMA CurIsTest ==
    ASSUME TypeOK
    PROVE  /\ Cur \in Tests /\ None \in Tests /\ Cur # None
           /\ Undefined \in Tests /\ Broken \in Tests /\ NoLog \in Logs
  BY DEF TypeOK, Cur, None, Undefined, Broken, Tests, NoLog, Logs

LEMMA TestIsPlanned ==
    ASSUME TypeOK, stage \in TestStages
    PROVE  /\ Test.topo \in Topos /\ Test.vms \in [PMs -> 1 .. MaxVMs]
           /\ \A v \in VMs : FileOf(v) \in Names
<1>1. stage # "done"
  BY DEF TestStages
<1>2. run \in 1 .. Len(Batch) /\ pos \in 1 .. Len(Batch[run])
  BY <1>1, CoordinatorAssumption DEF TypeOK
<1>3. Test.topo \in Topos /\ Test.vms \in [PMs -> 1 .. MaxVMs]
  BY <1>2, BatchTests DEF Test
<1> QED
  BY <1>3, ServerIds DEF FileOf, Names
-----------------------------------------------------------------------------
(* Type correctness                                                          *)

LEMMA InitType == Init => TypeOK
BY CoordinatorAssumption DEF Init, TypeOK, Tests, Logs, None, NoLog, TestStages

(* The end of a process, by an exception or not.                             *)
LEMMA EndType ==
    ASSUME TypeOK, run <= Len(Batch), EndProcess, pmUp' = pmUp
    PROVE  /\ run' \in 1 .. Len(Batch) + 1 /\ pos' \in Nat \ {0}
           /\ stage' \in {"begin", "done"}
           /\ stage' # "done" => run' <= Len(Batch)
           /\ stage' \notin TestStages
           /\ pmUp' \subseteq PMs
BY CoordinatorAssumption DEF TypeOK, EndProcess, TestStages

(* A step to another stage of the test.                                      *)
LEMMA StageType ==
    ASSUME TypeOK, stage \in TestStages, stage' \in TestStages,
           UNCHANGED <<run, pos, pmUp>>
    PROVE  /\ run' \in 1 .. Len(Batch) + 1 /\ pos' \in Nat \ {0}
           /\ stage' \in TestStages \union {"begin", "next", "done"}
           /\ stage' # "done" => run' <= Len(Batch)
           /\ stage' \in TestStages => pos' <= Len(Batch[run'])
           /\ pmUp' \subseteq PMs
BY DEF TypeOK, TestStages

LEMMA OnAreVMs ==
    /\ On \subseteq VMs /\ Listed \subseteq VMs
    /\ \A S : OnMachines(S) \subseteq VMs
BY DEF On, Listed, First, OnMachines

LEMMA NextType ==
    ASSUME TypeOK, [Next]_vars
    PROVE  TypeOK'
<1> USE DEF batchVars, pmVars, diskVars, testVars
<1>1. CASE ConnectPMs
  BY <1>1 DEF ConnectPMs, TypeOK, TestStages
<1>2. CASE EndRun
  BY <1>2, EndType DEF EndRun, TypeOK, TestStages
<1>3. CASE SkipTest
  BY <1>3 DEF SkipTest, TypeOK, TestStages
<1>4. CASE BeginTest
  <2>1. results' \in [VMs -> Logs]
    BY <1>4, CurIsTest DEF BeginTest
  <2>2. run <= Len(Batch) /\ pos <= Len(Batch[run])
    BY <1>4 DEF BeginTest, TypeOK
  <2>3. CASE Crash
    BY <1>4, <2>1, <2>2, <2>3, EndType, OnAreVMs DEF BeginTest, Crash, TypeOK
  <2>4. CASE ~Crash
    BY <1>4, <2>1, <2>2, <2>4 DEF BeginTest, TypeOK, TestStages
  <2> QED
    BY <2>3, <2>4
<1>5. CASE AlterVMs
  <2>1. stage \in TestStages /\ run <= Len(Batch)
    BY <1>5 DEF AlterVMs, TestStages, TypeOK
  <2>2. PICK ok \in SUBSET PMs, lines \in UNION {[S -> 0 .. MaxVMs] : S \in SUBSET PMs},
             old \in SUBSET VMs, gone \in SUBSET VMs :
           AlterOn(ok, lines, old, gone)
    BY <1>5 DEF AlterVMs, Halfway
  <2>3. vmIps' \in [PMs -> 0 .. MaxVMs]
    <3>1. Test.vms \in [PMs -> 1 .. MaxVMs]
      BY <2>1, TestIsPlanned
    <3>2. \A p \in PMs : Test.vms[p] \in 0 .. MaxVMs
      BY <3>1, CoordinatorAssumption
    <3> QED
      BY <2>2, <3>2 DEF AlterOn, TypeOK
  <2>4. defined' \in [VMs -> Tests]
    BY <2>2, CurIsTest DEF AlterOn, DefineVMs, TypeOK
  <2>5. CASE Crash
    BY <1>5, <2>1, <2>3, <2>4, <2>5, EndType, OnAreVMs DEF AlterVMs, Crash, TypeOK
  <2>6. CASE ~Crash
    <3>1. stage' = "list" /\ UNCHANGED <<run, pos, pmUp, completed, left>>
      BY <1>5, <2>6 DEF AlterVMs
    <3> QED
      BY <1>5, <2>1, <2>3, <2>4, <3>1, StageType DEF AlterVMs, TypeOK, TestStages
  <2> QED
    BY <2>5, <2>6
<1>6. CASE ListVMs
  <2>1. stage \in TestStages /\ run <= Len(Batch)
    BY <1>6 DEF ListVMs, TestStages, TypeOK
  <2>2. CASE Crash /\ UNCHANGED listed
    BY <1>6, <2>1, <2>2, EndType, OnAreVMs DEF ListVMs, Crash, TypeOK
  <2>3. ASSUME NEW cut \in SUBSET PMs, NEW got \in [cut -> 0 .. MaxVMs],
               listed' = [p \in PMs |-> IF p \in cut THEN got[p] ELSE vmIps[p]],
               stage' = "start", UNCHANGED <<run, pos, pmUp, completed, left>>
        PROVE  TypeOK'
    <3>1. listed' \in [PMs -> 0 .. MaxVMs]
      BY <2>3 DEF TypeOK
    <3> QED
      BY <1>6, <2>1, <2>3, <3>1, StageType DEF ListVMs, TypeOK, TestStages
  <2> QED
    BY <1>6, <2>2, <2>3 DEF ListVMs
<1>7. CASE StartVMs
  <2>1. PICK S : Boot(S)
    BY <1>7 DEF StartVMs
  <2>2. boot' \in [VMs -> Tests] /\ mem' \in [VMs -> Tests]
    BY <2>1, CurIsTest DEF Boot, Startable, TypeOK
  <2> QED
    BY <1>7, <2>2, StageType DEF StartVMs, TypeOK, TestStages
<1>8. CASE WaitForVMs \/ ConnectVMs
  BY <1>8, StageType DEF WaitForVMs, ConnectVMs, TypeOK, TestStages
<1>9. ASSUME NEW here \in TestStages, NEW next \in TestStages, MeasureMemory(here, next)
      PROVE  TypeOK'
  <2>1. run <= Len(Batch)
    BY <1>9 DEF MeasureMemory, TestStages, TypeOK
  <2>2. CASE Crash
    BY <1>9, <2>1, <2>2, EndType, OnAreVMs DEF MeasureMemory, Crash, TypeOK
  <2>3. CASE stage' = next /\ UNCHANGED <<run, pos, pmUp, completed, left>>
    BY <1>9, <2>1, <2>3, StageType DEF MeasureMemory, TypeOK
  <2> QED
    BY <1>9, <2>2, <2>3 DEF MeasureMemory
<1>10. CASE PrepareEnv
  <2>1. config' \in [VMs -> Tests]
    <3>1. PICK unsynced \in SUBSET Listed, lost \in SUBSET Listed :
             \E cut \in SUBSET lost :
                config' = [v \in VMs |-> CASE v \in Listed \ lost -> Cur
                                           [] v \in cut -> Broken
                                           [] v \in (lost \ cut) \ unsynced -> None
                                           [] OTHER -> config[v]]
      BY <1>10 DEF PrepareEnv
    <3> QED
      BY <3>1, CurIsTest DEF TypeOK
  <2> QED
    BY <1>10, <2>1, StageType DEF PrepareEnv, TypeOK, TestStages
<1>11. CASE SplitTopology
  <2>1. stage \in TestStages /\ run <= Len(Batch)
    BY <1>11 DEF SplitTopology, TestStages, TypeOK
  <2>2. CASE Crash
    BY <1>11, <2>1, <2>2, EndType, OnAreVMs DEF SplitTopology, Crash, TypeOK
  <2>3. CASE stage' = "send" /\ UNCHANGED <<run, pos, faults, pmUp, completed, left>>
    BY <1>11, <2>1, <2>3, StageType DEF SplitTopology, TypeOK, TestStages
  <2> QED
    BY <1>11, <2>2, <2>3 DEF SplitTopology
<1>12. CASE DistributeSubTopos
  <2>1. PICK lost \in SUBSET Listed, cut \in SUBSET Listed :
           files' = [v \in VMs |->
                CASE v \in Receivers(lost) -> [files[v] EXCEPT ![FileOf(v)] = Cur]
                  [] v \in cut -> [files[v] EXCEPT ![FileOf(v)] = Broken]
                  [] OTHER -> files[v]]
    BY <1>12 DEF DistributeSubTopos
  <2>2. ASSUME NEW v \in VMs
        PROVE  files'[v] \in [Names -> Tests]
    <3>1. files[v] \in [Names -> Tests]
      BY DEF TypeOK
    <3>2. /\ [files[v] EXCEPT ![FileOf(v)] = Cur] \in [Names -> Tests]
          /\ [files[v] EXCEPT ![FileOf(v)] = Broken] \in [Names -> Tests]
      BY <3>1, CurIsTest
    <3> QED
      BY <2>1, <3>1, <3>2
  <2>3. files' \in [VMs -> [Names -> Tests]]
    BY <2>1, <2>2
  <2> QED
    BY <1>12, <2>3, StageType DEF DistributeSubTopos, TypeOK, TestStages
<1>13. CASE SetUpNetworks
  <2>1. \A v \in VMs : LogOf(v) \in Logs
    BY <1>13, CurIsTest, TestIsPlanned DEF SetUpNetworks, TestStages, LogOf, Logs, TypeOK
  <2>2. setupLog' \in [VMs -> Logs]
    BY <1>13, <2>1 DEF SetUpNetworks, TypeOK
  <2> QED
    BY <1>13, <2>2, StageType DEF SetUpNetworks, TypeOK, TestStages
<1>14. CASE ReapResults
  <2>1. results' \in [VMs -> Logs]
    BY <1>14, CurIsTest DEF ReapResults, TypeOK
  <2> QED
    BY <1>14, <2>1, StageType DEF ReapResults, TypeOK, TestStages
<1>15. CASE DestroyVMs
  <2>1. boot' \in [VMs -> Tests]
    BY <1>15, CurIsTest DEF DestroyVMs, ShutDown, TypeOK
  <2>2. left' \subseteq VMs
    BY <1>15, OnAreVMs DEF DestroyVMs, TypeOK
  <2> QED
    BY <1>15, <2>1, <2>2, StageType DEF DestroyVMs, TypeOK, TestStages
<1>16. CASE FinishTest
  BY <1>16 DEF FinishTest, TypeOK, TestStages
<1>17. CASE NoVMs
  <2>1. run <= Len(Batch)
    BY <1>17 DEF NoVMs, TestStages, TypeOK
  <2> QED
    BY <1>17, <2>1, EndType, OnAreVMs DEF NoVMs, Crash, TypeOK
<1>18. CASE UNCHANGED vars
  BY <1>18 DEF vars, TypeOK
<1> QED
  BY <1>1, <1>2, <1>3, <1>4, <1>5, <1>6, <1>7, <1>8, <1>9, <1>10, <1>11, <1>12, <1>13,
     <1>14, <1>15, <1>16, <1>17, <1>18 DEF Next, TestStages

(* Every variable has a value the code can give it.                          *)
THEOREM TypeInvariant == Spec => []TypeOK
<1>1. Init => TypeOK
  BY InitType
<1>2. TypeOK /\ [Next]_vars => TypeOK'
  BY NextType
<1> QED
  BY <1>1, <1>2, PTL DEF Spec
-----------------------------------------------------------------------------
(* VMs that run                                                              *)

(* An exception counts all running VMs as left behind.                       *)
LEMMA CrashClean ==
    ASSUME TypeOK, Crash, UNCHANGED boot
    PROVE  CleanInv'
<1>1. On' = On
  BY DEF On
<1>2. left' = On
  BY DEF Crash
<1>3. stage' \notin Use
  BY DEF Crash, EndProcess, Use
<1> QED
  BY <1>1, <1>2, <1>3 DEF CleanInv

(* A step that starts no VM and leaves the list and the VMs in use alone.    *)
LEMMA QuietClean ==
    ASSUME CleanInv, UNCHANGED <<boot, left>>,
           stage \in Use => stage' \in Use /\ UNCHANGED listed
    PROVE  CleanInv'
BY DEF CleanInv, On, Listed, First

LEMMA NextClean ==
    ASSUME TypeOK, CleanInv, [Next]_vars
    PROVE  CleanInv'
<1> USE DEF batchVars, pmVars, diskVars, testVars, Use
<1>1. CASE ConnectPMs \/ EndRun \/ SkipTest
  BY <1>1, QuietClean DEF ConnectPMs, EndRun, SkipTest, EndProcess
<1>2. CASE BeginTest
  BY <1>2, QuietClean, CrashClean DEF BeginTest
<1>3. CASE AlterVMs
  BY <1>3, QuietClean, CrashClean DEF AlterVMs
<1>4. CASE ListVMs
  BY <1>4, QuietClean, CrashClean DEF ListVMs
<1>5. CASE StartVMs
  <2>1. PICK S \in SUBSET Listed : Boot(S)
    BY <1>5 DEF StartVMs, OnMachines
  <2>2. On' \subseteq On \union Listed
    BY <2>1 DEF Boot, Startable, On
  <2>3. Listed' = Listed
    BY <1>5 DEF StartVMs, Listed, First
  <2>4. On \subseteq left /\ left' = left /\ stage' \in Use
    BY <1>5 DEF StartVMs, CleanInv
  <2> QED
    BY <2>2, <2>3, <2>4 DEF CleanInv
<1>6. CASE WaitForVMs \/ ConnectVMs \/ PrepareEnv \/ DistributeSubTopos
             \/ SetUpNetworks \/ ReapResults
  BY <1>6, QuietClean DEF WaitForVMs, ConnectVMs, PrepareEnv, DistributeSubTopos,
       SetUpNetworks, ReapResults
<1>7. CASE SplitTopology \/ NoVMs
  BY <1>7, QuietClean, CrashClean DEF SplitTopology, NoVMs
<1>8. CASE MeasureMemory("mem1", "connect") \/ MeasureMemory("mem2", "reap")
             \/ MeasureMemory("mem3", "finish")
  BY <1>8, QuietClean, CrashClean DEF MeasureMemory
<1>9. CASE DestroyVMs
  <2>1. PICK lost \in SUBSET PMs : \E some \in SUBSET OnMachines(lost) :
          /\ ShutDown(OnMachines(PMs \ lost) \union some)
          /\ left' = (left \ OnMachines(PMs \ lost)) \union (OnMachines(lost) \ some)
    BY <1>9 DEF DestroyVMs
  <2>2. PICK some \in SUBSET OnMachines(lost) :
          /\ ShutDown(OnMachines(PMs \ lost) \union some)
          /\ left' = (left \ OnMachines(PMs \ lost)) \union (OnMachines(lost) \ some)
    BY <2>1
  <2>3. On' = On \ (OnMachines(PMs \ lost) \union some)
    BY <2>2 DEF ShutDown, On
  <2>4. Listed = OnMachines(PMs \ lost) \union OnMachines(lost)
    BY DEF OnMachines, Listed, First, VMs
  <2>5. On \subseteq left \union Listed
    BY <1>9 DEF DestroyVMs, CleanInv
  <2> QED
    BY <1>9, <2>2, <2>3, <2>4, <2>5 DEF CleanInv, DestroyVMs
<1>10. CASE FinishTest
  BY <1>10, QuietClean DEF FinishTest
<1>11. CASE UNCHANGED vars
  BY <1>11, QuietClean DEF vars
<1> QED
  BY <1>1, <1>2, <1>3, <1>4, <1>5, <1>6, <1>7, <1>8, <1>9, <1>10, <1>11 DEF Next

(* No test finds a VM running that was not left behind by an exception or a  *)
(* failed destroy.                                                           *)
THEOREM StartsAreClean == Spec => []CleanStart
<1>1. Init => CleanInv
  BY DEF Init, CleanInv, On, Use
<1>2. TypeOK /\ CleanInv /\ [Next]_vars => CleanInv'
  BY NextClean
<1>3. CleanInv => CleanStart
  BY DEF CleanInv, CleanStart, Use
<1> QED
  BY <1>1, <1>2, <1>3, TypeInvariant, PTL DEF Spec

-----------------------------------------------------------------------------
(* Result directories                                                        *)

LEMMA EndDirs ==
    ASSUME TypeOK, DirInv, run <= Len(Batch), EndProcess, dirs' \subseteq dirs \union {Dir},
           Test.topo \in Topos \/ dirs' = dirs
    PROVE  DirInv'
<1> SUFFICES ASSUME NEW d \in dirs'
             PROVE  \E r \in 1 .. run', t \in Topos :
                      d = <<r, t>> /\ (r = run' => d \in completed' \/ (stage' \in TestStages /\ d = Dir'))
  BY DEF DirInv
<1>1. run \in Nat \ {0} /\ run' = run + 1
  BY DEF TypeOK, EndProcess
<1>2. \E r \in 1 .. run, t \in Topos : d = <<r, t>>
  BY <1>1 DEF DirInv, Dir
<1> QED
  BY <1>1, <1>2

(* Within a test nothing that the invariant is about changes.                *)
LEMMA StageDirs ==
    ASSUME DirInv, UNCHANGED <<run, pos, dirs, completed>>,
           stage \in TestStages => stage' \in TestStages
    PROVE  DirInv'
<1>1. Dir' = Dir
  BY DEF Dir, Test
<1> QED
  BY <1>1 DEF DirInv

LEMMA NextDirs ==
    ASSUME TypeOK, DirInv, [Next]_vars
    PROVE  DirInv'
<1> USE DEF batchVars, pmVars, diskVars, testVars
<1>0. stage \in TestStages => run <= Len(Batch)
  BY DEF TypeOK, TestStages
<1>1. CASE ConnectPMs
  BY <1>1, StageDirs DEF ConnectPMs, TestStages
<1>2. CASE EndRun
  BY <1>2, EndDirs DEF EndRun, TypeOK
<1>3. CASE SkipTest
  BY <1>3 DEF SkipTest, DirInv, TestStages
<1>4. CASE BeginTest
  <2>1. run \in 1 .. Len(Batch) /\ pos \in 1 .. Len(Batch[run])
    BY <1>4, CoordinatorAssumption DEF BeginTest, TypeOK
  <2>2. CASE dirs' = dirs \union {Dir} /\ stage' = "alter" /\ UNCHANGED <<run, pos, completed>>
    <3>1. Test.topo \in Topos
      BY <2>1, BatchTests DEF Test
    <3>2. Dir' = Dir
      BY <2>2 DEF Dir, Test
    <3>3. run \in 1 .. run
      BY DEF TypeOK
    <3> QED
      BY <1>4, <2>2, <3>1, <3>2, <3>3 DEF DirInv, Dir, TestStages, BeginTest
  <2>3. CASE pos' = pos + 1 /\ UNCHANGED <<run, stage, dirs, completed>>
    BY <1>4, <2>3 DEF BeginTest, DirInv, TestStages
  <2>4. CASE Crash /\ UNCHANGED dirs
    BY <2>1, <2>4, EndDirs DEF Crash
  <2> QED
    BY <1>4, <2>2, <2>3, <2>4 DEF BeginTest
<1>5. CASE AlterVMs
  BY <1>0, <1>5, StageDirs, EndDirs DEF AlterVMs, Crash, TestStages
<1>6. CASE ListVMs
  BY <1>0, <1>6, StageDirs, EndDirs DEF ListVMs, Crash, TestStages
<1>7. CASE \/ StartVMs \/ WaitForVMs \/ ConnectVMs \/ PrepareEnv \/ DistributeSubTopos
           \/ SetUpNetworks \/ ReapResults \/ DestroyVMs
  BY <1>7, StageDirs DEF StartVMs, WaitForVMs, ConnectVMs, PrepareEnv,
       DistributeSubTopos, SetUpNetworks, ReapResults, DestroyVMs, TestStages
<1>8. CASE SplitTopology \/ NoVMs
  BY <1>0, <1>8, StageDirs, EndDirs DEF SplitTopology, NoVMs, Crash, TestStages
<1>9. CASE MeasureMemory("mem1", "connect") \/ MeasureMemory("mem2", "reap")
             \/ MeasureMemory("mem3", "finish")
  BY <1>0, <1>9, StageDirs, EndDirs DEF MeasureMemory, Crash, TestStages
<1>10. CASE FinishTest
  BY <1>10 DEF FinishTest, DirInv
<1>11. CASE UNCHANGED vars
  BY <1>11, StageDirs DEF vars
<1> QED
  BY <1>1, <1>2, <1>3, <1>4, <1>5, <1>6, <1>7, <1>8, <1>9, <1>10, <1>11 DEF Next

(* A test that is skipped has been completed.                                *)
THEOREM SkippedTestsAreComplete == Spec => []SkipsOnlyCompleted
<1>1. Init => DirInv
  BY DEF Init, DirInv
<1>2. TypeOK /\ DirInv /\ [Next]_vars => DirInv'
  BY NextDirs
<1>3. TypeOK /\ DirInv => SkipsOnlyCompleted
  BY DEF DirInv, SkipsOnlyCompleted, Dir, TestStages
<1> QED
  BY <1>1, <1>2, <1>3, TypeInvariant, PTL DEF Spec
-----------------------------------------------------------------------------
(* VMs as planned                                                            *)

Spoiled(p) == <<"alter", p>> \in trouble
DefinedNow(p) ==
    \A v \in VMs : v[1] = p /\ v[2] < Test.vms[p] => defined[v] \in {Cur, Undefined}
ListedAsPlanned(p) ==
    /\ listed[p] <= Test.vms[p]
    /\ listed[p] = Test.vms[p] \/ <<"list", p>> \in trouble

PlanInv ==
    /\ stage = "list" =>
          \A p \in PMs : Spoiled(p) \/ (vmIps[p] = Test.vms[p] /\ DefinedNow(p))
    /\ stage = "start" =>
          \A p \in PMs : Spoiled(p) \/ (ListedAsPlanned(p) /\ DefinedNow(p))
    /\ stage \in Use =>
          /\ \A p \in PMs : Spoiled(p) \/ ListedAsPlanned(p)
          /\ \A v \in (Listed \intersect On) \ left :
                Spoiled(v[1]) \/ (boot[v] = Cur /\ mem[v] = Cur)

(* Stages at which the invariant says nothing.                               *)
LEMMA IdlePlan ==
    ASSUME stage' \notin Use \union {"list", "start"}
    PROVE  PlanInv'
BY DEF PlanInv

(* From one stage in which the VMs are used to the next.                     *)
LEMMA UsePlan ==
    ASSUME PlanInv, stage \in Use, stage' \in Use,
           UNCHANGED <<run, pos, listed, boot, mem, left>>, trouble \subseteq trouble'
    PROVE  PlanInv'
BY DEF PlanInv, Use, Spoiled, ListedAsPlanned, Listed, First, On, Cur, Test

LEMMA CrashPlan ==
    ASSUME Crash
    PROVE  PlanInv'
BY IdlePlan DEF Crash, EndProcess, Use

LEMMA NextPlan ==
    ASSUME TypeOK, CleanInv, PlanInv, [Next]_vars
    PROVE  PlanInv'
<1> USE DEF batchVars, pmVars, diskVars, testVars
<1>1. CASE ConnectPMs \/ EndRun \/ SkipTest \/ FinishTest
  BY <1>1, IdlePlan DEF ConnectPMs, EndRun, SkipTest, FinishTest, EndProcess, Use
<1>2. CASE BeginTest
  BY <1>2, IdlePlan, CrashPlan DEF BeginTest, Use
<1>3. CASE AlterVMs
  <2> SUFFICES ASSUME ~Crash
               PROVE  PlanInv'
    BY CrashPlan
  <2>1. stage' = "list" /\ UNCHANGED <<run, pos>>
    BY <1>3 DEF AlterVMs
  <2>2. PICK lost \in SUBSET PMs,
             lines \in UNION {[S -> 0 .. MaxVMs] : S \in SUBSET PMs},
             old \in SUBSET VMs, gone \in SUBSET VMs :
           /\ AlterOn(PMs \ lost, lines, old, gone) /\ Fails("alter", lost)
           /\ DOMAIN lines \subseteq lost /\ old \subseteq Halfway(lines)
    <3>1. {p \in PMs : 1 .. p \subseteq pmUp} = PMs
      BY <1>3 DEF AlterVMs
    <3>2. PICK lost \in SUBSET PMs : \E begun \in SUBSET lost :
             \E lines \in [begun -> 0 .. MaxVMs] :
             \E old \in SUBSET Halfway(lines) : \E gone \in SUBSET Halfway(lines) :
                AlterOn(PMs \ lost, lines, old, gone) /\ Fails("alter", lost)
      BY <1>3, <3>1 DEF AlterVMs
    <3>3. PICK begun \in SUBSET lost : \E lines \in [begun -> 0 .. MaxVMs] :
             \E old \in SUBSET Halfway(lines) : \E gone \in SUBSET Halfway(lines) :
                AlterOn(PMs \ lost, lines, old, gone) /\ Fails("alter", lost)
      BY <3>2
    <3>4. PICK lines \in [begun -> 0 .. MaxVMs] :
             \E old \in SUBSET Halfway(lines) : \E gone \in SUBSET Halfway(lines) :
                AlterOn(PMs \ lost, lines, old, gone) /\ Fails("alter", lost)
      BY <3>3
    <3>5. Halfway(lines) \subseteq VMs /\ DOMAIN lines \subseteq lost
      BY DEF Halfway
    <3>6. lines \in UNION {[S -> 0 .. MaxVMs] : S \in SUBSET PMs}
      OBVIOUS
    <3> QED
      BY <3>4, <3>5, <3>6
  <2>3. \A p \in PMs : p \in lost => Spoiled(p)'
    BY <2>2 DEF Fails, Spoiled
  <2>4. Test' = Test /\ Cur' = Cur
    BY <2>1 DEF Test, Cur
  <2>5. \A p \in PMs \ lost : vmIps'[p] = Test.vms[p] /\ DefinedNow(p)'
    <3> SUFFICES ASSUME NEW p \in PMs \ lost
                 PROVE  vmIps'[p] = Test.vms[p] /\ DefinedNow(p)'
      OBVIOUS
    <3>1. ASSUME NEW v \in VMs, v[1] = p, v[2] < Test.vms[p]
          PROVE  defined'[v] \in {Cur, Undefined}
      <4>1. v \in Altered(PMs \ lost, lines) \ old
        BY <2>2, <3>1 DEF Altered, Halfway
      <4> QED
        BY <2>2, <4>1 DEF AlterOn, DefineVMs
    <3> QED
      BY <2>2, <2>4, <3>1 DEF AlterOn, DefinedNow
  <2> QED
    BY <2>1, <2>3, <2>4, <2>5 DEF PlanInv, Use
<1>4. CASE ListVMs
  <2> SUFFICES ASSUME ~Crash
               PROVE  PlanInv'
    BY CrashPlan
  <2>1. PICK cut \in SUBSET PMs, got \in UNION {[S -> 0 .. MaxVMs] : S \in SUBSET PMs} :
          /\ got \in [cut -> 0 .. MaxVMs] /\ Fails("list", cut) /\ \A p \in cut : got[p] <= vmIps[p]
          /\ listed' = [p \in PMs |-> IF p \in cut THEN got[p] ELSE vmIps[p]]
    BY <1>4 DEF ListVMs
  <2>2. stage = "list" /\ stage' = "start" /\ UNCHANGED <<run, pos, defined>>
    BY <1>4 DEF ListVMs
  <2>3. trouble \subseteq trouble' /\ \A p \in cut : <<"list", p>> \in trouble'
    BY <2>1 DEF Fails
  <2>4. Test' = Test /\ Cur' = Cur
    BY <2>2 DEF Test, Cur
  <2>5. Test.vms \in [PMs -> 1 .. MaxVMs]
    BY <2>2, TestIsPlanned DEF TestStages
  <2>6. ASSUME NEW p \in PMs
        PROVE  Spoiled(p)' \/ (ListedAsPlanned(p)' /\ DefinedNow(p)')
    <3>1. Spoiled(p) => Spoiled(p)'
      BY <2>3 DEF Spoiled
    <3>2. DefinedNow(p) => DefinedNow(p)'
      BY <2>2, <2>4 DEF DefinedNow
    <3>3. vmIps[p] = Test.vms[p] => ListedAsPlanned(p)'
      BY <2>1, <2>3, <2>4, <2>5, CoordinatorAssumption DEF ListedAsPlanned
    <3> QED
      BY <2>2, <3>1, <3>2, <3>3 DEF PlanInv
  <2> QED
    BY <2>2, <2>6 DEF PlanInv, Use
<1>5. CASE StartVMs
  <2>1. PICK S \in SUBSET Listed : Boot(S)
    BY <1>5 DEF StartVMs, OnMachines
  <2>2. /\ stage = "start" /\ stage' = "wait" /\ trouble \subseteq trouble'
        /\ UNCHANGED <<run, pos, defined, listed, left>>
    BY <1>5 DEF StartVMs, Fails
  <2>3. Test' = Test /\ Cur' = Cur /\ Listed' = Listed
    BY <2>2 DEF Test, Cur, Listed, First
  <2>4. On \subseteq left
    BY <2>2 DEF CleanInv, Use
  <2>5. ASSUME NEW v \in (Listed \intersect On') \ left
        PROVE  /\ v \in VMs /\ v[1] \in PMs /\ v[2] < listed[v[1]]
               /\ boot'[v] = Cur /\ mem'[v] = defined[v] /\ defined[v] # Undefined
    BY <2>1, <2>4, <2>5 DEF Boot, Startable, On, VMs, Listed, First
  <2>6. ASSUME NEW v \in (Listed \intersect On') \ left, ~Spoiled(v[1])
        PROVE  defined[v] = Cur
    <3>1. ListedAsPlanned(v[1]) /\ DefinedNow(v[1])
      BY <2>2, <2>5, <2>6 DEF PlanInv
    <3>2. Test.vms \in [PMs -> 1 .. MaxVMs]
      BY <2>2, TestIsPlanned DEF TestStages
    <3>3. v[2] \in Int /\ listed[v[1]] \in Int /\ Test.vms[v[1]] \in Int
      BY <2>5, <3>2 DEF VMs, TypeOK
    <3>4. v[2] < Test.vms[v[1]]
      BY <2>5, <3>1, <3>3 DEF ListedAsPlanned
    <3> QED
      BY <2>5, <3>1, <3>4 DEF DefinedNow
  <2>7. \A p \in PMs : Spoiled(p)' \/ ListedAsPlanned(p)'
    BY <2>2, <2>3 DEF PlanInv, Spoiled, ListedAsPlanned
  <2> QED
    BY <2>2, <2>3, <2>5, <2>6, <2>7 DEF PlanInv, Use, Spoiled
<1>6. CASE \/ WaitForVMs \/ ConnectVMs \/ PrepareEnv \/ DistributeSubTopos
           \/ SetUpNetworks \/ ReapResults
  BY <1>6, UsePlan DEF WaitForVMs, ConnectVMs, PrepareEnv, DistributeSubTopos,
       SetUpNetworks, ReapResults, Fails, Use
<1>7. CASE SplitTopology \/ NoVMs
  BY <1>7, UsePlan, CrashPlan DEF SplitTopology, NoVMs, Use
<1>8. CASE MeasureMemory("mem1", "connect") \/ MeasureMemory("mem2", "reap")
  BY <1>8, UsePlan, CrashPlan DEF MeasureMemory, NoFault, Use
<1>9. CASE DestroyVMs \/ MeasureMemory("mem3", "finish")
  BY <1>9, IdlePlan, CrashPlan DEF DestroyVMs, MeasureMemory, Use
<1>10. CASE UNCHANGED vars
  BY <1>10 DEF vars, PlanInv, Use, Spoiled, ListedAsPlanned, DefinedNow, Listed, First, On, Cur, Test
<1> QED
  BY <1>1, <1>2, <1>3, <1>4, <1>5, <1>6, <1>7, <1>8, <1>9, <1>10 DEF Next

(* A test uses no VMs but those planned for it, with the memory planned,     *)
(* where altering worked and no VM was left running, and all of them where   *)
(* their list arrived as a whole.                                            *)
THEOREM MachinesAsPlanned == Spec => []PlannedVMs
<1>1. Init => CleanInv /\ PlanInv
  BY DEF Init, CleanInv, PlanInv, On, Use
<1>2. TypeOK /\ CleanInv /\ PlanInv /\ [Next]_vars => CleanInv' /\ PlanInv'
  BY NextClean, NextPlan
<1>3. TypeOK /\ PlanInv => PlannedVMs
  <2> SUFFICES ASSUME TypeOK, PlanInv, stage \in Use, NEW v \in VMs, ~Spoiled(v[1])
               PROVE  /\ v \in Listed => v[2] < Test.vms[v[1]]
                      /\ v[2] < Test.vms[v[1]] => v \in Listed \/ <<"list", v[1]>> \in trouble
                      /\ v \in (Listed \intersect On) \ left => boot[v] = Cur /\ mem[v] = Cur
    BY DEF PlannedVMs, UsingVMs, Use, Spoiled
  <2>1. v[1] \in PMs /\ v[2] \in Int
    BY DEF VMs
  <2>2. Test.vms \in [PMs -> 1 .. MaxVMs]
    BY TestIsPlanned DEF TestStages, Use
  <2>3. listed[v[1]] \in Int /\ Test.vms[v[1]] \in Int
    BY <2>1, <2>2 DEF TypeOK
  <2>4. ListedAsPlanned(v[1])
    BY <2>1 DEF PlanInv
  <2>5. v \in Listed <=> v[2] < listed[v[1]]
    BY DEF Listed, First
  <2> QED
    BY <2>1, <2>3, <2>4, <2>5 DEF PlanInv, ListedAsPlanned
<1> QED
  BY <1>1, <1>2, <1>3, TypeInvariant, PTL DEF Spec

-----------------------------------------------------------------------------
(* Files on the disks of the VMs                                             *)

(* A log is of a test before this one, or of this one after its set-up: no   *)
(* test is made twice.                                                       *)
Past == {t \in Tests : t[1] < run \/ (t[1] = run /\ t[2] < pos)}
AfterSetup == {"mem2", "reap", "destroy", "mem3", "finish"}
LogInv ==
    \A v \in VMs : \/ setupLog[v].test \in Past
                   \/ setupLog[v].test = Cur /\ stage \in AfterSetup

Own(log, v) ==
    IF log.test = Cur
    THEN /\ log.sub = Cur \/ <<"sub", v>> \in trouble
         /\ log.config = Cur \/ <<"config", v>> \in trouble
    ELSE <<"setup", v>> \in trouble \/ <<"config", v>> \in trouble

DiskInv ==
    /\ stage \in {"split", "send", "setup"} =>
          \A v \in Listed : config[v] = Cur \/ <<"config", v>> \in trouble
    /\ stage = "setup" =>
          \A v \in Listed : files[v][FileOf(v)] = Cur \/ <<"sub", v>> \in trouble
    /\ stage \in {"mem2", "reap"} => \A v \in Listed : Own(setupLog[v], v)
    /\ stage \in {"destroy", "mem3", "finish"} =>
          \A v \in VMs : results[v] # NoLog => Own(results[v], v)

LEMMA KeptLogs ==
    ASSUME TypeOK, LogInv, UNCHANGED setupLog,
           \/ EndProcess
           \/ run' = run /\ pos' = pos + 1
           \/ UNCHANGED <<run, pos>> /\ (stage \in AfterSetup => stage' \in AfterSetup)
    PROVE  LogInv'
<1>1. run \in Nat /\ pos \in Nat
  BY DEF TypeOK
<1>2. CASE EndProcess \/ (run' = run /\ pos' = pos + 1)
  <2>1. Past \subseteq Past' /\ Cur \in Past'
    BY <1>1, <1>2 DEF EndProcess, Past, Tests, Cur
  <2> QED
    BY <2>1 DEF LogInv
<1>3. CASE UNCHANGED <<run, pos>> /\ (stage \in AfterSetup => stage' \in AfterSetup)
  <2>1. Past' = Past /\ Cur' = Cur
    BY <1>3 DEF Past, Cur
  <2> QED
    BY <1>3, <2>1 DEF LogInv
<1> QED
  BY <1>2, <1>3

LEMMA NextLogs ==
    ASSUME TypeOK, LogInv, [Next]_vars
    PROVE  LogInv'
<1> USE DEF batchVars, pmVars, diskVars, testVars, AfterSetup
<1>1. CASE ConnectPMs \/ EndRun \/ SkipTest \/ BeginTest \/ FinishTest
  BY <1>1, KeptLogs DEF ConnectPMs, EndRun, SkipTest, BeginTest, FinishTest, Crash
<1>2. CASE AlterVMs \/ ListVMs
  BY <1>2, KeptLogs DEF AlterVMs, ListVMs, Crash
<1>3. CASE \/ StartVMs \/ WaitForVMs \/ ConnectVMs \/ PrepareEnv \/ NoVMs
           \/ SplitTopology
  BY <1>3, KeptLogs DEF StartVMs, WaitForVMs, ConnectVMs, PrepareEnv, NoVMs,
       SplitTopology, Crash
<1>4. CASE DistributeSubTopos \/ ReapResults \/ DestroyVMs
  BY <1>4, KeptLogs DEF DistributeSubTopos, ReapResults, DestroyVMs
<1>5. CASE MeasureMemory("mem1", "connect") \/ MeasureMemory("mem2", "reap")
             \/ MeasureMemory("mem3", "finish")
  BY <1>5, KeptLogs DEF MeasureMemory, Crash
<1>6. CASE SetUpNetworks
  <2>1. \A v \in VMs : setupLog'[v] = LogOf(v) \/ setupLog'[v] = setupLog[v]
    BY <1>6 DEF SetUpNetworks
  <2>2. \A v \in VMs : setupLog[v].test \in Past
    BY <1>6 DEF SetUpNetworks, LogInv
  <2>3. Past' = Past /\ Cur' = Cur /\ stage' \in AfterSetup
    BY <1>6 DEF SetUpNetworks, Past, Cur
  <2>4. ASSUME NEW v \in VMs
        PROVE  setupLog'[v].test \in Past \/ setupLog'[v].test = Cur
    <3>1. LogOf(v).test = Cur
      BY DEF LogOf
    <3> QED
      BY <2>1, <2>2, <3>1
  <2> QED
    BY <2>3, <2>4 DEF LogInv
<1>7. CASE UNCHANGED vars
  BY <1>7, KeptLogs DEF vars
<1> QED
  BY <1>1, <1>2, <1>3, <1>4, <1>5, <1>6, <1>7 DEF Next

LEMMA IdleDisk ==
    ASSUME stage' \notin {"split", "send", "setup", "mem2", "reap", "destroy", "mem3", "finish"}
    PROVE  DiskInv'
BY DEF DiskInv

LEMMA CrashDisk ==
    ASSUME Crash
    PROVE  DiskInv'
BY IdleDisk DEF Crash, EndProcess

LEMMA NextDisk ==
    ASSUME TypeOK, LogInv, DiskInv, [Next]_vars
    PROVE  DiskInv'
<1> USE DEF batchVars, pmVars, diskVars, testVars
<1>0. ASSUME UNCHANGED <<run, pos, listed>>
      PROVE  /\ Cur' = Cur /\ Test' = Test /\ Listed' = Listed
             /\ \A v : FileOf(v)' = FileOf(v)
  BY <1>0 DEF Cur, Test, Listed, First, FileOf, ServerId, ServersBefore
<1>1. CASE \/ ConnectPMs \/ EndRun \/ SkipTest \/ FinishTest \/ StartVMs \/ WaitForVMs
           \/ ConnectVMs
  BY <1>1, IdleDisk DEF ConnectPMs, EndRun, SkipTest, FinishTest, EndProcess, StartVMs,
       WaitForVMs, ConnectVMs
<1>2. CASE BeginTest \/ AlterVMs \/ ListVMs \/ MeasureMemory("mem1", "connect")
  BY <1>2, IdleDisk, CrashDisk DEF BeginTest, AlterVMs, ListVMs, MeasureMemory
<1>3. CASE PrepareEnv
  <2>1. PICK unsynced \in SUBSET Listed, lost \in SUBSET Listed, cut \in SUBSET Listed :
          /\ cut \subseteq lost /\ trouble' = trouble \union {<<"config", v>> : v \in lost}
          /\ config' = [v \in VMs |-> CASE v \in Listed \ lost -> Cur
                                        [] v \in cut -> Broken
                                        [] v \in (lost \ cut) \ unsynced -> None
                                        [] OTHER -> config[v]]
    BY <1>3 DEF PrepareEnv
  <2>2. stage' = "split" /\ Cur' = Cur /\ Listed' = Listed
    BY <1>0, <1>3 DEF PrepareEnv
  <2>3. \A v \in Listed \ lost : config'[v] = Cur
    BY <2>1, OnAreVMs
  <2>4. \A v \in lost : <<"config", v>> \in trouble'
    BY <2>1
  <2> QED
    BY <2>2, <2>3, <2>4 DEF DiskInv
<1>4. CASE SplitTopology \/ NoVMs
  <2> SUFFICES ASSUME ~Crash
               PROVE  DiskInv'
    BY CrashDisk
  <2> QED
    BY <1>0, <1>4 DEF SplitTopology, NoVMs, DiskInv
<1>5. CASE DistributeSubTopos
  <2>1. PICK lost \in SUBSET Listed, cut \in SUBSET Listed :
          /\ Fails("sub", lost) /\ cut \subseteq lost
          /\ files' = [v \in VMs |->
                CASE v \in Receivers(lost) -> [files[v] EXCEPT ![FileOf(v)] = Cur]
                  [] v \in cut -> [files[v] EXCEPT ![FileOf(v)] = Broken]
                  [] OTHER -> files[v]]
    BY <1>5 DEF DistributeSubTopos
  <2>2. /\ stage = "send" /\ stage' = "setup" /\ Cur' = Cur /\ Listed' = Listed
        /\ \A v : FileOf(v)' = FileOf(v)
        /\ config' = config
    BY <1>0, <1>5 DEF DistributeSubTopos
  <2>3. \A v \in VMs : FileOf(v) \in Names
    BY <2>2, TestIsPlanned DEF TestStages
  <2>4. \A v \in Listed \ lost : files'[v][FileOf(v)] = Cur
    BY <2>1, <2>3, OnAreVMs DEF TypeOK, Receivers
  <2> QED
    BY <2>1, <2>2, <2>4 DEF DiskInv, Fails
<1>6. CASE SetUpNetworks
  <2>1. PICK lost \in SUBSET Listed,
             silent \in SUBSET Listed :
          /\ silent \subseteq lost \union {v \in Listed : config[v] # Cur} /\ Fails("setup", lost)
          /\ setupLog' = [v \in VMs |-> IF v \in Listed \ silent THEN LogOf(v) ELSE setupLog[v]]
    BY <1>6 DEF SetUpNetworks
  <2>2. stage = "setup" /\ stage' = "mem2" /\ Cur' = Cur /\ Listed' = Listed
    BY <1>0, <1>6 DEF SetUpNetworks
  <2>3. trouble \subseteq trouble' /\ \A v \in lost : <<"setup", v>> \in trouble'
    BY <2>1 DEF Fails
  <2>4. ASSUME NEW v \in Listed
        PROVE  Own(setupLog[v], v)'
    <3>1. v \in VMs /\ (config[v] = Cur \/ <<"config", v>> \in trouble)
      BY <2>2, OnAreVMs DEF DiskInv
    <3>2. CASE v \in silent
      <4>1. setupLog'[v] = setupLog[v]
        BY <2>1, <3>1, <3>2
      <4>2. setupLog[v].test # Cur
        <5>1. setupLog[v].test \in Past
          BY <2>2, <3>1 DEF LogInv, AfterSetup
        <5>2. run \in Int /\ pos \in Int
          BY DEF TypeOK
        <5> QED
          BY <5>1, <5>2 DEF Past, Cur
      <4>3. <<"setup", v>> \in trouble' \/ <<"config", v>> \in trouble'
        BY <2>1, <2>3, <3>1, <3>2
      <4> QED
        BY <2>2, <4>1, <4>2, <4>3 DEF Own
    <3>3. CASE v \notin silent
      <4>1. setupLog'[v] = LogOf(v)
        BY <2>1, <3>1, <3>3
      <4>2. files[v][FileOf(v)] = Cur \/ <<"sub", v>> \in trouble
        BY <2>2 DEF DiskInv
      <4> QED
        BY <2>2, <2>3, <3>1, <4>1, <4>2 DEF Own, LogOf
    <3> QED
      BY <3>2, <3>3
  <2> QED
    BY <2>2, <2>4 DEF DiskInv
<1>7. CASE MeasureMemory("mem2", "reap") \/ MeasureMemory("mem3", "finish")
  <2> SUFFICES ASSUME ~Crash
               PROVE  DiskInv'
    BY CrashDisk
  <2> QED
    BY <1>0, <1>7 DEF MeasureMemory, NoFault, DiskInv, Own
<1>8. CASE ReapResults
  <2>1. PICK lost \in SUBSET Listed, cut \in SUBSET Listed :
          /\ Fails("reap", lost) /\ cut \subseteq lost
          /\ results' = [v \in VMs |->
                           IF v \in (Listed \ lost) \union cut THEN setupLog[v] ELSE NoLog]
    BY <1>8 DEF ReapResults
  <2>2. stage = "reap" /\ stage' = "destroy" /\ Cur' = Cur
    BY <1>0, <1>8 DEF ReapResults
  <2>3. trouble \subseteq trouble'
    BY <2>1 DEF Fails
  <2> QED
    BY <2>1, <2>2, <2>3 DEF DiskInv, Own
<1>9. CASE DestroyVMs
  <2>1. trouble \subseteq trouble'
    BY <1>9 DEF DestroyVMs, Fails
  <2> QED
    BY <1>0, <1>9, <2>1 DEF DestroyVMs, DiskInv, Own
<1>10. CASE UNCHANGED vars
  BY <1>0, <1>10 DEF vars, DiskInv, Own
<1> QED
  BY <1>1, <1>2, <1>3, <1>4, <1>5, <1>6, <1>7, <1>8, <1>9, <1>10 DEF Next

(* Results that reach a test's directory are its own, although the disks of  *)
(* the VMs keep the files of earlier tests, unless the very operation that   *)
(* brings that part about failed on that VM.                                 *)
THEOREM ResultsAreOwn == Spec => []OwnResults
<1>1. Init => LogInv /\ DiskInv
  BY DEF Init, LogInv, Past, NoLog, None, Tests, DiskInv
<1>2. TypeOK /\ LogInv /\ DiskInv /\ [Next]_vars => LogInv' /\ DiskInv'
  BY NextLogs, NextDisk
<1>3. DiskInv => OwnResults
  BY DEF DiskInv, OwnResults, Own
<1> QED
  BY <1>1, <1>2, <1>3, TypeInvariant, PTL DEF Spec
=============================================================================
