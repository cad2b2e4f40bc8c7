--------------------------- MODULE NodeLifeProofs ---------------------------
(* Proofs about NodeLife for any nodes, pids, numbers of runs and failures.  *)
EXTENDS NodeLife, TLAPS

(* Before and during the links.                                              *)
Early == {"run", "write", "take", "bbns", "link"}

Held(n, p) == holder[p] = Own(n) \/ Own(n) \in dead
Started(n) == Own(n) \in Live \union dead
Excused(n) == mgr = "cctr" /\ ~wiped /\ n \in unwritten

(* A container is started once, has one pid, and does not come back.         *)
OnceInv ==
    /\ \A p, q \in Pids : holder[p] \in Containers /\ holder[p] = holder[q] => p = q
    /\ \A p \in Pids : holder[p] \in Containers => holder[p] \notin dead
    /\ \A p \in Pids : holder[p] \in Containers => holder[p][2] <= run
    /\ \A c \in dead : c[2] <= run
    /\ \A n \in todo : pc \in Early => ~Started(n)

(* What a pid file names was a container of its node; of this run, if this   *)
(* run removed the files of the earlier ones.                                *)
FileInv ==
    \A n \in Nodes : file[n] \in Pids =>
        /\ \E r \in 1 .. MaxRuns : holder[file[n]] = <<n, r>> \/ <<n, r>> \in dead
        /\ run # 0 /\ (wiped => Held(n, file[n]))

HandInv ==
    hand # NoHand =>
        /\ pc \in {"write", "take", "rewrite"} /\ hand[1] \notin todo
        /\ hand[2] = NoPid => hand[1] \in unwritten
        /\ hand[2] # NoPid => Held(hand[1], hand[2])
        /\ pc = "take" /\ hand[1] \notin unwritten => file[hand[1]] = hand[2]

CacheInv ==
    /\ pc \in {"idle", "run", "write", "take", "bbns"} => linked = {}
    /\ pc \in Early => op # "clean"
    /\ \A n \in Nodes :
        /\ cache[n] \in Pids => Held(n, cache[n]) \/ Excused(n)
        /\ cache[n] = NoPid => mgr = "cctr"
        /\ pc = "idle" \/ op = "clean" => cache[n] = Absent
        /\ n \in linked => cache[n] \in Pids

(* Every node of a set-up is to do, in hand, or set up.                      *)
NodeInv ==
    op = "setup" /\ pc \in Early \union {"delete"} =>
        /\ todo \subseteq Graph
        /\ \A n \in Graph \ todo :
              hand[1] = n \/ Started(n) \/ (mgr = "cctr" /\ n \in unwritten)
        /\ pc \in {"bbns", "link", "delete"} => todo = {}
        /\ pc = "delete" => linked = LinkEnds

(* While the pids are written once more every node of a set-up is started.   *)
Saving == {"save", "rewrite"}

SaveInv ==
    pc \in Saving =>
        /\ mgr = "goctr"
        /\ op = "setup" => \A n \in Graph : Started(n)
        /\ pc = "rewrite" =>
              cache[hand[1]] = hand[2] /\ hand[2] \in Pids /\ file[hand[1]] = NoPid

(* The names of the namespaces tell the set-ups apart.                       *)
NetInv ==
    /\ \A s \in Spaces : bbns[s] <= run
    /\ op = "setup" /\ pc \in {"run", "write", "take"} => made = 0
    /\ pc = "bbns" => \A s \in Spaces : s < made => bbns[s] = run
    /\ pc \in {"link", "delete"} \union Saving /\ op = "setup" => \A s \in Spaces : bbns[s] = run
    /\ pc \in {"netclean", "kill"} => op # "setup"
    /\ built # {} => \E s \in Spaces :
          bbns[s] # 0 /\ (op = "setup" /\ pc # "idle" => bbns[s] # run)

(* A container is named by its file, lost, or about to be written.           *)
NamedInv ==
    \A p \in Pids : holder[p] \in Containers =>
        \/ holder[p] \in astray
        \/ file[holder[p][1]] = p
        \/ pc = "write" /\ hand = <<holder[p][1], p>> /\ holder[p][2] = run

(* The same of the containers of this run, with the one reason to be lost.   *)
OwnNamedInv ==
    \A n \in Nodes, p \in Pids : pc \notin {"idle"} \union Saving /\ holder[p] = Own(n) =>
        \/ n \in unwritten \/ file[n] = p \/ (pc = "write" /\ hand = <<n, p>>)

(* Of the nodes cleaned so far nothing is left to find.                      *)
CleanedInv ==
    pc \in {"kill", "delete"} \union Saving /\ op # "setup" =>
        /\ pc = "delete" => todo = {}
        /\ \A p \in Pids :
              holder[p] \in Containers /\ holder[p][1] \in ToClean(op)
              /\ (pc \in Saving \/ holder[p][1] \notin todo) =>
              \/ holder[p] \in astray /\ (op = "clean" \/ mgr = "cctr")
              \/ op \in Measures /\ (holder[p][2] # run \/ holder[p][1] \in unwritten)

-----------------------------------------------------------------------------
(* Type correctness                                                          *)

LEMMA OperationTypes ==
    /\ \A o \in Operations : NodesOf(o) \subseteq Nodes /\ ToClean(o) \subseteq Nodes
    /\ \A o \in Operations : SpacesOf(o) \in 1 .. BbNum
    /\ LinkEnds \subseteq Nodes
    /\ \A n \in Nodes : run \in 1 .. MaxRuns => Own(n) \in Containers
BY NodeLifeAssumption DEF NodesOf, FirstNodes, ToClean, SpacesOf, LinkEnds, Own, Containers

LEMMA InitType == Init => TypeOK
BY NodeLifeAssumption DEF Init, TypeOK, NoHand, Operations, Managers, Spaces, SpacesOf

LEMMA EndType ==
    ASSUME TypeOK, NEW how \in {"done", "failed", "crashed"}, End(how), run # 0
    PROVE  /\ bbns' \in [Spaces -> 0 .. MaxRuns]
           /\ run' \in 0 .. MaxRuns /\ op' \in Operations /\ mgr' \in Managers
           /\ pc' = "idle" /\ todo' \subseteq Nodes /\ hand' = NoHand
           /\ cache' \in [Nodes -> Pids \union {NoPid, Absent}]
           /\ made' = 0 /\ made' \in 0 .. BbNum /\ linked' \subseteq Nodes
           /\ wiped' \in BOOLEAN /\ unwritten' \subseteq Nodes
           /\ built' \subseteq 1 .. MaxRuns
           /\ ended' \in {"none", "done", "failed", "crashed"}
BY NodeLifeAssumption DEF TypeOK, End

LEMMA FaultType == ASSUME TypeOK, Fault \/ UNCHANGED faults PROVE faults' \in 0 .. MaxFaults
BY NodeLifeAssumption DEF TypeOK, Fault

LEMMA NextType ==
    ASSUME TypeOK, [Next]_vars
    PROVE  TypeOK'
<1> USE OperationTypes, FaultType DEF vmVars, agentVars, history
<1>1. ASSUME NEW o \in Operations, NEW m \in Managers, Start(o, m)
      PROVE  TypeOK'
  <2>1. faults' \in 0 .. MaxFaults /\ wiped' \in BOOLEAN
        /\ astray' \subseteq Containers
        /\ file' \in [Nodes -> Pids \union {NoPid, Absent}]
    BY <1>1 DEF Start, TypeOK, Forgotten
  <2> QED
    BY <1>1, <2>1, NodeLifeAssumption DEF Start, TypeOK
<1>2. ASSUME NEW n \in Nodes, RunContainer(n)
      PROVE  TypeOK'
  <2>1. Own(n) \in Containers
    BY <1>2 DEF RunContainer, TypeOK
  <2>2. holder' \in [Pids -> Containers \union {Free, Other}]
        /\ unwritten' \subseteq Nodes /\ faults' \in 0 .. MaxFaults
    BY <1>2, <2>1 DEF RunContainer, TypeOK
  <2>3. hand' \in Nodes \X (Pids \union {NoPid}) /\ pc' \in {"write", "take"}
        /\ hand' # NoHand
    BY <1>2, NodeLifeAssumption DEF RunContainer, NoHand
  <2> QED
    BY <1>2, <2>2, <2>3 DEF RunContainer, TypeOK
<1>3. CASE WritePid
  <2>1. hand \in Nodes \X (Pids \union {NoPid})
    BY <1>3 DEF WritePid, TypeOK
  <2>2. Own(hand[1]) \in Containers
    BY <1>3, <2>1 DEF WritePid, TypeOK
  <2>3. file' \in [Nodes -> Pids \union {NoPid, Absent}]
    BY <1>3, <2>1 DEF WritePid, PutPid, TypeOK
  <2>4. astray' \subseteq Containers /\ unwritten' \subseteq Nodes
        /\ faults' \in 0 .. MaxFaults
    BY <1>3, <2>1, <2>2 DEF WritePid, Forgotten, TypeOK
  <2> QED
    BY <1>3, <2>3, <2>4 DEF WritePid, TypeOK
<1>4. CASE TakePid
  <2>1. hand \in Nodes \X (Pids \union {NoPid})
    BY <1>4 DEF TakePid, TypeOK
  <2>2. Taken(hand[1], hand[2]) \in Pids \union {NoPid, Absent}
    BY <2>1 DEF Taken, TypeOK
  <2>3. CASE End("failed")
    BY <1>4, <2>3, EndType DEF TakePid, TypeOK
  <2>4. CASE ~End("failed")
    <3>1. made' = made /\ op' = op /\ 0 < SpacesOf(op)
      BY <1>4, <2>4, NodeLifeAssumption DEF TakePid, TypeOK
    <3>2. pc' = "bbns" => made' < SpacesOf(op')
      BY <1>4, <2>4, <3>1 DEF TakePid, AfterNode
    <3>3. cache' \in [Nodes -> Pids \union {NoPid, Absent}] /\ pc' \in {"bbns", "run", "link"}
          /\ hand' = NoHand
      BY <1>4, <2>1, <2>2, <2>4 DEF TakePid, AfterNode, TypeOK
    <3> QED
      BY <1>4, <2>4, <3>1, <3>2, <3>3 DEF TakePid, TypeOK
  <2> QED
    BY <2>3, <2>4
<1>5. CASE SetupBbNs
  <2>1. CASE End("failed")
    BY <1>5, <2>1, EndType DEF SetupBbNs, TypeOK
  <2>2. CASE ~End("failed")
    <3>1. made \in Spaces /\ made + 1 \in 0 .. BbNum
      BY <1>5, NodeLifeAssumption DEF SetupBbNs, TypeOK, Spaces
    <3>2. bbns' \in [Spaces -> 0 .. MaxRuns] /\ made' \in 0 .. BbNum
      BY <1>5, <2>2, <3>1 DEF SetupBbNs, TypeOK
    <3>3. pc' \in {"bbns", "link"} /\ op' = op /\ (pc' = "bbns" => made' < SpacesOf(op))
      BY <1>5, <2>2, <3>1, NodeLifeAssumption DEF SetupBbNs, TypeOK
    <3> QED
      BY <1>5, <2>2, <3>2, <3>3 DEF SetupBbNs, TypeOK
  <2> QED
    BY <2>1, <2>2
<1>6. ASSUME NEW n \in Nodes, AttachNode(n)
      PROVE  TypeOK'
  <2>1. CASE End("failed")
    BY <1>6, <2>1, EndType DEF AttachNode, TypeOK
  <2>2. CASE ~End("failed")
    BY <1>6, <2>2 DEF AttachNode, TypeOK, SpacesOf
  <2> QED
    BY <2>1, <2>2
<1>7. CASE LinksDone
  <2>1. pc' \in {"run", "delete", "netclean"} /\ linked' \subseteq Nodes /\ pc = "link"
        /\ UNCHANGED <<vmVars, run, op, mgr, todo, hand, cache, made, faults, history>>
    BY <1>7 DEF LinksDone, TypeOK
  <2> QED
    BY <2>1 DEF TypeOK
<1>8. CASE Fail
  BY <1>8, EndType DEF Fail, TypeOK
<1>9. CASE CleanNetwork
  <2>1. bbns' \in [Spaces -> 0 .. MaxRuns] /\ built' \subseteq 1 .. MaxRuns
        /\ faults' \in 0 .. MaxFaults
    <3>1. PICK rest \in SUBSET Spaces :
             /\ IF rest = {} THEN UNCHANGED faults ELSE Fault
             /\ bbns' = [s \in Spaces |-> IF s \in rest THEN bbns[s] ELSE 0]
      BY <1>9 DEF CleanNetwork
    <3>2. faults' \in 0 .. MaxFaults
      BY <3>1
    <3>3. bbns' \in [Spaces -> 0 .. MaxRuns]
      <4> SUFFICES ASSUME NEW s \in Spaces
                   PROVE  (IF s \in rest THEN bbns[s] ELSE 0) \in 0 .. MaxRuns
        BY <3>1
      <4> QED
        BY NodeLifeAssumption DEF TypeOK
    <3>4. built' = {} \/ built' = built
      BY <1>9 DEF CleanNetwork
    <3> QED
      BY <3>2, <3>3, <3>4 DEF TypeOK
  <2> QED
    BY <1>9, <2>1 DEF CleanNetwork, TypeOK
<1>10. ASSUME NEW n \in Nodes, CleanNode(n)
       PROVE  TypeOK'
  <2>1. holder' \in [Pids -> Containers \union {Free, Other}]
        /\ dead' \subseteq Containers /\ astray' \subseteq Containers
        /\ faults' \in 0 .. MaxFaults
    BY <1>10 DEF CleanNode, Killed, TypeOK
  <2>2. CASE End("failed")
    BY <1>10, <2>1, <2>2, EndType DEF CleanNode, TypeOK
  <2>3. CASE ~End("failed")
    BY <1>10, <2>1, <2>3 DEF CleanNode, TypeOK
  <2> QED
    BY <2>2, <2>3
<1>11. CASE Delete
  <2>1. CASE End("done")
    BY <1>11, <2>1, EndType DEF Delete, TypeOK
  <2>2. CASE ~End("done")
    <3>1. pc' = "save" /\ todo' = Cached /\ Cached' = Cached /\ Cached \subseteq Nodes
      BY <1>11, <2>2 DEF Delete, Cached
    <3> QED
      BY <1>11, <2>2, <3>1 DEF Delete, TypeOK
  <2> QED
    BY <2>1, <2>2
<1>12. CASE Crash
  <2>1. /\ astray' \subseteq Containers
        /\ file' \in [Nodes -> Pids \union {NoPid, Absent}]
    <3>1. CASE pc = "write"
      <4>1. hand[1] \in Nodes /\ Own(hand[1]) \in Containers
        BY <1>12, <3>1 DEF TypeOK, NoHand
      <4> QED
        BY <1>12, <3>1, <4>1 DEF Crash, PutPid, Forgotten, TypeOK
    <3>2. CASE pc # "write"
      BY <1>12, <3>2 DEF Crash, TypeOK
    <3> QED
      BY <3>1, <3>2
  <2> QED
    BY <1>12, <2>1, EndType DEF Crash, TypeOK
<1>15. ASSUME NEW n \in Nodes, CreateFile(n)
       PROVE  TypeOK'
  <2>1. file' \in [Nodes -> Pids \union {NoPid, Absent}] /\ astray' \subseteq Containers
        /\ faults' \in 0 .. MaxFaults
    BY <1>15 DEF CreateFile, Forgotten, TypeOK
  <2>2. cache[n] \in Pids \union {NoPid} /\ n # Absent
    BY <1>15, NodeLifeAssumption DEF CreateFile, Cached, TypeOK
  <2>3. Cached' = Cached /\ todo' \subseteq Cached /\ pc' \in Saving
    BY <1>15 DEF CreateFile, Cached, TypeOK, Saving
  <2>4. /\ hand' \in (Nodes \X (Pids \union {NoPid})) \union {NoHand}
        /\ pc' = "rewrite" => hand' # NoHand
    BY <1>15, <2>2 DEF CreateFile, NoHand, TypeOK
  <2> QED
    BY <1>15, <2>1, <2>3, <2>4 DEF CreateFile, TypeOK, Saving
<1>16. CASE SavePid
  <2>1. hand \in Nodes \X (Pids \union {NoPid})
    BY <1>16 DEF SavePid, TypeOK
  <2>2. file' \in [Nodes -> Pids \union {NoPid, Absent}] /\ astray' \subseteq Containers
        /\ faults' \in 0 .. MaxFaults
    BY <1>16, <2>1 DEF SavePid, TypeOK
  <2>3. Cached' = Cached
    BY <1>16 DEF SavePid, Cached
  <2> QED
    BY <1>16, <2>2, <2>3 DEF SavePid, TypeOK
<1>17. CASE Saved
  BY <1>17, EndType DEF Saved, TypeOK
<1>13. ASSUME NEW p \in Pids, Die(p) \/ OtherProcess(p)
       PROVE  TypeOK'
  BY <1>13 DEF Die, OtherProcess, TypeOK, Cached
<1>14. CASE UNCHANGED vars
  BY <1>14 DEF vars, TypeOK, Cached
<1> QED
  BY <1>1, <1>2, <1>3, <1>4, <1>5, <1>6, <1>7, <1>8, <1>9, <1>10, <1>11, <1>12,
     <1>13, <1>14, <1>15, <1>16, <1>17 DEF Next

(* Type correctness of Spec.                                                 *)
THEOREM TypeInvariant == Spec => []TypeOK
BY InitType, NextType, PTL DEF Spec
-----------------------------------------------------------------------------
(* Processes                                                                 *)

(* What a process was, it is or was.                                         *)
LEMMA Kept ==
    ASSUME TypeOK, [Next]_vars, NEW p \in Pids, NEW c \in Containers,
           holder[p] = c \/ c \in dead
    PROVE  holder'[p] = c \/ c \in dead'
<1> USE DEF vmVars, agentVars, history
<1>1. ASSUME NEW n \in Nodes, RunContainer(n)
      PROVE  holder'[p] = c \/ c \in dead'
  BY <1>1, NodeLifeAssumption DEF RunContainer, TypeOK
<1>2. ASSUME NEW n \in Nodes, CleanNode(n)
      PROVE  holder'[p] = c \/ c \in dead'
  BY <1>2, NodeLifeAssumption DEF CleanNode, Killed, CanKill, Names, End, TypeOK
<1>3. ASSUME NEW q \in Pids, Die(q) \/ OtherProcess(q)
      PROVE  holder'[p] = c \/ c \in dead'
  BY <1>3, NodeLifeAssumption DEF Die, OtherProcess, TypeOK
<1>4. CASE UNCHANGED <<holder, dead>>
  BY <1>4
<1> QED
  BY <1>1, <1>2, <1>3, <1>4
     DEF Next, vars, Start, AttachNode, WritePid, TakePid, SetupBbNs, LinksDone, Fail,
         CleanNetwork, Delete, CreateFile, SavePid, Saved, Crash, End

LEMMA DeadStay ==
    ASSUME [Next]_vars
    PROVE  dead \subseteq dead'
BY DEF Next, vars, vmVars, agentVars, history, Start, RunContainer, AttachNode, CleanNode,
       Killed, WritePid, TakePid, SetupBbNs, LinksDone, Fail, CleanNetwork, Delete,
       CreateFile, SavePid, Saved, Crash,
       Die, OtherProcess, End

LEMMA StaysStarted ==
    ASSUME TypeOK, [Next]_vars, NEW c \in Live \union dead
    PROVE  c \in Containers /\ c \in Live' \union dead'
<1>1. CASE c \in dead
  BY <1>1, DeadStay DEF TypeOK
<1>2. CASE c \in Live
  BY <1>2, Kept DEF Live
<1> QED
  BY <1>1, <1>2

(* Only SetupNode starts containers.                                         *)
LEMMA OnlyStarted ==
    ASSUME TypeOK, [Next]_vars, NEW p \in Pids, holder'[p] \in Containers
    PROVE  \/ holder'[p] = holder[p]
           \/ \E n \in Nodes : /\ RunContainer(n) /\ holder'[p] = Own(n)
                               /\ holder[p] = Free /\ hand' = <<n, p>> /\ pc' = "write"
                               /\ \A q \in Pids \ {p} : holder'[q] = holder[q]
<1> USE DEF vmVars, agentVars, history
<1> DEFINE Goal ==
      \/ holder'[p] = holder[p]
      \/ \E n \in Nodes : /\ RunContainer(n) /\ holder'[p] = Own(n)
                          /\ holder[p] = Free /\ hand' = <<n, p>> /\ pc' = "write"
                          /\ \A q \in Pids \ {p} : holder'[q] = holder[q]
<1>1. ASSUME NEW n \in Nodes, RunContainer(n)
      PROVE  Goal
  BY <1>1, NodeLifeAssumption DEF RunContainer, TypeOK
<1>2. ASSUME NEW n \in Nodes, CleanNode(n)
      PROVE  holder'[p] = holder[p]
  BY <1>2, NodeLifeAssumption DEF CleanNode, Killed, CanKill, Names, End, TypeOK
<1>3. ASSUME NEW q \in Pids, Die(q) \/ OtherProcess(q)
      PROVE  holder'[p] = holder[p]
  BY <1>3, NodeLifeAssumption DEF Die, OtherProcess, TypeOK
<1>4. CASE UNCHANGED <<holder, dead>>
  BY <1>4
<1> QED
  BY <1>1, <1>2, <1>3, <1>4
     DEF Next, vars, Start, AttachNode, WritePid, TakePid, SetupBbNs, LinksDone, Fail,
         CleanNetwork, Delete, CreateFile, SavePid, Saved, Crash, End
(* What has ended was running.                                               *)
LEMMA OnlyEnded ==
    ASSUME TypeOK, [Next]_vars, NEW c \in dead', c \notin dead
    PROVE  \E q \in Pids : holder[q] = c /\ holder'[q] = Free
<1> USE DEF vmVars, agentVars, history
<1>1. ASSUME NEW n \in Nodes, CleanNode(n)
      PROVE  \E q \in Pids : holder[q] = c /\ holder'[q] = Free
  <2>1. Killed(n) /\ CanKill(n)
    BY <1>1 DEF CleanNode, End
  <2>2. file[n] \in Pids /\ holder[file[n]] = c
    BY <2>1 DEF Killed, CanKill, Names
  <2>3. holder'[file[n]] = Free
    BY <2>1, <2>2 DEF Killed, TypeOK
  <2> QED
    BY <2>2, <2>3
<1>2. ASSUME NEW q \in Pids, Die(q)
      PROVE  \E r \in Pids : holder[r] = c /\ holder'[r] = Free
  BY <1>2 DEF Die, TypeOK
<1> QED
  BY <1>1, <1>2
     DEF Next, vars, Start, RunContainer, OtherProcess, AttachNode, WritePid, TakePid,
         SetupBbNs, LinksDone, Fail, CleanNetwork, Delete, CreateFile, SavePid, Saved, Crash, End

LEMMA RunGrows ==
    ASSUME TypeOK, [Next]_vars
    PROVE  /\ run' \in Nat /\ run \in Nat /\ run <= run'
           /\ run' # run => \E o \in Operations, m \in Managers : Start(o, m)
<1>1. CASE \E o \in Operations, m \in Managers : Start(o, m)
  BY <1>1, NodeLifeAssumption DEF TypeOK, Start
<1>2. CASE run' = run
  BY <1>2, NodeLifeAssumption DEF TypeOK
<1> QED
  BY <1>1, <1>2
     DEF Next, vars, vmVars, agentVars, history, RunContainer, AttachNode, CleanNode,
         WritePid, TakePid, SetupBbNs, LinksDone, Fail, CleanNetwork, Delete, CreateFile,
         SavePid, Saved, Crash, Die,
         OtherProcess, End

(* What is to do before the namespaces was to do before, or the run begins.  *)
LEMMA TodoShrinks ==
    ASSUME TypeOK, [Next]_vars, pc' \in Early
    PROVE  \/ \E o \in Operations, m \in Managers : Start(o, m)
           \/ /\ pc \in Early /\ todo' \subseteq todo
              /\ \A n \in Nodes : RunContainer(n) => n \notin todo'
BY DEF TypeOK, Early, Next, vars, vmVars, agentVars, history, Start, RunContainer, AttachNode,
       CleanNode, WritePid, TakePid, AfterNode, SetupBbNs, LinksDone, Fail, CleanNetwork,
       Delete, CreateFile, SavePid, Saved,
       Crash, Die, OtherProcess, End

LEMMA NextOnce ==
    ASSUME TypeOK, OnceInv, [Next]_vars
    PROVE  OnceInv'
<1> DEFINE New(n, p) == /\ RunContainer(n) /\ holder'[p] = Own(n)
                        /\ holder[p] = Free /\ hand' = <<n, p>> /\ pc' = "write"
                        /\ \A q \in Pids \ {p} : holder'[q] = holder[q]
<1>1. ASSUME NEW n \in Nodes, RunContainer(n)
      PROVE  /\ n \in todo /\ Own(n) \in Containers /\ Own(n) \notin dead /\ dead' = dead
             /\ \A q \in Pids : holder[q] # Own(n)
             /\ run' = run
  BY <1>1, OperationTypes DEF RunContainer, OnceInv, Started, Early, Live, TypeOK
<1>2. ASSUME NEW p \in Pids, holder'[p] \in Containers
      PROVE  holder'[p] = holder[p] \/ \E n \in Nodes : New(n, p)
  BY <1>2, OnlyStarted
<1> HIDE DEF New
<1>3. ASSUME NEW p \in Pids, NEW q \in Pids, holder'[p] \in Containers,
             holder'[p] = holder'[q]
      PROVE  p = q
  <2>1. CASE holder'[p] = holder[p] /\ holder'[q] = holder[q]
    BY <1>3, <2>1 DEF OnceInv
  <2>2. ASSUME NEW n \in Nodes, New(n, p)
        PROVE  p = q
    BY <1>1, <1>3, <2>2 DEF New
  <2>3. ASSUME NEW n \in Nodes, New(n, q)
        PROVE  p = q
    BY <1>1, <1>3, <2>3 DEF New
  <2> QED
    BY <1>2, <1>3, <2>1, <2>2, <2>3
<1>4. ASSUME NEW p \in Pids, holder'[p] \in Containers
      PROVE  holder'[p] \notin dead' /\ holder'[p][2] <= run'
  <2>1. CASE holder'[p] = holder[p]
    <3>1. holder[p] \notin dead /\ holder[p][2] <= run
      BY <1>4, <2>1 DEF OnceInv
    <3>2. holder[p] \notin dead'
      <4> SUFFICES ASSUME holder[p] \in dead'
                   PROVE  FALSE
        OBVIOUS
      <4>1. PICK q \in Pids : holder[q] = holder[p] /\ holder'[q] = Free
        BY <3>1, OnlyEnded
      <4>2. p = q
        BY <1>4, <2>1, <4>1 DEF OnceInv
      <4> QED
        BY <1>4, <4>1, <4>2, NodeLifeAssumption
    <3>3. holder[p][2] \in Nat
      BY <1>4, <2>1 DEF Containers
    <3> QED
      BY <2>1, <3>1, <3>2, <3>3, RunGrows
  <2>2. ASSUME NEW n \in Nodes, New(n, p)
        PROVE  holder'[p] \notin dead' /\ holder'[p][2] <= run'
    <3>1. holder'[p] = <<n, run>> /\ run' = run /\ Own(n) \notin dead'
      BY <1>1, <2>2 DEF New, Own
    <3> QED
      BY <3>1, RunGrows DEF Own
  <2> QED
    BY <1>2, <1>4, <2>1, <2>2
<1>5. ASSUME NEW c \in dead'
      PROVE  c[2] <= run'
  <2>1. c \in Containers
    BY NextType DEF TypeOK
  <2>2. c[2] <= run
    <3>1. CASE c \in dead
      BY <3>1 DEF OnceInv
    <3>2. CASE c \notin dead
      BY <2>1, <3>2, OnlyEnded DEF OnceInv
    <3> QED
      BY <3>1, <3>2
  <2> QED
    BY <2>1, <2>2, RunGrows DEF Containers
<1>6. ASSUME NEW n \in todo', pc' \in Early
      PROVE  ~Started(n)'
  <2>1. ASSUME NEW o \in Operations, NEW m \in Managers, Start(o, m)
        PROVE  ~Started(n)'
    <3>1. run' = run + 1 /\ holder' = holder /\ dead' = dead /\ Own(n)' = <<n, run + 1>>
      BY <2>1 DEF Start, Own
    <3>2. \A c \in Containers : c \in Live \union dead => c[2] # run + 1
      BY RunGrows DEF OnceInv, Live, Containers
    <3> QED
      BY <3>1, <3>2 DEF Started, Live, TypeOK
  <2>2. CASE ~\E o \in Operations, m \in Managers : Start(o, m)
    <3>1. pc \in Early /\ n \in todo /\ ~RunContainer(n)
      BY <1>6, <2>2, TodoShrinks DEF TypeOK
    <3>2. run' = run /\ ~Started(n) /\ n \in Nodes
      BY <2>2, <3>1, RunGrows DEF OnceInv, TypeOK
    <3>3. Own(n)' = Own(n)
      BY <3>2 DEF Own
    <3>4. Own(n) \notin dead'
      <4>1. dead' \subseteq Containers
        BY NextType DEF TypeOK
      <4> QED
        BY <3>2, <4>1, OnlyEnded DEF Started, Live
    <3>5. ASSUME NEW p \in Pids, holder'[p] = Own(n), Own(n) \in Containers
          PROVE  FALSE
      <4>1. holder[p] # Own(n)
        BY <3>2, <3>5 DEF Started, Live
      <4>2. PICK m \in Nodes : RunContainer(m) /\ holder'[p] = Own(m)
        BY <3>5, <4>1, OnlyStarted
      <4>3. m = n
        BY <3>5, <4>2 DEF Own
      <4> QED
        BY <3>1, <4>2, <4>3
    <3> QED
      BY <3>3, <3>4, <3>5 DEF Started, Live
  <2> QED
    BY <2>1, <2>2
<1> QED
  BY <1>3, <1>4, <1>5, <1>6 DEF OnceInv
-----------------------------------------------------------------------------
(* Pids                                                                      *)

LEMMA HeldStays ==
    ASSUME TypeOK, [Next]_vars, NEW n \in Nodes, NEW p \in Pids, Held(n, p),
           run' = run, run # 0
    PROVE  Held(n, p)'
<1>1. Own(n) \in Containers /\ Own(n)' = Own(n)
  BY OperationTypes, NodeLifeAssumption DEF TypeOK, Own
<1> QED
  BY <1>1, Kept DEF Held

LEMMA FileCases ==
    ASSUME TypeOK, [Next]_vars, NEW n \in Nodes
    PROVE  \/ file'[n] = file[n] \/ file'[n] \in {NoPid, Absent}
           \/ WritePid /\ n = hand[1] /\ file'[n] = hand[2]
           \/ SavePid /\ n = hand[1] /\ file'[n] = hand[2]
<1> USE DEF vmVars, agentVars, history
<1>1. ASSUME NEW o \in Operations, NEW m \in Managers, Start(o, m)
      PROVE  file'[n] = file[n] \/ file'[n] = Absent
  BY <1>1 DEF Start
<1>2. CASE WritePid
  <2>1. hand \in Nodes \X (Pids \union {NoPid})
    BY <1>2 DEF WritePid, TypeOK
  <2> QED
    BY <1>2, <2>1 DEF WritePid, PutPid, TypeOK
<1>3. CASE SavePid
  BY <1>3 DEF SavePid, TypeOK
<1>4. CASE UNCHANGED file
  BY <1>4
<1>5. CASE Crash
  BY <1>5 DEF Crash, PutPid, TypeOK
<1>6. ASSUME NEW m \in Nodes, CreateFile(m)
      PROVE  file'[n] = file[n] \/ file'[n] = NoPid
  BY <1>6 DEF CreateFile, TypeOK
<1> QED
  BY <1>1, <1>2, <1>3, <1>4, <1>5, <1>6
     DEF Next, vars, RunContainer, AttachNode, CleanNode, TakePid, SetupBbNs, LinksDone,
         Fail, CleanNetwork, Delete, Saved, Die, OtherProcess, End

LEMMA NextFile ==
    ASSUME TypeOK, FileInv, HandInv, CacheInv, [Next]_vars
    PROVE  FileInv'
<1> SUFFICES ASSUME NEW n \in Nodes, file'[n] \in Pids
             PROVE  /\ \E r \in 1 .. MaxRuns :
                          holder'[file'[n]] = <<n, r>> \/ <<n, r>> \in dead'
                    /\ run' # 0 /\ (wiped' => Held(n, file[n])')
  BY DEF FileInv
<1>1. file'[n] \notin {NoPid, Absent}
  BY NodeLifeAssumption
<1>2. CASE file'[n] = file[n]
  <2>1. PICK r \in 1 .. MaxRuns : holder[file[n]] = <<n, r>> \/ <<n, r>> \in dead
    BY <1>2 DEF FileInv
  <2>2. holder'[file[n]] = <<n, r>> \/ <<n, r>> \in dead'
    BY <1>2, <2>1, Kept DEF Containers
  <2>3. run # 0 /\ run' # 0
    BY <1>2, RunGrows DEF FileInv
  <2>4. wiped' => wiped /\ run' = run
    <3>1. ASSUME NEW o \in Operations, NEW m \in Managers, Start(o, m), wiped'
          PROVE  FALSE
      BY <1>1, <3>1 DEF Start
    <3> QED
      BY <3>1, RunGrows
         DEF Next, vars, vmVars, agentVars, history, RunContainer, AttachNode, CleanNode,
             WritePid, TakePid, SetupBbNs, LinksDone, Fail, CleanNetwork, Delete,
             CreateFile, SavePid, Saved, Crash,
             Die, OtherProcess, End
  <2>5. wiped' => Held(n, file[n])'
    <3>1. wiped' => Held(n, file[n])
      BY <1>2, <2>4 DEF FileInv
    <3>2. ASSUME wiped', Held(n, file[n]) PROVE Own(n)' = Own(n) /\ Own(n) \in Containers
      BY <2>3, <2>4, <3>2, OperationTypes, NodeLifeAssumption DEF Own, TypeOK
    <3> QED
      BY <1>2, <3>1, <3>2, Kept DEF Held
  <2> QED
    BY <1>2, <2>2, <2>3, <2>5
<1>3. ASSUME Held(n, file'[n]), UNCHANGED <<holder, dead, run>>, pc # "idle"
      PROVE  /\ \E r \in 1 .. MaxRuns :
                   holder'[file'[n]] = <<n, r>> \/ <<n, r>> \in dead'
             /\ run' # 0 /\ (wiped' => Held(n, file[n])')
  <2>1. run \in 1 .. MaxRuns
    BY <1>3, NodeLifeAssumption DEF TypeOK
  <2> QED
    BY <1>3, <2>1 DEF Held, Own
<1>4. CASE WritePid /\ n = hand[1] /\ file'[n] = hand[2]
  BY <1>1, <1>3, <1>4 DEF WritePid, HandInv, TypeOK
<1>5. CASE SavePid /\ n = hand[1] /\ file'[n] = hand[2]
  BY <1>1, <1>3, <1>5 DEF SavePid, HandInv, TypeOK
<1> QED
  BY <1>1, <1>2, <1>4, <1>5, FileCases
LEMMA NextHand ==
    ASSUME TypeOK, HandInv, CacheInv, SaveInv, [Next]_vars
    PROVE  HandInv'
<1> USE DEF vmVars, agentVars, history
<1>1. ASSUME NEW n \in Nodes, RunContainer(n)
      PROVE  HandInv'
  <2>1. hand'[1] = n /\ n \notin todo' /\ pc' \in {"write", "take"}
    BY <1>1 DEF RunContainer
  <2>2. CASE hand' = <<n, NoPid>> /\ n \in unwritten'
    BY <2>1, <2>2 DEF HandInv
  <2>3. ASSUME NEW p \in Pids, hand' = <<n, p>>, holder' = [holder EXCEPT ![p] = Own(n)],
               pc' = "write"
        PROVE  HandInv'
    <3>1. holder'[p] = Own(n)'
      BY <1>1, <2>3 DEF RunContainer, Own, TypeOK
    <3> QED
      BY <2>1, <2>3, <3>1, NodeLifeAssumption DEF HandInv, Held
  <2> QED
    BY <1>1, <2>2, <2>3 DEF RunContainer
<1>2. CASE WritePid
  <2>1. hand # NoHand /\ hand \in Nodes \X (Pids \union {NoPid}) /\ pc = "write"
    BY <1>2 DEF WritePid, TypeOK
  <2>2. UNCHANGED <<hand, todo, holder, dead, run>> /\ unwritten \subseteq unwritten'
        /\ pc' = "take"
    BY <1>2 DEF WritePid
  <2>3. Held(hand[1], hand[2])' <=> Held(hand[1], hand[2])
    BY <2>2 DEF Held, Own
  <2>4. hand[1] \notin unwritten' => file'[hand[1]] = hand[2]
    BY <1>2, <2>1 DEF WritePid, PutPid, TypeOK
  <2> QED
    BY <2>1, <2>2, <2>3, <2>4 DEF HandInv
<1>3. ASSUME NEW p \in Pids, Die(p) \/ OtherProcess(p)
      PROVE  HandInv'
  <2>1. UNCHANGED <<hand, todo, file, run, pc, unwritten>>
    BY <1>3 DEF Die, OtherProcess
  <2>2. ASSUME hand # NoHand, hand[2] # NoPid
        PROVE  Held(hand[1], hand[2])'
    <3>1. hand[1] \in Nodes /\ hand[2] \in Pids /\ run # 0
      BY <2>2, NodeLifeAssumption DEF TypeOK, HandInv
    <3>2. Held(hand[1], hand[2])
      BY <2>2 DEF HandInv
    <3>3. \A n \in Nodes, q \in Pids : Held(n, q) => Held(n, q)'
      BY <2>1, <3>1, HeldStays
    <3> QED
      BY <2>1, <3>1, <3>2, <3>3 DEF Held, Own
  <2> QED
    BY <2>1, <2>2 DEF HandInv
<1>4. CASE UNCHANGED vars
  BY <1>4 DEF vars, HandInv, Held, Own
<1>5. CASE hand' = NoHand
  BY <1>5 DEF HandInv
<1>6. ASSUME pc \notin {"write", "take", "rewrite"}, hand' = hand
      PROVE  HandInv'
  BY <1>6 DEF HandInv
<1>7. ASSUME NEW n \in Nodes, CreateFile(n)
      PROVE  HandInv'
  <2>1. CASE hand' = hand /\ pc' = pc
    BY <1>6, <1>7, <2>1 DEF CreateFile
  <2>2. CASE hand' = <<n, cache[n]>> /\ pc' = "rewrite"
    <3>1. mgr = "goctr" /\ cache[n] \in Pids /\ n \notin todo'
      BY <1>7, NodeLifeAssumption DEF CreateFile, SaveInv, Saving, CacheInv, TypeOK, Cached
    <3>2. Held(n, cache[n])
      BY <3>1 DEF CacheInv, Excused
    <3>3. Held(n, cache[n])'
      BY <1>7, <3>2 DEF CreateFile, Held, Own
    <3> QED
      BY <1>7, <2>2, <3>1, <3>2, NodeLifeAssumption DEF CreateFile, HandInv, Held, Own
  <2> QED
    BY <1>7, <2>1, <2>2 DEF CreateFile
<1> QED
  BY <1>1, <1>2, <1>3, <1>4, <1>5, <1>6, <1>7
     DEF Next, Start, AttachNode, CleanNode, TakePid, SetupBbNs, LinksDone, Fail,
         CleanNetwork, Delete, CreateFile, SavePid, Saved, Crash, End

LEMMA NextCache ==
    ASSUME TypeOK, FileInv, HandInv, CacheInv, [Next]_vars
    PROVE  CacheInv'
<1> USE DEF vmVars, agentVars, history, Early
<1>1. ASSUME UNCHANGED <<cache, run, op, mgr, wiped>>, unwritten \subseteq unwritten',
             linked' \in {linked, {}}
                \/ (pc' = "link" /\ \A n \in linked' \ linked : cache[n] \in Pids),
             pc' = "idle" => pc = "idle", pc' \in Early => pc \in Early,
             pc' \in Early \ {"link"} => pc \in Early \ {"link"} \/ linked' = {}
      PROVE  CacheInv'
  <2>1. ASSUME NEW n \in Nodes, cache[n] \in Pids
        PROVE  Held(n, cache[n])' \/ Excused(n)'
    <3>1. CASE Excused(n)
      BY <1>1, <3>1 DEF Excused
    <3>2. CASE Held(n, cache[n]) /\ run # 0
      BY <1>1, <2>1, <3>2, HeldStays DEF Held, Own
    <3>3. CASE run = 0
      BY <2>1, <3>3, NodeLifeAssumption DEF CacheInv, TypeOK
    <3> QED
      BY <2>1, <3>1, <3>2, <3>3 DEF CacheInv
  <2> QED
    BY <1>1, <2>1 DEF CacheInv
<1>2. ASSUME NEW how \in {"done", "failed", "crashed"}, End(how)
      PROVE  CacheInv'
  BY <1>2, NodeLifeAssumption DEF End, CacheInv
<1>3. ASSUME NEW o \in Operations, NEW m \in Managers, Start(o, m)
      PROVE  CacheInv'
  BY <1>3, NodeLifeAssumption DEF Start, CacheInv
<1>4. CASE TakePid /\ ~End("failed")
  <2> DEFINE h == hand[1]
             pid == Taken(hand[1], hand[2])
  <2>1. hand # NoHand /\ h \in Nodes /\ hand[2] \in Pids \union {NoPid} /\ run # 0
    BY <1>4 DEF TakePid, TypeOK
  <2>2. pid # Absent /\ cache' = [cache EXCEPT ![h] = pid] /\ pc' \in {"bbns", "run", "link"}
        /\ UNCHANGED <<holder, dead, run, op, mgr, linked, wiped, unwritten>>
    BY <1>4 DEF TakePid, AfterNode
  <2>3. pid = NoPid => mgr = "cctr"
    BY <2>1, NodeLifeAssumption DEF Taken, TypeOK, Managers
  <2>4. pid \in Pids => Held(h, pid) \/ Excused(h)
    <3>1. CASE mgr = "goctr"
      BY <2>1, <3>1, NodeLifeAssumption DEF Taken, HandInv
    <3>2. CASE mgr # "goctr" /\ h \notin unwritten
      BY <1>4, <2>1, <3>2 DEF Taken, HandInv, TakePid
    <3>3. CASE mgr # "goctr" /\ h \in unwritten
      BY <2>1, <3>3 DEF Taken, FileInv, Excused, TypeOK, Managers
    <3> QED
      BY <3>1, <3>2, <3>3
  <2> HIDE DEF pid
  <2>5. \A n \in Nodes : cache'[n] = IF n = h THEN pid ELSE cache[n]
    BY <2>2 DEF TypeOK
  <2>6. op # "clean" /\ linked = {}
    BY <1>4 DEF TakePid, CacheInv
  <2>7. \A n \in Nodes, p \in Pids : /\ Held(n, p)' <=> Held(n, p)
                                     /\ Excused(n)' <=> Excused(n)
    BY <2>2 DEF Held, Own, Excused
  <2> QED
    BY <2>2, <2>3, <2>4, <2>5, <2>6, <2>7 DEF CacheInv
<1>5. CASE UNCHANGED vars
  BY <1>1, <1>5 DEF vars
<1>6. CASE CleanNetwork \/ LinksDone \/ WritePid
  BY <1>1, <1>6 DEF CleanNetwork, LinksDone, WritePid
<1>7. ASSUME NEW n \in Nodes, RunContainer(n) \/ AttachNode(n) \/ CleanNode(n)
      PROVE  CacheInv'
  <2>1. CASE RunContainer(n)
    BY <1>1, <2>1 DEF RunContainer
  <2>2. CASE AttachNode(n) /\ ~End("failed")
    BY <1>1, <2>2 DEF AttachNode
  <2>3. CASE CleanNode(n) /\ ~End("failed")
    BY <1>1, <2>3 DEF CleanNode
  <2> QED
    BY <1>2, <1>7, <2>1, <2>2, <2>3
<1>8. CASE SetupBbNs /\ ~End("failed")
  BY <1>1, <1>8 DEF SetupBbNs
<1>9. ASSUME NEW p \in Pids, Die(p) \/ OtherProcess(p)
      PROVE  CacheInv'
  BY <1>1, <1>9 DEF Die, OtherProcess
<1>10. CASE Delete /\ ~End("done")
  BY <1>1, <1>10 DEF Delete
<1>11. ASSUME NEW n \in Nodes, CreateFile(n)
       PROVE  CacheInv'
  BY <1>1, <1>11 DEF CreateFile
<1>12. CASE SavePid
  BY <1>1, <1>12 DEF SavePid
<1> QED
  BY <1>2, <1>3, <1>4, <1>5, <1>6, <1>7, <1>8, <1>9, <1>10, <1>11, <1>12
     DEF Next, Fail, Saved, Crash
-----------------------------------------------------------------------------
(* Namespaces                                                                *)

LEMMA NextNet ==
    ASSUME TypeOK, NodeInv, NetInv, OneNetwork, [Next]_vars
    PROVE  NetInv' /\ OneNetwork'
<1> USE DEF vmVars, agentVars, history, Saving
<1>1. ASSUME UNCHANGED <<bbns, run, op, made, built>>, pc # "idle",
             pc' \in {"link", "delete"} \union Saving =>
                pc \in {"link", "delete"} \union Saving \/ op # "setup",
             pc' # "idle", pc' \in {"netclean", "kill"} => pc = pc' \/ op # "setup",
             pc' \in {"run", "write", "take"} => pc \in {"run", "write", "take"} \/ op # "setup",
             pc' = "bbns" => pc = "bbns" \/ made = 0
      PROVE  NetInv' /\ OneNetwork'
  BY <1>1, NodeLifeAssumption DEF NetInv, OneNetwork, Spaces
<1>2. ASSUME NEW how \in {"failed", "crashed"}, End(how), pc # "idle"
      PROVE  NetInv' /\ OneNetwork'
  BY <1>2 DEF End, NetInv, OneNetwork
<1>3. ASSUME NEW o \in Operations, NEW m \in Managers, Start(o, m)
      PROVE  NetInv' /\ OneNetwork'
  <2>1. UNCHANGED <<bbns, built>> /\ run' = run + 1 /\ pc' \in {"netclean", "run", "bbns"}
        /\ (pc' = "netclean" => op' # "setup") /\ made' = 0
    BY <1>3 DEF Start, TypeOK
  <2>2. \A s \in Spaces : bbns[s] <= run /\ bbns[s] \in Nat /\ run \in Nat
    BY NodeLifeAssumption DEF TypeOK, NetInv
  <2>3. \A s \in Spaces : bbns[s] <= run + 1 /\ bbns[s] # run + 1
    BY <2>2
  <2> QED
    BY <2>1, <2>3 DEF NetInv, OneNetwork, Spaces
<1>4. CASE SetupBbNs /\ ~End("failed")
  <2>1. bbns[made] = 0 /\ bbns' = [bbns EXCEPT ![made] = run] /\ made' = made + 1
        /\ pc = "bbns" /\ UNCHANGED <<run, op, built>>
        /\ pc' = IF made + 1 = SpacesOf(op) THEN "link" ELSE "bbns"
    BY <1>4 DEF SetupBbNs, NameFree
  <2>2. made \in Nat /\ made < SpacesOf(op) /\ made \in Spaces /\ run \in Nat \ {0}
    BY <2>1, OperationTypes, NodeLifeAssumption DEF TypeOK, Spaces
  <2>3. \A s \in Spaces : /\ bbns'[s] = IF s = made THEN run ELSE bbns[s]
                          /\ s \in Nat /\ (s < made + 1 <=> s < made \/ s = made)
    BY <2>1, <2>2, NodeLifeAssumption DEF TypeOK, Spaces
  <2>4. \A s \in Spaces : bbns'[s] <= run' /\ (s < made + 1 => bbns'[s] = run)
    BY <2>1, <2>2, <2>3 DEF NetInv
  <2>5. pc' = "link" /\ op = "setup" => \A s \in Spaces : bbns'[s] = run
    <3> SUFFICES ASSUME pc' = "link", op = "setup", NEW s \in Spaces
                 PROVE  bbns'[s] = run
      OBVIOUS
    <3>1. made + 1 = BbNum
      BY <2>1 DEF SpacesOf, Measures
    <3>2. s < made + 1
      BY <3>1, NodeLifeAssumption DEF Spaces
    <3> QED
      BY <2>4, <3>2
  <2>6. built # {} => \E s \in Spaces :
           bbns'[s] # 0 /\ (op = "setup" => bbns'[s] # run)
    <3> SUFFICES ASSUME built # {}
                 PROVE  \E s \in Spaces : bbns'[s] # 0 /\ (op = "setup" => bbns'[s] # run)
      OBVIOUS
    <3>1. PICK s \in Spaces : bbns[s] # 0 /\ (op = "setup" => bbns[s] # run)
      BY <2>1 DEF NetInv
    <3> QED
      BY <2>1, <2>3, <3>1
  <2>7. pc' \in {"link", "bbns"}
    BY <2>1
  <2> QED
    BY <2>1, <2>4, <2>5, <2>6, <2>7 DEF NetInv, OneNetwork
<1>5. CASE CleanNetwork
  <2>1. PICK rest \in SUBSET Spaces :
           bbns' = [s \in Spaces |-> IF s \in rest THEN bbns[s] ELSE 0]
    BY <1>5 DEF CleanNetwork
  <2>2. op # "setup" /\ pc' \in {"kill", "delete"} /\ UNCHANGED <<run, op>> /\ run \in Nat
        /\ built' = IF \A s \in Spaces : bbns'[s] = 0 THEN {} ELSE built
    BY <1>5, RunGrows DEF CleanNetwork, NetInv
  <2>3. \A s \in Spaces : bbns'[s] = 0 \/ bbns'[s] = bbns[s]
    BY <2>1
  <2>4. \A s \in Spaces : bbns'[s] <= run
    BY <2>2, <2>3 DEF NetInv
  <2> QED
    BY <2>2, <2>4 DEF NetInv, OneNetwork
<1>6. CASE End("done") /\ pc \in {"delete", "save"}
  <2>1. End("done") /\ pc \in {"delete", "save"} /\ run # 0
    BY <1>6 DEF TypeOK
  <2>2. CASE op # "setup"
    BY <2>1, <2>2 DEF End, NetInv, OneNetwork
  <2>3. CASE op = "setup"
    <3>1. \A s \in Spaces : bbns[s] = run
      BY <2>1, <2>3 DEF NetInv
    <3>2. built = {}
      BY <2>1, <2>3, <3>1 DEF NetInv
    <3>3. 0 \in Spaces
      BY NodeLifeAssumption DEF Spaces
    <3>4. built' = {run} /\ pc' = "idle" /\ bbns' = bbns /\ run' = run
      BY <2>1, <2>3, <3>2 DEF End
    <3>5. \A s \in Spaces : bbns'[s] <= run'
      BY <3>4 DEF NetInv
    <3>6. bbns'[0] # 0
      BY <2>1, <3>1, <3>3, <3>4
    <3> QED
      BY <3>3, <3>4, <3>5, <3>6 DEF NetInv, OneNetwork
  <2> QED
    BY <2>2, <2>3
<1>7. ASSUME NEW n \in Nodes, RunContainer(n) \/ AttachNode(n) \/ CleanNode(n)
      PROVE  NetInv' /\ OneNetwork'
  <2>1. CASE RunContainer(n)
    BY <1>1, <2>1 DEF RunContainer
  <2>2. CASE AttachNode(n)
    BY <1>1, <1>2, <2>2 DEF AttachNode
  <2>3. CASE CleanNode(n)
    <3>1. op # "setup" /\ pc = "kill"
      BY <2>3 DEF CleanNode, NetInv
    <3> QED
      BY <1>1, <1>2, <2>3, <3>1 DEF CleanNode
  <2> QED
    BY <1>7, <2>1, <2>2, <2>3
<1>8. CASE WritePid
  BY <1>1, <1>8 DEF WritePid
<1>9. CASE LinksDone
  <2>1. op = "setup" => todo = {}
    BY <1>9 DEF LinksDone, NodeInv, Early
  <2> QED
    BY <1>1, <1>9, <2>1 DEF LinksDone
<1>10. CASE TakePid
  <2>1. CASE End("failed")
    BY <1>2, <1>10, <2>1 DEF TakePid
  <2>2. CASE ~End("failed")
    <3>1. UNCHANGED <<bbns, run, op, made, built>> /\ pc = "take"
          /\ pc' \in {"bbns", "run", "link"} /\ (pc' = "bbns" => made = 0)
          /\ (pc' = "link" => made # 0)
      BY <1>10, <2>2 DEF TakePid, AfterNode
    <3>2. pc' = "link" => op # "setup"
      BY <3>1 DEF NetInv
    <3> QED
      BY <1>1, <3>1, <3>2
  <2> QED
    BY <2>1, <2>2
<1>11. ASSUME UNCHANGED <<bbns, agentVars, built>>
       PROVE  NetInv' /\ OneNetwork'
  BY <1>11 DEF NetInv, OneNetwork
<1>12. CASE Fail \/ Crash \/ (SetupBbNs /\ End("failed"))
  BY <1>2, <1>12 DEF Fail, Crash, SetupBbNs
<1>13. CASE Delete \/ Saved
  BY <1>1, <1>6, <1>13 DEF Delete, Saved
<1>14. ASSUME NEW n \in Nodes, CreateFile(n)
       PROVE  NetInv' /\ OneNetwork'
  BY <1>1, <1>14 DEF CreateFile
<1>15. CASE SavePid
  BY <1>1, <1>15 DEF SavePid
<1> QED
  BY <1>3, <1>4, <1>5, <1>7, <1>8, <1>9, <1>10, <1>11, <1>12, <1>13,
     <1>14, <1>15 DEF Next, vars, Die, OtherProcess
-----------------------------------------------------------------------------
(* Nodes of the run                                                          *)

LEMMA NextNode ==
    ASSUME TypeOK, HandInv, NetInv, NodeInv, [Next]_vars
    PROVE  NodeInv'
<1> USE DEF vmVars, agentVars, history, Early
<1> DEFINE Missed(n) == mgr = "cctr" /\ n \in unwritten
           Done == \A n \in Graph \ todo : Started(n) \/ Missed(n)
<1>1. \A n \in Nodes : run' = run /\ Started(n) => Started(n)'
  BY StaysStarted DEF Started, Own
<1>2. /\ hand # NoHand \/ \A n \in Nodes : hand[1] # n
      /\ Graph \subseteq Nodes /\ FirstNodes("setup") = Graph
  BY NodeLifeAssumption DEF NoHand, FirstNodes, Measures
<1>3. op = "setup" /\ pc \in {"run", "bbns", "link"} => Done
  BY <1>2 DEF NodeInv, HandInv
<1>4. ASSUME UNCHANGED <<run, op, mgr, todo, hand>>, unwritten \subseteq unwritten',
             pc' \in Early => pc \in Early,
             pc' \in {"bbns", "link"} => pc \in {"bbns", "link"},
             pc' = "delete" /\ op = "setup" =>
                \/ pc = "delete" /\ linked' = linked
                \/ pc = "link" /\ linked' = LinkEnds
      PROVE  NodeInv'
  <2>1. LinkEnds' = LinkEnds
    BY <1>4 DEF LinkEnds
  <2>2. \A n \in Graph :
           hand[1] = n \/ Started(n) \/ Missed(n) =>
           hand'[1] = n \/ Started(n)' \/ Missed(n)'
    BY <1>1, <1>2, <1>4
  <2> QED
    BY <1>4, <2>1, <2>2 DEF NodeInv
<1>5. ASSUME pc' = "idle" \/ op' # "setup"
      PROVE  NodeInv'
  BY <1>5 DEF NodeInv
<1>6. ASSUME NEW o \in Operations, NEW m \in Managers, Start(o, m)
      PROVE  NodeInv'
  <2>1. op' = "setup" => todo' = Graph /\ pc' = "run"
    BY <1>2, <1>6 DEF Start, NodesOf
  <2> QED
    BY <2>1 DEF NodeInv
<1>7. ASSUME NEW n \in Nodes, RunContainer(n)
      PROVE  NodeInv'
  <2>1. pc = "run" /\ todo' = todo \ {n} /\ hand'[1] = n /\ UNCHANGED <<op, run, mgr>>
        /\ unwritten \subseteq unwritten' /\ pc' \in {"write", "take"}
    BY <1>7 DEF RunContainer
  <2>2. op = "setup" => \A m \in Graph \ todo : Started(m)' \/ Missed(m)'
    BY <1>1, <1>2, <1>3, <2>1
  <2> QED
    BY <2>1, <2>2 DEF NodeInv
<1>8. CASE TakePid /\ ~End("failed") /\ op = "setup"
  <2>1. pc = "take" /\ UNCHANGED <<holder, dead, run, op, mgr, todo, unwritten>>
        /\ Taken(hand[1], hand[2]) # Absent /\ AfterNode
    BY <1>8 DEF TakePid
  <2>2. hand # NoHand /\ hand[1] \in Nodes /\ hand[2] \in Pids \union {NoPid}
    BY <2>1 DEF TypeOK
  <2>3. Started(hand[1]) \/ Missed(hand[1])
    <3>1. CASE hand[2] = NoPid
      BY <2>1, <2>2, <3>1 DEF HandInv, Taken, TypeOK, Managers
    <3>2. CASE hand[2] # NoPid
      <4>1. Held(hand[1], hand[2]) /\ hand[2] \in Pids /\ Own(hand[1]) \in Containers
        BY <2>1, <2>2, <3>2, OperationTypes, NodeLifeAssumption DEF HandInv, TypeOK
      <4> QED
        BY <4>1 DEF Held, Started, Live
    <3> QED
      BY <3>1, <3>2
  <2>4. todo \subseteq Graph /\ \A n \in Graph \ todo : Started(n) \/ Missed(n)
    BY <1>8, <2>1, <2>3 DEF NodeInv
  <2>5. \A n \in Graph \ todo : Started(n)' \/ Missed(n)'
    BY <1>1, <1>2, <2>1, <2>4
  <2>6. pc' \in {"run", "bbns", "link"} /\ (pc' # "run" => todo = {})
    BY <1>2, <1>8, <2>1, <2>4 DEF AfterNode, NetInv
  <2> QED
    BY <2>1, <2>4, <2>5, <2>6 DEF NodeInv
<1>9. CASE WritePid
  BY <1>4, <1>9 DEF WritePid
<1>10. CASE LinksDone
  <2>1. op = "setup" => todo = {}
    BY <1>10 DEF LinksDone, NodeInv
  <2> QED
    BY <1>4, <1>5, <1>10, <2>1 DEF LinksDone
<1>11. ASSUME NEW n \in Nodes, AttachNode(n)
       PROVE  NodeInv'
  BY <1>4, <1>5, <1>11 DEF AttachNode, End
<1>12. CASE SetupBbNs
  BY <1>4, <1>5, <1>12 DEF SetupBbNs, End
<1>13. ASSUME NEW n \in Nodes, CleanNode(n)
       PROVE  NodeInv'
  <2>1. op # "setup"
    BY <1>13 DEF CleanNode, NetInv
  <2> QED
    BY <1>5, <1>13, <2>1 DEF CleanNode, End
<1>14. CASE CleanNetwork
  BY <1>5, <1>14 DEF CleanNetwork, NetInv
<1>15. ASSUME UNCHANGED <<agentVars, unwritten>>
       PROVE  NodeInv'
  BY <1>4, <1>15
<1>16. CASE TakePid /\ (End("failed") \/ op # "setup")
  BY <1>5, <1>16 DEF TakePid, End
<1>17. ASSUME pc' \in Saving
       PROVE  NodeInv'
  BY <1>17 DEF NodeInv, Saving
<1> QED
  BY <1>5, <1>6, <1>7, <1>8, <1>9, <1>10, <1>11, <1>12, <1>13, <1>14, <1>15, <1>16, <1>17
     DEF Saving, Next, vars, Fail, Delete, CreateFile, SavePid, Saved, Crash, Die,
         OtherProcess, End

LEMMA NextSave ==
    ASSUME TypeOK, HandInv, CacheInv, NodeInv, SaveInv, [Next]_vars
    PROVE  SaveInv'
<1> USE DEF vmVars, agentVars, history, Saving
<1>1. Graph \subseteq Nodes
  BY NodeLifeAssumption
<1>2. ASSUME pc \in Saving, pc' \in Saving, UNCHANGED <<run, op, mgr, cache>>,
             pc' = "rewrite" =>
                cache[hand'[1]] = hand'[2] /\ hand'[2] \in Pids /\ file'[hand'[1]] = NoPid
      PROVE  SaveInv'
  <2>1. \A n \in Nodes : Started(n) => Started(n)'
    BY <1>2, StaysStarted DEF Started, Own
  <2> QED
    BY <1>1, <1>2, <2>1 DEF SaveInv
<1>3. CASE Delete /\ ~End("done")
  <2>1. /\ pc = "delete" /\ mgr = "goctr" /\ pc' = "save"
        /\ UNCHANGED <<holder, dead, run, op, mgr>>
    BY <1>3 DEF Delete
  <2>2. \A n \in Nodes : hand[1] # n
    BY <2>1, NodeLifeAssumption DEF HandInv, NoHand
  <2>3. op = "setup" => \A n \in Graph : Started(n)
    BY <1>1, <2>1, <2>2 DEF NodeInv, Managers
  <2> QED
    BY <2>1, <2>3 DEF SaveInv, Started, Own, Live
<1>4. ASSUME NEW n \in Nodes, CreateFile(n)
      PROVE  SaveInv'
  <2>1. CASE hand' = <<n, cache[n]>> /\ pc' = "rewrite"
    <3>1. n \in Cached /\ mgr = "goctr"
      BY <1>4 DEF CreateFile, SaveInv, TypeOK
    <3>2. cache[n] \in Pids
      BY <3>1, NodeLifeAssumption DEF Cached, CacheInv, TypeOK
    <3>3. file'[n] = NoPid
      BY <1>4, <2>1 DEF CreateFile, TypeOK
    <3> QED
      BY <1>2, <1>4, <2>1, <3>2, <3>3 DEF CreateFile
  <2>2. CASE UNCHANGED <<pc, hand>>
    BY <1>2, <1>4, <2>2 DEF CreateFile
  <2> QED
    BY <1>4, <2>1, <2>2 DEF CreateFile
<1>5. CASE SavePid
  BY <1>2, <1>5 DEF SavePid
<1>6. CASE UNCHANGED <<file, agentVars>>
  BY <1>2, <1>6 DEF SaveInv
<1>7. ASSUME pc' \notin Saving
      PROVE  SaveInv'
  BY <1>7 DEF SaveInv
<1> QED
  BY <1>3, <1>4, <1>5, <1>6, <1>7
     DEF Next, vars, Start, RunContainer, AttachNode, CleanNode, WritePid, TakePid, AfterNode,
         SetupBbNs, LinksDone, Fail, CleanNetwork, Delete, Saved, Crash, Die, OtherProcess, End

LEMMA NextDone ==
    ASSUME TypeOK, HandInv, CacheInv, NodeInv, SaveInv, DoneMeansStarted, [Next]_vars
    PROVE  DoneMeansStarted'
<1> USE DEF vmVars, agentVars, history
<1>1. Graph \subseteq Nodes
  BY NodeLifeAssumption
<1>2. ASSUME UNCHANGED <<run, op, mgr, unwritten, wiped, ended, pc>>
      PROVE  DoneMeansStarted'
  <2>1. \A n \in Graph : Own(n)' = Own(n)
    BY <1>2 DEF Own
  <2> QED
    BY <1>2, <2>1, StaysStarted DEF DoneMeansStarted
<1>3. CASE Delete /\ End("done")
  <2> SUFFICES ASSUME op = "setup", NEW n \in Graph
               PROVE  \/ Own(n) \in Live \union dead
                      \/ /\ mgr = "cctr" /\ n \in unwritten
                         /\ n \notin Linked \/ ~wiped
    BY <1>3 DEF Delete, End, DoneMeansStarted, Own, Live
  <2>1. pc = "delete" /\ LinkEnds = Linked /\ n \in Nodes /\ Own(n) \in Containers
    BY <1>1, <1>3, OperationTypes, NodeLifeAssumption DEF Delete, LinkEnds, Measures, TypeOK
  <2>2. hand[1] # n
    BY <2>1, NodeLifeAssumption DEF HandInv, NoHand
  <2>3. Started(n) \/ (mgr = "cctr" /\ n \in unwritten)
    BY <2>1, <2>2 DEF NodeInv
  <2>4. n \in Linked => Started(n) \/ Excused(n)
    <3>1. n \in Linked => cache[n] \in Pids
      BY <2>1 DEF NodeInv, CacheInv
    <3>2. cache[n] \in Pids => Held(n, cache[n]) \/ Excused(n)
      BY <2>1 DEF CacheInv
    <3> QED
      BY <2>1, <3>1, <3>2 DEF Held, Started, Live
  <2> QED
    BY <2>3, <2>4 DEF Started, Excused
<1>4. ASSUME NEW how \in {"failed", "crashed"}, End(how)
      PROVE  DoneMeansStarted'
  BY <1>4 DEF End, DoneMeansStarted
<1>5. ASSUME pc' # "idle"
      PROVE  DoneMeansStarted'
  BY <1>5 DEF DoneMeansStarted
<1>6. CASE Saved
  <2>1. op = "setup" => \A n \in Graph : Started(n)
    BY <1>6 DEF Saved, SaveInv, Saving
  <2>2. \A n \in Nodes : Started(n) => Started(n)'
    BY <1>6, StaysStarted DEF Saved, End, Started, Own
  <2> QED
    BY <1>1, <1>6, <2>1, <2>2 DEF Saved, End, DoneMeansStarted, Started
<1> QED
  BY <1>2, <1>3, <1>4, <1>5, <1>6
     DEF Next, vars, Start, RunContainer, AttachNode, CleanNode, WritePid, TakePid, AfterNode,
         SetupBbNs, LinksDone, Fail, CleanNetwork, Delete, CreateFile, SavePid, Crash, Die,
         OtherProcess
-----------------------------------------------------------------------------
(* Cleaning                                                                  *)

LEMMA OwnFound ==
    ASSUME TypeOK, OnceInv, NEW n \in Nodes, NEW p \in Pids, NEW q \in Pids,
           holder[p] = Own(n), Held(n, q), pc # "idle"
    PROVE  p = q
<1>1. Own(n) \in Containers
  BY OperationTypes, NodeLifeAssumption DEF TypeOK
<1>2. Own(n) \notin dead
  BY <1>1 DEF OnceInv
<1>3. holder[q] = Own(n)
  BY <1>2 DEF Held
<1> QED
  BY <1>1, <1>3 DEF OnceInv

LEMMA NextNamed ==
    ASSUME TypeOK, OnceInv, HandInv, SaveInv, NamedInv, [Next]_vars
    PROVE  NamedInv'
<1> USE DEF vmVars, agentVars, history
<1> SUFFICES ASSUME NEW p \in Pids, holder'[p] \in Containers
             PROVE  \/ holder'[p] \in astray'
                    \/ file'[holder'[p][1]] = p
                    \/ /\ pc' = "write" /\ hand' = <<holder'[p][1], p>>
                       /\ holder'[p][2] = run'
  BY DEF NamedInv
<1> DEFINE c == holder'[p]
           Goal == \/ c \in astray'
                   \/ file'[c[1]] = p
                   \/ pc' = "write" /\ hand' = <<c[1], p>> /\ c[2] = run'
<1>1. ASSUME NEW n \in Nodes, RunContainer(n), c = Own(n), hand' = <<n, p>>, pc' = "write"
      PROVE  Goal
  BY <1>1 DEF RunContainer, Own
<1>2. ASSUME c = holder[p], pc # "write", file' = file, astray \subseteq astray'
      PROVE  Goal
  BY <1>2 DEF NamedInv
<1>3. ASSUME c = holder[p], file[c[1]] = p, Forgotten \subseteq astray'
      PROVE  Goal
  <2>1. Names(c[1]) = c
    BY <1>3 DEF Names
  <2> QED
    BY <1>3, <2>1 DEF Forgotten
<1>4. ASSUME NEW o \in Operations, NEW m \in Managers, Start(o, m)
      PROVE  Goal
  BY <1>2, <1>3, <1>4 DEF Start, NamedInv
<1>5. CASE WritePid
  <2>1. c = holder[p] /\ astray \subseteq astray' /\ Forgotten \subseteq astray'
    <3>1. \/ astray' = astray \union Forgotten
          \/ astray' = astray \union {Own(hand[1])} \union Forgotten
      BY <1>5 DEF WritePid
    <3> QED
      BY <1>5, <3>1 DEF WritePid
  <2>2. CASE hand = <<c[1], p>> /\ c[2] = run
    <3>1. c = Own(hand[1]) /\ hand[1] \in Nodes
      BY <1>5, <2>2 DEF WritePid, TypeOK, Own, Containers
    <3>2. c \in astray' \/ PutPid(hand[1], hand[2], TRUE)
      BY <1>5, <3>1 DEF WritePid
    <3> QED
      BY <2>2, <3>1, <3>2 DEF PutPid, TypeOK
  <2>3. CASE c \in astray
    BY <2>1, <2>3
  <2>4. CASE file[c[1]] = p
    BY <1>3, <2>1, <2>4
  <2> QED
    BY <2>1, <2>2, <2>3, <2>4 DEF NamedInv
<1>6. CASE SavePid
  <2>1. c = holder[p] /\ pc = "rewrite"
    BY <1>6 DEF SavePid
  <2>2. /\ hand[1] \in Nodes /\ hand[2] \in Pids /\ file[hand[1]] = NoPid
        /\ Held(hand[1], hand[2])
    BY <2>1, NodeLifeAssumption DEF TypeOK, NoHand, SaveInv, Saving, HandInv
  <2>3. CASE c = Own(hand[1])
    <3>1. p = hand[2]
      BY <2>1, <2>2, <2>3, OwnFound
    <3>2. Own(hand[1])[1] = hand[1]
      BY DEF Own
    <3> QED
      BY <1>6, <2>1, <2>2, <2>3, <3>1, <3>2 DEF SavePid, TypeOK, NamedInv
  <2>4. CASE c # Own(hand[1])
    <3>1. c \in astray \/ (file[c[1]] = p /\ c[1] # hand[1])
      BY <2>1, <2>2, NodeLifeAssumption DEF NamedInv
    <3>2. c[1] \in Nodes
      BY <2>1 DEF Containers
    <3> QED
      BY <1>6, <2>2, <2>4, <3>1, <3>2 DEF SavePid, TypeOK
  <2> QED
    BY <2>3, <2>4
<1>7. CASE Crash
  <2>1. c = holder[p] /\ astray \subseteq astray'
    BY <1>7 DEF Crash
  <2>2. CASE pc = "write" /\ hand = <<c[1], p>> /\ c[2] = run
    <3>1. c = Own(hand[1])
      BY <2>1, <2>2 DEF Own, Containers
    <3> QED
      BY <1>7, <2>2, <3>1 DEF Crash
  <2>3. CASE file[c[1]] = p
    <3>1. CASE pc = "write"
      BY <1>3, <1>7, <2>1, <2>3, <3>1 DEF Crash
    <3>2. CASE pc # "write"
      BY <1>7, <2>3, <3>2 DEF Crash
    <3> QED
      BY <3>1, <3>2
  <2> QED
    BY <2>1, <2>2, <2>3 DEF NamedInv
<1>10. ASSUME NEW n \in Nodes, CreateFile(n)
       PROVE  Goal
  <2>1. c = holder[p] /\ pc # "write" /\ astray \subseteq astray'
    BY <1>10 DEF CreateFile
  <2>2. CASE file' = file
    BY <1>2, <2>1, <2>2
  <2>3. CASE Forgotten \subseteq astray'
    BY <1>3, <2>1, <2>3 DEF NamedInv
  <2> QED
    BY <1>10, <2>2, <2>3 DEF CreateFile
<1>8. ASSUME c = holder[p], UNCHANGED <<file, astray, agentVars>>
      PROVE  Goal
  BY <1>8 DEF NamedInv
<1>9. CASE c = holder[p]
  <2>1. CASE UNCHANGED <<file, astray, agentVars>>
    BY <1>8, <1>9, <2>1
  <2>2. CASE pc # "write" /\ file' = file /\ astray \subseteq astray'
    BY <1>2, <1>9, <2>2
  <2> QED
    BY <1>4, <1>5, <1>6, <1>7, <1>10, <2>1, <2>2
       DEF Next, vars, RunContainer, AttachNode, CleanNode, TakePid, SetupBbNs, LinksDone,
           Fail, CleanNetwork, Delete, Saved, Die, OtherProcess
<1> QED
  BY <1>1, <1>9, OnlyStarted

LEMMA NextOwnNamed ==
    ASSUME TypeOK, OnceInv, HandInv, OwnNamedInv, [Next]_vars
    PROVE  OwnNamedInv'
<1> USE DEF vmVars, agentVars, history
<1> SUFFICES ASSUME NEW n \in Nodes, NEW p \in Pids, pc' \notin {"idle"} \union Saving,
                    holder'[p] = Own(n)'
             PROVE  \/ n \in unwritten' \/ file'[n] = p
                    \/ pc' = "write" /\ hand' = <<n, p>>
  BY DEF OwnNamedInv
<1> DEFINE Goal == \/ n \in unwritten' \/ file'[n] = p
                   \/ pc' = "write" /\ hand' = <<n, p>>
<1>1. holder'[p] \in Containers
  <2>1. run' \in 1 .. MaxRuns
    BY NextType, NodeLifeAssumption DEF TypeOK
  <2> QED
    BY <2>1 DEF Own, Containers
<1>2. ASSUME NEW m \in Nodes, RunContainer(m), holder'[p] = Own(m), hand' = <<m, p>>,
             pc' = "write"
      PROVE  Goal
  BY <1>2 DEF RunContainer, Own
<1>3. CASE holder'[p] = holder[p]
  <2>1. ASSUME NEW o \in Operations, NEW m \in Managers, Start(o, m)
        PROVE  FALSE
    <3>1. holder[p][2] = run + 1
      BY <1>3, <2>1 DEF Start, Own
    <3>2. holder[p][2] <= run
      BY <1>1, <1>3 DEF OnceInv
    <3> QED
      BY <3>1, <3>2, RunGrows
  <2>2. pc \notin {"idle"} \union Saving /\ holder[p] = Own(n)
    <3>1. run' = run
      BY <2>1, RunGrows
    <3>2. pc \notin {"idle"} \union Saving
      BY <2>1 DEF Saving, Next, vars, RunContainer, AttachNode, CleanNode, WritePid, TakePid,
                  SetupBbNs, LinksDone, Fail, CleanNetwork, Delete, CreateFile, SavePid,
                  Saved, Crash, Die,
                  OtherProcess, End
    <3> QED
      BY <1>3, <3>1, <3>2 DEF Own
  <2>3. CASE WritePid
    <3>1. hand # NoHand /\ hand \in Nodes \X (Pids \union {NoPid}) /\ pc' = "take"
      BY <2>3 DEF WritePid, TypeOK
    <3>2. CASE n # hand[1]
      BY <2>2, <2>3, <3>1, <3>2 DEF WritePid, PutPid, TypeOK, OwnNamedInv
    <3>3. CASE n = hand[1] /\ hand[2] = NoPid
      BY <2>3, <3>1, <3>3 DEF WritePid, HandInv
    <3>4. CASE n = hand[1] /\ hand[2] # NoPid
      <4>1. hand[2] \in Pids /\ Held(n, hand[2])
        BY <3>1, <3>4 DEF HandInv
      <4>2. p = hand[2]
        BY <2>2, <4>1, OwnFound
      <4> QED
        BY <2>3, <3>4, <4>2 DEF WritePid, PutPid, TypeOK
    <3> QED
      BY <3>2, <3>3, <3>4
  <2>4. CASE pc # "write" /\ file' = file /\ unwritten \subseteq unwritten'
    BY <2>2, <2>4 DEF OwnNamedInv
  <2>5. CASE UNCHANGED <<file, agentVars, unwritten>>
    BY <2>2, <2>5 DEF OwnNamedInv
  <2> QED
    BY <2>1, <2>2, <2>3, <2>4, <2>5
       DEF Saving, Next, vars, RunContainer, AttachNode, CleanNode, TakePid, SetupBbNs, LinksDone,
           Fail, CleanNetwork, Delete, CreateFile, SavePid, Saved, Crash, Die, OtherProcess, End
<1> QED
  BY <1>1, <1>2, <1>3, OnlyStarted

LEMMA NextCleaned ==
    ASSUME TypeOK, CacheInv, SaveInv, NetInv, NamedInv, OwnNamedInv, CleanedInv, [Next]_vars
    PROVE  CleanedInv'
<1> USE DEF vmVars, agentVars, history, Saving
<1>1. ASSUME UNCHANGED agentVars, UNCHANGED <<astray, unwritten>>,
             \A p \in Pids : holder'[p] \in Containers => holder'[p] = holder[p]
      PROVE  CleanedInv'
  BY <1>1 DEF CleanedInv, ToClean
<1>2. ASSUME pc' \notin {"kill", "delete"} \union Saving \/ op' = "setup"
      PROVE  CleanedInv'
  BY <1>2 DEF CleanedInv
<1>3. CASE CleanNetwork
  BY <1>3 DEF CleanNetwork, CleanedInv, ToClean
<1>4. ASSUME NEW n \in Nodes, CleanNode(n), ~End("failed")
      PROVE  CleanedInv'
  <2>1. pc = "kill" /\ n \in todo /\ todo' = todo \ {n} /\ (pc' = "delete" => todo' = {})
        /\ pc' \in {"kill", "delete"} /\ UNCHANGED <<op, mgr, run, file, unwritten>> /\ op # "setup"
        /\ astray \subseteq astray'
    BY <1>4 DEF CleanNode, NetInv
  <2>2. ToClean(op)' = ToClean(op)
    BY <2>1 DEF ToClean
  <2>3. SUFFICES ASSUME NEW p \in Pids, holder'[p] \in Containers,
                        holder'[p][1] \in ToClean(op) \ todo'
                 PROVE  \/ holder'[p] \in astray' /\ (op = "clean" \/ mgr = "cctr")
                        \/ op \in Measures /\ (holder'[p][2] # run
                                               \/ holder'[p][1] \in unwritten)
    BY <2>1, <2>2 DEF CleanedInv
  <2>4. holder'[p] = holder[p]
    BY <2>1, <2>3, OnlyStarted DEF RunContainer
  <2>5. CASE holder[p][1] # n
    BY <2>1, <2>3, <2>4, <2>5 DEF CleanedInv
  <2>6. CASE holder[p][1] = n /\ file[n] = p
    <3>1. Names(n) = holder[p] /\ CanKill(n) /\ holder[p] # Free
      BY <2>3, <2>4, <2>6, NodeLifeAssumption DEF Names, CanKill
    <3>2. ~Killed(n)
      BY <2>4, <2>6, <3>1 DEF Killed, TypeOK
    <3>3. mgr = "cctr" /\ holder[p] \in astray'
      BY <1>4, <2>3, <2>4, <3>1, <3>2 DEF CleanNode
    <3> QED
      BY <2>4, <3>3
  <2>7. CASE holder[p][1] = n /\ file[n] # p
    <3>1. holder[p] \in astray'
      BY <2>1, <2>3, <2>4, <2>7 DEF NamedInv
    <3>2. CASE op = "clean" \/ mgr = "cctr"
      BY <2>4, <3>1, <3>2
    <3>3. CASE op \in Measures
      <4>1. holder[p][2] = run => holder[p] = Own(n)
        BY <2>3, <2>4, <2>7 DEF Own, Containers
      <4> QED
        BY <2>1, <2>4, <2>7, <3>3, <4>1 DEF OwnNamedInv
    <3> QED
      BY <2>1, <3>2, <3>3 DEF TypeOK, Operations
  <2> QED
    BY <2>5, <2>6, <2>7
<1>5. CASE LinksDone
  BY <1>2, <1>5 DEF LinksDone
<1>6. ASSUME NEW p \in Pids, Die(p) \/ OtherProcess(p)
      PROVE  CleanedInv'
  <2>1. \A q \in Pids : holder'[q] \in Containers => holder'[q] = holder[q]
    BY <1>6, OnlyStarted DEF Die, OtherProcess, TypeOK, RunContainer
  <2> QED
    BY <1>1, <1>6, <2>1 DEF Die, OtherProcess
<1>7. CASE UNCHANGED vars
  BY <1>1, <1>7 DEF vars
<1>8. ASSUME UNCHANGED <<holder, run, op, mgr, unwritten>>, pc' \in Saving,
             pc \in {"delete"} \union Saving, mgr = "goctr",
             op = "clean" => astray \subseteq astray'
      PROVE  CleanedInv'
  BY <1>8 DEF CleanedInv, ToClean
<1>9. CASE Delete /\ ~End("done")
  BY <1>8, <1>9 DEF Delete
<1>10. ASSUME NEW n \in Nodes, CreateFile(n)
       PROVE  CleanedInv'
  BY <1>8, <1>10 DEF CreateFile, SaveInv
<1>11. CASE SavePid
  <2>1. op # "clean" /\ mgr = "goctr"
    BY <1>11, NodeLifeAssumption DEF SavePid, SaveInv, CacheInv, TypeOK, NoHand
  <2> QED
    BY <1>8, <1>11, <2>1 DEF SavePid
<1> QED
  BY <1>2, <1>3, <1>4, <1>5, <1>6, <1>7, <1>9, <1>10, <1>11
     DEF Next, Start, RunContainer, AttachNode, CleanNode, WritePid, TakePid, AfterNode, SetupBbNs,
         Fail, Delete, Saved, Crash, End

LEMMA NextClean ==
    ASSUME TypeOK, CacheInv, CleanedInv, CleanLeavesNothing, [Next]_vars
    PROVE  CleanLeavesNothing'
<1> USE DEF vmVars, agentVars, history
<1>1. ASSUME UNCHANGED <<run, op, pc, ended, astray, unwritten>>,
             \A p \in Pids : holder'[p] \in Containers => holder'[p] = holder[p]
      PROVE  CleanLeavesNothing'
  <2>1. Live' \subseteq Live
    BY <1>1 DEF Live
  <2> QED
    BY <1>1, <2>1 DEF CleanLeavesNothing, NodesOf, FirstNodes
<1>2. CASE End("done") /\ UNCHANGED <<holder, astray>> /\ pc \in {"delete", "save"}
  <2>1. pc \in {"delete"} \union Saving /\ UNCHANGED <<holder, op, run, unwritten, astray>>
    BY <1>2 DEF End, Saving
  <2>2. op \in Operations
    BY DEF TypeOK
  <2>3. ASSUME NEW c \in Live, op # "setup"
        PROVE  \/ c \in astray \/ c[1] \notin NodesOf(op)
               \/ op = "node-measure" /\ c[1] \in MeasureNodes
               \/ op \in Measures /\ (c[2] # run \/ c[1] \in unwritten)
    <3>1. PICK p \in Pids : holder[p] = c
      BY <2>3 DEF Live
    <3>2. c \in Containers
      BY <2>3 DEF Live
    <3>3. CASE c[1] \in ToClean(op)
      <4>1. pc \in Saving \/ c[1] \notin todo
        BY <2>1, <2>3 DEF CleanedInv
      <4> QED
        BY <2>1, <2>3, <3>1, <3>2, <3>3, <4>1 DEF CleanedInv
    <3>4. CASE c[1] \notin ToClean(op)
      BY <3>4, <2>2 DEF ToClean, NodesOf, FirstNodes, Measures
    <3> QED
      BY <3>3, <3>4
  <2> QED
    BY <2>1, <2>3 DEF CleanLeavesNothing, Live, NodesOf, FirstNodes
<1>3. ASSUME NEW how \in {"failed", "crashed"}, End(how)
      PROVE  CleanLeavesNothing'
  BY <1>3 DEF End, CleanLeavesNothing
<1>4. ASSUME pc' # "idle"
      PROVE  CleanLeavesNothing'
  BY <1>4 DEF CleanLeavesNothing
<1>5. ASSUME NEW p \in Pids, Die(p) \/ OtherProcess(p)
      PROVE  CleanLeavesNothing'
  <2>1. \A q \in Pids : holder'[q] \in Containers => holder'[q] = holder[q]
    BY <1>5, OnlyStarted DEF Die, OtherProcess, TypeOK, RunContainer
  <2> QED
    BY <1>1, <1>5, <2>1 DEF Die, OtherProcess
<1>6. CASE UNCHANGED vars
  BY <1>1, <1>6 DEF vars
<1>7. CASE Delete \/ Saved
  BY <1>2, <1>4, <1>7 DEF Delete, Saved
<1> QED
  BY <1>2, <1>3, <1>4, <1>5, <1>6, <1>7
     DEF Next, Start, RunContainer, AttachNode, CleanNode, WritePid, TakePid, AfterNode, SetupBbNs,
         LinksDone, Fail, CleanNetwork, CreateFile, SavePid, Crash
-----------------------------------------------------------------------------
(* Theorems                                                                  *)

Inv ==
    /\ TypeOK /\ OnceInv /\ FileInv /\ HandInv /\ CacheInv /\ NodeInv
    /\ SaveInv /\ NetInv /\ OneNetwork /\ DoneMeansStarted
    /\ NamedInv /\ OwnNamedInv /\ CleanedInv /\ CleanLeavesNothing

LEMMA InitInv == Init => Inv
<1> SUFFICES ASSUME Init
             PROVE  Inv
  OBVIOUS
<1> USE NodeLifeAssumption DEF Init
<1>1. \A p \in Pids : holder[p] \notin Containers
  OBVIOUS
<1>2. OnceInv /\ NamedInv /\ OwnNamedInv /\ CleanedInv
  BY <1>1 DEF OnceInv, NamedInv, OwnNamedInv, CleanedInv, Saving
<1>3. FileInv /\ HandInv
  BY DEF FileInv, HandInv, NoHand
<1>4. CacheInv /\ NodeInv /\ SaveInv
  BY DEF CacheInv, NodeInv, SaveInv, Saving, Early
<1>5. NetInv /\ OneNetwork
  BY DEF NetInv, OneNetwork, Spaces, Saving
<1>6. DoneMeansStarted /\ CleanLeavesNothing
  BY DEF DoneMeansStarted, CleanLeavesNothing
<1> QED
  BY <1>2, <1>3, <1>4, <1>5, <1>6, InitType DEF Inv

LEMMA NextInv == Inv /\ [Next]_vars => Inv'
BY NextType, NextOnce, NextFile, NextHand, NextCache, NextNode, NextSave, NextNet, NextDone, NextNamed,
   NextOwnNamed, NextCleaned, NextClean DEF Inv

(* The inductive invariant.                                                 *)
THEOREM Invariant == Spec => []Inv
BY InitInv, NextInv, PTL DEF Spec

(* Whatever pids are used again and whatever fails, a clean that ends as it  *)
(* should leaves running only what was lost for a known reason.              *)
THEOREM CleanIsComplete == Spec => []CleanLeavesNothing
<1>1. Inv => CleanLeavesNothing
  BY DEF Inv
<1> QED
  BY <1>1, Invariant, PTL

(* A set-up reported as done started every node with a link, however many    *)
(* runs there were before.                                                   *)
THEOREM DoneIsStarted == Spec => []DoneMeansStarted
<1>1. Inv => DoneMeansStarted
  BY DEF Inv
<1> QED
  BY <1>1, Invariant, PTL

(* The names of the backbone namespaces keep a second set-up from succeeding.*)
THEOREM OneNetworkStands == Spec => []OneNetwork
<1>1. Inv => OneNetwork
  BY DEF Inv
<1> QED
  BY <1>1, Invariant, PTL

(* Cleaning a node kills another process only after a container of the node  *)
(* has ended.                                                                *)
THEOREM KillsAreOwn == Spec => KillsOnlyOwn
<1> DEFINE Kills == \A n \in Nodes, p \in Pids :
                       CleanNode(n) /\ holder'[p] # holder[p] =>
                          \E r \in 1 .. MaxRuns : holder[p] = <<n, r>> \/ <<n, r>> \in dead
<1>1. Inv /\ [Next]_vars => [Kills]_vars
  <2> SUFFICES ASSUME Inv, NEW n \in Nodes, NEW p \in Pids, CleanNode(n),
                      holder'[p] # holder[p]
               PROVE  \E r \in 1 .. MaxRuns : holder[p] = <<n, r>> \/ <<n, r>> \in dead
    OBVIOUS
  <2>1. Killed(n) /\ CanKill(n)
    BY DEF CleanNode, End, vmVars, agentVars, history
  <2>2. file[n] \in Pids /\ p = file[n]
    BY <2>1 DEF Killed, CanKill, Names, Inv, TypeOK
  <2> QED
    BY <2>2 DEF Inv, FileInv
<1> QED
  BY <1>1, Invariant, PTL DEF Spec, KillsOnlyOwn

(* Links go to the container of this run, but for the two exceptions.        *)
THEOREM AttachmentsAreOwn == Spec => AttachesOwn
<1> DEFINE Attaches == \A n \in linked' \ linked :
                          \/ holder[cache[n]] = Own(n) \/ Own(n) \in dead
                          \/ mgr = "cctr" /\ ~wiped /\ n \in unwritten
<1>1. Inv /\ [Next]_vars => [Attaches]_vars
  <2> SUFFICES ASSUME Inv, [Next]_vars, NEW n \in linked', n \notin linked
               PROVE  Held(n, cache[n]) \/ Excused(n)
    BY DEF Held, Excused
  <2> USE DEF vmVars, agentVars, history
  <2>1. PICK m \in Nodes : AttachNode(m)
    BY DEF Next, vars, Start, RunContainer, CleanNode, WritePid, TakePid, SetupBbNs,
           LinksDone, Fail, CleanNetwork, Delete, CreateFile, SavePid, Saved, Crash, Die,
           OtherProcess, End
  <2>2. n = m /\ cache[n] \in Pids
    BY <2>1 DEF AttachNode, End
  <2> QED
    BY <2>2 DEF Inv, CacheInv
<1> QED
  BY <1>1, Invariant, PTL DEF Spec, AttachesOwn
=============================================================================
