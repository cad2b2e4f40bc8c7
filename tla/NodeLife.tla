------------------------------ MODULE NodeLife ------------------------------
(* The containers of one VM over several runs of the agent. A run sets a     *)
(* network up, cleans it, or measures: sets nodes up, links them and cleans  *)
(* them again. What joins the runs are the pid files under tmp/nodes/, the   *)
(* names of the backbone namespaces and the processes themselves: pids are   *)
(* used again, containers die, the agent can end at any point, and much of   *)
(* what fails is not looked at. Each run has a node manager, cctr (a program *)
(* of its own, whose result is in the file) or goctr (a call).               *)
(* ContainerRun is one start in detail; devices are in NetworkSetup.         *)
EXTENDS Naturals

CONSTANTS
    Nodes, Graph, Linked,   \* nodes; those of the topology; of these, with a link
    MeasureNodes,           \* nodes 0, 1, .. a measuring mode begins with
    SampleNodes,            \* nodes that node-measure adds
    Pids, NoPid, Absent,    \* pids; what a file without one reads as; no file
    Free, Other,            \* no process; a process that is no container
    BbNum,                  \* backbone namespaces of a set-up
    MaxRuns, MaxFaults      \* bounds

Containers == Nodes \X (1 .. MaxRuns)
Spaces == 0 .. BbNum - 1

ASSUME NodeLifeAssumption ==
    /\ Graph \subseteq Nodes /\ Linked \subseteq Graph /\ MeasureNodes \subseteq Nodes
    /\ SampleNodes \subseteq Nodes \ MeasureNodes /\ Graph # {} /\ MeasureNodes # {}
    /\ NoPid \notin Pids /\ Absent \notin Pids \union Nodes /\ NoPid # Absent
    /\ Free \notin Containers /\ Other \notin Containers /\ Free # Other
    /\ BbNum \in Nat \ {0} /\ MaxRuns \in Nat /\ MaxFaults \in Nat

VARIABLES
    holder,         \* what runs under each pid
    file,           \* pid file of each node
    bbns,           \* run that created each named namespace, 0 if there is none
    run, op, mgr,   \* number, operation and node manager of the agent
    pc, todo,       \* where it is, and the nodes still to do there
    hand,           \* node whose pid is at hand, to be written, and that pid
    cache,          \* nodeId2Pid, Absent for a node that is not in the map
    made, linked,   \* curBackBoneNum; nodes that have a link
    faults,         \* failures so far
    wiped,          \* has this run removed the files of earlier ones?
    unwritten,      \* nodes of this run whose start or pid file failed
    astray,         \* containers whose pid no file holds, for a known reason
    dead,           \* containers that have ended
    built,          \* set-ups that succeeded since the namespaces were removed
    ended           \* how the last run ended

vmVars == <<holder, file, bbns>>
agentVars == <<run, op, mgr, pc, todo, hand, cache, made, linked>>
history == <<wiped, unwritten, astray, dead, built, ended>>
vars == <<vmVars, agentVars, faults, history>>

Measures == {"const-measure", "link-measure", "node-measure", "bbns-measure"}
Operations == {"setup", "clean"} \union Measures
Managers == {"cctr", "goctr"}

Live == {c \in Containers : \E p \in Pids : holder[p] = c}
Own(n) == <<n, run>>

(* The nodes an operation sets up before its namespaces, all the nodes it has*)
(* to do with, and those its loop over CleanNode runs through, which is not  *)
(* the same for node-measure: it begins at node 2 (measure.go:134).          *)
FirstNodes(o) == IF o = "bbns-measure" THEN {} ELSE
                 IF o \in Measures THEN MeasureNodes ELSE Graph
NodesOf(o) == FirstNodes(o) \union (IF o = "node-measure" THEN SampleNodes ELSE {})
ToClean(o) == IF o = "node-measure" THEN SampleNodes ELSE FirstNodes(o)
LinkEnds == IF op \in Measures THEN FirstNodes(op) ELSE Linked
SpacesOf(o) == IF o \in Measures \ {"bbns-measure"} THEN 1 ELSE BbNum

(* Init of the node managers removes the directory of the files: goctr only  *)
(* before a set-up, cctr also before two of the measuring modes.             *)
Wipes(o, m) == o = "setup" \/ (m = "cctr" /\ o \in {"link-measure", "node-measure"})

(* What a pid file names, and the containers whose file does not any more.   *)
Names(n) == IF file[n] \in Pids THEN holder[file[n]] ELSE Free
Forgotten == {c \in Containers : Names(c[1]) = c /\ file'[c[1]] # file[c[1]]}

NoHand == <<Absent, NoPid>>
Fault == faults < MaxFaults /\ faults' = faults + 1

Init ==
    /\ holder = [p \in Pids |-> Free] /\ file = [n \in Nodes |-> Absent]
    /\ bbns = [s \in Spaces |-> 0]
    /\ run = 0 /\ op = "clean" /\ mgr = "cctr" /\ pc = "idle" /\ todo = {}
    /\ hand = NoHand /\ cache = [n \in Nodes |-> Absent] /\ made = 0 /\ linked = {}
    /\ faults = 0 /\ wiped = TRUE /\ unwritten = {} /\ astray = {} /\ dead = {}
    /\ built = {} /\ ended = "none"

(* The agent ends: what it held in memory is gone.                           *)
End(how) ==
    /\ pc' = "idle" /\ todo' = {} /\ hand' = NoHand /\ made' = 0 /\ linked' = {}
    /\ cache' = [n \in Nodes |-> Absent]
    /\ ended' = how
    /\ built' = IF op = "setup" /\ how = "done" THEN built \union {run} ELSE built
    /\ UNCHANGED <<bbns, run, op, mgr, wiped, unwritten>>

-----------------------------------------------------------------------------
(* Begin                                                                     *)

(* Removing the files can fail half-way; the error is returned and nobody    *)
(* looks at it. What still runs can then not be found any more.              *)
Start(o, m) ==
    /\ pc = "idle" /\ run < MaxRuns
    /\ run' = run + 1 /\ op' = o /\ mgr' = m
    /\ pc' = CASE o = "clean" -> "netclean" [] o = "bbns-measure" -> "bbns"
                [] OTHER -> "run"
    /\ todo' = NodesOf(o)
    /\ unwritten' = {}
    /\ \/ /\ Wipes(o, m)
          /\ \E kept \in SUBSET Nodes :
                /\ IF kept = {} THEN UNCHANGED faults ELSE Fault
                /\ wiped' = (kept = {})
                /\ file' = [n \in Nodes |-> IF n \in kept THEN file[n] ELSE Absent]
                /\ astray' = astray \union Forgotten
       \/ ~Wipes(o, m) /\ wiped' = FALSE /\ UNCHANGED <<file, astray, faults>>
    /\ UNCHANGED <<holder, bbns, hand, cache, made, linked, dead, built, ended>>

-----------------------------------------------------------------------------
(* SetupNode                                                                 *)

(* The runtime starts the container, or fails and reports NoPid. cctr may    *)
(* also not run at all, and then it writes no file.                          *)
RunContainer(n) ==
    /\ pc = "run" /\ n \in todo
    /\ todo \intersect FirstNodes(op) # {} => n \in FirstNodes(op)
    /\ todo' = todo \ {n}
    /\ \/ \E p \in Pids :
             /\ holder[p] = Free
             /\ holder' = [holder EXCEPT ![p] = Own(n)]
             /\ hand' = <<n, p>> /\ pc' = "write"
             /\ UNCHANGED <<faults, unwritten>>
       \/ /\ Fault /\ hand' = <<n, NoPid>> /\ unwritten' = unwritten \union {n}
          /\ pc' \in IF mgr = "cctr" THEN {"write", "take"} ELSE {"write"}
          /\ UNCHANGED holder
    /\ UNCHANGED <<file, bbns, run, op, mgr, cache, made, linked, wiped, astray,
                   dead, built, ended>>

(* The runtime writes the pid it returns. A failure leaves the file as it    *)
(* was or empty. Faulty variants: the pid of another process, such as the    *)
(* child the container was forked from; writing is left to Delete.           *)
PutChildPid(n, p, written) ==
    \E q \in Pids \ {p} : file' = [file EXCEPT ![n] = q]
PutPidLater(n, p, written) == UNCHANGED file
PutPid(n, p, written) ==
    IF written THEN file' = [file EXCEPT ![n] = p]
               ELSE file' \in {file, [file EXCEPT ![n] = NoPid]}

WritePid ==
    /\ pc = "write" /\ pc' = "take"
    /\ LET n == hand[1] IN
       \/ /\ PutPid(n, hand[2], TRUE)
          /\ astray' = astray \union Forgotten /\ UNCHANGED <<faults, unwritten>>
       \/ /\ Fault /\ PutPid(n, hand[2], FALSE)
          /\ unwritten' = unwritten \union {n}
          /\ astray' = astray \union {Own(n)} \union Forgotten
    /\ UNCHANGED <<holder, bbns, run, op, mgr, todo, hand, cache, made, linked,
                   wiped, dead, built, ended>>

(* goctr takes the pid returned and fails without one; cctr reads it back    *)
(* from the file and fails only if there is none. Faulty variants: goctr     *)
(* reads the file as well; goctr does not look at the result.                *)
TakenFromFile(n, p) == file[n]
TakenUnseen(n, p) == IF mgr = "goctr" THEN p ELSE file[n]
Taken(n, p) == IF mgr = "goctr" THEN (IF p = NoPid THEN Absent ELSE p) ELSE file[n]

(* Then comes the next node, a namespace if there is none yet, or, with a    *)
(* namespace, the links of one more sample of node-measure.                  *)
AfterNode ==
    \/ todo \intersect FirstNodes(op) # {} /\ pc' = "run"
    \/ todo \intersect FirstNodes(op) = {} /\ made = 0 /\ pc' = "bbns"
    \/ made # 0 /\ pc' \in IF todo = {} THEN {"link"} ELSE {"run", "link"}

TakePid ==
    /\ pc = "take"
    /\ LET n == hand[1]
           pid == Taken(n, hand[2])
       IN \/ pid = Absent /\ End("failed")
          \/ /\ pid # Absent
             /\ cache' = [cache EXCEPT ![n] = pid] /\ hand' = NoHand
             /\ AfterNode
             /\ UNCHANGED <<bbns, run, op, mgr, todo, made, linked, wiped, unwritten,
                            built, ended>>
    /\ UNCHANGED <<holder, file, faults, astray, dead>>

-----------------------------------------------------------------------------
(* Namespaces and links                                                      *)

(* netns.NewNamed does not take a name that is there. Faulty variant: it     *)
(* uses the namespace that has the name.                                     *)
NameAny(s) == TRUE
NameFree(s) == bbns[s] = 0

SetupBbNs ==
    /\ pc = "bbns"
    /\ \/ /\ NameFree(made)
          /\ bbns' = [bbns EXCEPT ![made] = run] /\ made' = made + 1
          /\ pc' = IF made + 1 = SpacesOf(op) THEN "link" ELSE "bbns"
          /\ UNCHANGED <<run, op, mgr, todo, hand, cache, linked, wiped, unwritten,
                         built, ended>>
       \/ ~NameFree(made) /\ End("failed")
    /\ UNCHANGED <<holder, file, faults, astray, dead>>

(* SetupLink opens the namespace of whatever process has the cached pid.     *)
AttachNode(n) ==
    /\ pc = "link" /\ n \in LinkEnds \ linked
    /\ \/ /\ cache[n] \in Pids /\ holder[cache[n]] # Free
          /\ linked' = linked \union {n}
          /\ UNCHANGED <<bbns, run, op, mgr, pc, todo, hand, cache, made, wiped,
                         unwritten, built, ended>>
       \/ ~(cache[n] \in Pids /\ holder[cache[n]] # Free) /\ End("failed")
    /\ UNCHANGED <<holder, file, faults, astray, dead>>

(* node-measure removes the links and goes on with more nodes.               *)
LinksDone ==
    /\ pc = "link" /\ linked = LinkEnds
    /\ \/ todo # {} /\ pc' = "run" /\ linked' = {}
       \/ /\ todo = {} /\ UNCHANGED linked
          /\ pc' = IF op = "setup" THEN "delete" ELSE "netclean"
    /\ UNCHANGED <<vmVars, run, op, mgr, todo, hand, cache, made, faults, history>>

(* Any call that makes a node, a namespace or a link can fail.               *)
Fail ==
    /\ pc \in {"run", "bbns", "link"}
    /\ Fault /\ End("failed")
    /\ UNCHANGED <<holder, file, astray, dead>>

-----------------------------------------------------------------------------
(* Clean                                                                     *)

(* CleanAllLinks and CleanAllBbNs: the links of a backbone namespace go with *)
(* it. The result of "ip netns del" is not looked at.                        *)
CleanNetwork ==
    /\ pc = "netclean"
    /\ pc' = IF ToClean(op) = {} THEN "delete" ELSE "kill"
    /\ \E rest \in SUBSET Spaces :
          /\ IF rest = {} THEN UNCHANGED faults ELSE Fault
          /\ bbns' = [s \in Spaces |-> IF s \in rest THEN bbns[s] ELSE 0]
    /\ built' = IF \A s \in Spaces : bbns'[s] = 0 THEN {} ELSE built
    /\ todo' = ToClean(op)
    /\ UNCHANGED <<holder, file, run, op, mgr, hand, cache, made, linked, wiped,
                   unwritten, astray, dead, ended>>

(* CleanNode sends SIGKILL to the pid in the file, whatever process has it.  *)
(* goctr reports a file without a pid and a process that does not exist; cctr*)
(* only a file that does not exist, and its kill may not run at all. A clean *)
(* goes on with the next node after an error, a measuring mode returns.      *)
CanKill(n) == Names(n) # Free
Reported(n) == IF mgr = "goctr" THEN ~CanKill(n) ELSE file[n] = Absent

Killed(n) ==
    /\ holder' = [holder EXCEPT ![file[n]] = Free]
    /\ dead' = dead \union ({Names(n)} \intersect Containers)

CleanNode(n) ==
    /\ pc = "kill" /\ n \in todo
    /\ \/ CanKill(n) /\ Killed(n) /\ UNCHANGED <<faults, astray>>
       \/ /\ CanKill(n) /\ mgr = "cctr" /\ Fault
          /\ astray' = astray \union ({Names(n)} \intersect Containers)
          /\ UNCHANGED <<holder, dead>>
       \/ ~CanKill(n) /\ UNCHANGED <<holder, dead, faults, astray>>
    /\ IF op \in Measures /\ Reported(n)
       THEN End("failed")
       ELSE /\ todo' = todo \ {n}
            /\ pc' = IF todo = {n} THEN "delete" ELSE "kill"
            /\ UNCHANGED <<bbns, run, op, mgr, hand, cache, made, linked, wiped,
                           unwritten, built, ended>>
    /\ UNCHANGED file

(* Delete of goctr writes all cached pids to the files once more: each file  *)
(* is emptied by os.Create and then written. Errors are not looked at. Delete*)
(* of cctr does nothing.                                                     *)
Cached == {n \in Nodes : cache[n] # Absent}

Delete ==
    /\ pc = "delete"
    /\ \/ /\ mgr = "goctr" /\ pc' = "save" /\ todo' = Cached
          /\ UNCHANGED <<bbns, run, op, mgr, hand, cache, made, linked, wiped,
                         unwritten, built, ended>>
       \/ mgr = "cctr" /\ End("done")
    /\ UNCHANGED <<holder, file, faults, astray, dead>>

CreateFile(n) ==
    /\ pc = "save" /\ n \in todo
    /\ todo' = todo \ {n}
    /\ \/ /\ file' = [file EXCEPT ![n] = NoPid]
          /\ astray' = astray \union Forgotten
          /\ hand' = <<n, cache[n]>> /\ pc' = "rewrite" /\ UNCHANGED faults
       \/ Fault /\ UNCHANGED <<file, astray, hand, pc>>
    /\ UNCHANGED <<holder, bbns, run, op, mgr, cache, made, linked, wiped, unwritten,
                   dead, built, ended>>

SavePid ==
    /\ pc = "rewrite" /\ pc' = "save" /\ hand' = NoHand
    /\ \/ /\ file' = [file EXCEPT ![hand[1]] = hand[2]]
          /\ astray' = astray \ {Own(hand[1])} /\ UNCHANGED faults
       \/ Fault /\ UNCHANGED <<file, astray>>
    /\ UNCHANGED <<holder, bbns, run, op, mgr, todo, cache, made, linked, wiped,
                   unwritten, dead, built, ended>>

Saved ==
    /\ pc = "save" /\ todo = {} /\ End("done")
    /\ UNCHANGED <<holder, file, faults, astray, dead>>

-----------------------------------------------------------------------------
(* Around the agent                                                          *)

(* The agent ends half-way: it is killed, panics or leaves its loop. What    *)
(* goctr returned is lost, and the file may be empty already; the program    *)
(* cctr goes on and writes its file.                                         *)
Crash ==
    /\ pc # "idle" /\ ~(pc = "write" /\ mgr = "cctr")
    /\ Fault /\ End("crashed")
    /\ IF pc = "write"
       THEN /\ PutPid(hand[1], hand[2], FALSE)
            /\ astray' = astray \union {Own(hand[1])} \union Forgotten
       ELSE UNCHANGED <<file, astray>>
    /\ UNCHANGED <<holder, dead>>

(* A container ends by itself; other processes begin and end.                *)
Die(p) ==
    /\ holder[p] \in Containers /\ Fault
    /\ holder' = [holder EXCEPT ![p] = Free]
    /\ dead' = dead \union {holder[p]}
    /\ UNCHANGED <<file, bbns, agentVars, wiped, unwritten, astray, built, ended>>

OtherProcess(p) ==
    /\ \/ holder[p] = Free /\ holder' = [holder EXCEPT ![p] = Other]
       \/ holder[p] = Other /\ holder' = [holder EXCEPT ![p] = Free]
    /\ UNCHANGED <<file, bbns, agentVars, faults, history>>

Next ==
    \/ \E o \in Operations, m \in Managers : Start(o, m)
    \/ \E n \in Nodes : RunContainer(n) \/ AttachNode(n) \/ CleanNode(n) \/ CreateFile(n)
    \/ WritePid \/ TakePid \/ SetupBbNs \/ LinksDone \/ Fail
    \/ CleanNetwork \/ Delete \/ SavePid \/ Saved \/ Crash
    \/ \E p \in Pids : Die(p) \/ OtherProcess(p)

Spec == Init /\ [][Next]_vars

-----------------------------------------------------------------------------
(* Properties                                                                *)

TypeOK ==
    /\ holder \in [Pids -> Containers \union {Free, Other}]
    /\ file \in [Nodes -> Pids \union {NoPid, Absent}]
    /\ bbns \in [Spaces -> 0 .. MaxRuns]
    /\ run \in 0 .. MaxRuns /\ op \in Operations /\ mgr \in Managers
    /\ pc \in {"idle", "run", "write", "take", "bbns", "link", "netclean", "kill",
              "delete", "save", "rewrite"}
    /\ pc # "idle" => run # 0
    /\ todo \subseteq Nodes
    /\ hand \in (Nodes \X (Pids \union {NoPid})) \union {NoHand}
    /\ pc \in {"write", "take", "rewrite"} => hand # NoHand
    /\ cache \in [Nodes -> Pids \union {NoPid, Absent}]
    /\ pc \in {"save", "rewrite"} => todo \subseteq Cached
    /\ made \in 0 .. BbNum /\ (pc = "bbns" => made < SpacesOf(op))
    /\ pc = "idle" => made = 0
    /\ linked \subseteq Nodes /\ faults \in 0 .. MaxFaults
    /\ wiped \in BOOLEAN /\ unwritten \subseteq Nodes
    /\ astray \subseteq Containers /\ dead \subseteq Containers
    /\ built \subseteq 1 .. MaxRuns
    /\ ended \in {"none", "done", "failed", "crashed"}

(* A clean, or a measuring mode, that ends as it should leaves no container  *)
(* of its nodes running but those whose pid was lost for a known reason      *)
(* (netManage.go:208, measure.go:368). A measuring mode speaks only of its   *)
(* own, and node-measure leaves its first nodes running, although its comment*)
(* and its message speak of all of them (measure.go:130-134).                *)
CleanLeavesNothing ==
    pc = "idle" /\ ended = "done" /\ op # "setup" =>
        \A c \in Live : \/ c \in astray \/ c[1] \notin NodesOf(op)
                        \/ op = "node-measure" /\ c[1] \in MeasureNodes
                        \/ op \in Measures /\ (c[2] # run \/ c[1] \in unwritten)

(* A pid file outlives the container and its pid can belong to another       *)
(* process by then (goctrManager.go:137). But as long as no container of a   *)
(* node has ended, cleaning the node ends a container of that node.          *)
KillsOnlyOwn ==
    [][\A n \in Nodes, p \in Pids :
          CleanNode(n) /\ holder'[p] # holder[p] =>
              \E r \in 1 .. MaxRuns : holder[p] = <<n, r>> \/ <<n, r>> \in dead]_vars

(* Links are attached to the container this run started for the node, unless *)
(* it has ended, or cctr did not start it and a file of an earlier run was   *)
(* read instead (cctrManager.go:72).                                         *)
AttachesOwn ==
    [][\A n \in linked' \ linked :
          \/ holder[cache[n]] = Own(n) \/ Own(n) \in dead
          \/ mgr = "cctr" /\ ~wiped /\ n \in unwritten]_vars

(* A set-up reported as done has started every node, except that cctr can    *)
(* miss one that has no link (cctrManager.go:72).                            *)
DoneMeansStarted ==
    pc = "idle" /\ ended = "done" /\ op = "setup" =>
        \A n \in Graph : \/ Own(n) \in Live \union dead
                         \/ /\ mgr = "cctr" /\ n \in unwritten
                            /\ n \notin Linked \/ ~wiped

(* Two set-ups do not both succeed unless the namespaces were removed in     *)
(* between, although a set-up starts its nodes before it finds those of the  *)
(* other (ntlBrManager.go:59).                                               *)
OneNetwork == \A r, s \in built : r = s
=============================================================================
