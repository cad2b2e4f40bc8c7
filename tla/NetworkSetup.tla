---------------------------- MODULE NetworkSetup ----------------------------
(***************************************************************************)
(* NetworkSetup (agent/code/network/netManage.go) with the link manager it *)
(* drives (ntlBrManager.go): nodes, then backbone namespaces, then the     *)
(* links, one after the other or through the thread pool.                  *)
(*                                                                         *)
(* All threads share one table of namespace handles (file descriptors: an  *)
(* open takes the lowest free number), and the link manager keeps the      *)
(* handle of the current backbone namespace in one field, curBackBoneNs.   *)
(* Every thread has a current network namespace of its own.                *)
(***************************************************************************)
EXTENDS Integers, FiniteSets, Sequences

CONSTANTS Workers,       \* workers of the pool; {} when Parallel = 0
          Main,          \* the thread that runs NetworkSetup
          NodeOrder,     \* the nodes, in the order they are set up
          EdgeOrder,     \* for each node of NodeOrder, a list of edges
          BackBoneNums,  \* the values of -b to consider
          NodesMayFail,  \* positions of the nodes whose set-up may fail
          BbNsMayFail,   \* backbone namespaces that may fail to be created or entered
          MayFail,       \* places of the edges the kernel may refuse
          LeftBehind,    \* external links whose VXLAN device a failed set-up
                         \* may have left in the host namespace
          MaxHandle      \* handles that can be open at the same time

\* An edge <<i, j, vxlanID>> is internal (vxlanID = -1) or leads to node j on
\* another server.
Edge(s) == EdgeOrder[s[1]][s[2]]
External(s) == Edge(s)[3] # -1
SameVni(s, u) == External(s) /\ Edge(s)[3] = Edge(u)[3]
SameName(s, u) == {Edge(s)[1], Edge(s)[2]} = {Edge(u)[1], Edge(u)[2]}
Slots == UNION {{i} \X (1..Len(EdgeOrder[i])) : i \in 1..Len(EdgeOrder)}
EdgeNum == Cardinality(Slots)   \* Graph.GetEdgeNum

ASSUME SetupAssumption ==
    /\ IsFiniteSet(Workers) /\ Main \notin Workers
    /\ NodeOrder \in Seq(Int)
    /\ EdgeOrder \in Seq(Seq(Int \X Int \X Int))
    /\ Len(NodeOrder) = Len(EdgeOrder)
    /\ BackBoneNums \subseteq Nat \ {0}
    /\ NodesMayFail \subseteq 1..Len(NodeOrder)
    /\ BbNsMayFail \subseteq Nat
    /\ MayFail \subseteq Slots
    /\ LeftBehind \subseteq {s \in Slots : External(s)}
    \* Two edges share a VNI only in a sequential set-up, and then no device
    \* of theirs is left over: which of them it belongs to is not modelled.
    /\ \A s, u \in Slots : s # u /\ SameVni(s, u) =>
           Workers = {} /\ s \notin LeftBehind
    /\ MaxHandle \in Nat \ {0}

Threads == Workers \cup {Main}
Parallel == Workers # {}

\* Network namespaces, and the values that stand for none.
Host == <<"host", 0>>
BbNs(k) == <<"bbns", k>>
NodeNs(n) == <<"node", n>>
Closed == <<"closed", 0>>    \* the number names no open handle
Nowhere == <<"nowhere", 0>>  \* no device of the link exists

IsBbNs(n) == n[1] = "bbns"

VARIABLES
    \* NetworkSetup and ThreadPool
    client, list, pos, wg, hasError, worker, task, completed,
    backBoneNum,   \* the argument -b
    nodeNum,       \* how many nodes of NodeOrder are set up
    curLinkNum,    \* links handed out or set up so far
    curBbnsIndex,  \* index of the backbone namespace to enter next
    \* NtlBrLinkManager
    curBackBoneNum,  \* backbone namespaces created
    curBackBoneNs,   \* handle of the current one, 0 for -1
    \* the kernel
    handle,        \* handle[h]: the namespace that h names, or Closed
    ns,            \* ns[t]: current namespace of thread t
    where,         \* where[s]: namespace of the bridge of link s
    vxlan,         \* vxlan[s]: namespace of the VXLAN device of link s
    \* SetupLink as thread t runs it
    step,          \* step[t]: where it is
    bbns,          \* bbns[t]: the handle it was given or has read
    held,          \* held[t]: the node handles it has opened
    \* history
    assigned,      \* assigned[s]: namespace entered when s was handed out
    dropped        \* handles open that the program has no copy of any more

poolVars == <<client, list, pos, wg, hasError, worker, task, completed>>
history == <<assigned, dropped>>
loopVars == <<backBoneNum, nodeNum, curLinkNum, curBbnsIndex, curBackBoneNum,
              curBackBoneNs, history>>
linkVars == <<handle, ns, where, vxlan, step, bbns, held>>
vars == <<poolVars, loopVars, linkVars>>

\* The pool as ThreadPool describes it: before the links, while a backbone
\* namespace is entered, and when NetworkSetup has given up on an error of its
\* own, its client is in its loop.
Pool == INSTANCE ThreadPool WITH
            NumLists <- Len(EdgeOrder),
            ListLen  <- [i \in 1..Len(EdgeOrder) |-> Len(EdgeOrder[i])],
            MayFail  <- Slots,
            client   <- IF client \in {"nodes", "bbns", "enter", "entered", "failed"}
                        THEN "loop" ELSE client

Handles == 1..MaxHandle
LowestFree == CHOOSE h \in Handles : /\ handle[h] = Closed
                                     /\ \A g \in 1..(h - 1) : handle[g] # Closed

\* An open fails while the table is full.
HandleFree == \E h \in Handles : handle[h] = Closed

LinkPerBackBoneNs == (EdgeNum + backBoneNum - 1) \div backBoneNum

-----------------------------------------------------------------------------
Init == /\ client = "nodes"
        /\ list = 1 /\ pos = 0 /\ wg = 0 /\ hasError = FALSE
        /\ worker = [w \in Workers |-> "start"]
        /\ task = [w \in Workers |-> Pool!NoTask]
        /\ completed = {}
        /\ backBoneNum \in BackBoneNums
        /\ nodeNum = 0 /\ curLinkNum = 0 /\ curBbnsIndex = 0
        /\ curBackBoneNum = 0 /\ curBackBoneNs = 0
        /\ assigned = [s \in Slots |-> Nowhere] /\ dropped = {}
        /\ handle = [h \in Handles |-> Closed]
        /\ ns = [t \in Threads |-> Host]
        /\ where = [s \in Slots |-> Nowhere]
        /\ \E left \in SUBSET LeftBehind :
               vxlan = [s \in Slots |-> IF s \in left THEN Host ELSE Nowhere]
        /\ step = [t \in Threads |-> "none"]
        /\ bbns = [t \in Threads |-> 0]
        /\ held = [t \in Threads |-> <<>>]

-----------------------------------------------------------------------------
(* Nodes and backbone namespaces. *)

\* The first loop of NetworkSetup: the next node, or on to the namespaces.
SetupNode ==
    /\ client = "nodes"
    /\ IF nodeNum < Len(NodeOrder)
       THEN \/ nodeNum' = nodeNum + 1 /\ UNCHANGED client
            \/ nodeNum + 1 \in NodesMayFail /\ client' = "failed" /\ UNCHANGED nodeNum
       ELSE client' = "bbns" /\ UNCHANGED nodeNum
    /\ UNCHANGED <<list, pos, wg, hasError, worker, task, completed, backBoneNum,
                   curLinkNum, curBbnsIndex, curBackBoneNum, curBackBoneNs,
                   history, linkVars>>

\* lm.SetupBbNs with success: netns.NewNamed creates the namespace, enters it
\* and opens a handle, which NetworkSetup overwrites without closing it.
CreateBbNs ==
    /\ HandleFree
    /\ handle' = [handle EXCEPT ![LowestFree] = BbNs(curBackBoneNum)]
    /\ dropped' = dropped \cup {LowestFree}
    /\ ns' = [ns EXCEPT ![Main] = BbNs(curBackBoneNum)]
    /\ curBackBoneNum' = curBackBoneNum + 1

\* Faulty variant: one namespace too many.
SetupBbNsOffByOne ==
    /\ client = "bbns"
    /\ IF curBackBoneNum <= backBoneNum
       THEN CreateBbNs /\ UNCHANGED client
       ELSE client' = "loop" /\ UNCHANGED <<handle, dropped, ns, curBackBoneNum>>
    /\ UNCHANGED <<list, pos, wg, hasError, worker, task, completed, backBoneNum,
                   nodeNum, curLinkNum, curBbnsIndex, curBackBoneNs, assigned,
                   where, vxlan, step, bbns, held>>

\* lm.SetupBbNs, backBoneNum times.
SetupBbNs ==
    /\ client = "bbns"
    /\ IF curBackBoneNum < backBoneNum
       THEN \/ CreateBbNs /\ UNCHANGED client
            \/ /\ curBackBoneNum \in BbNsMayFail \/ ~HandleFree
               /\ client' = "failed"
               /\ UNCHANGED <<handle, dropped, ns, curBackBoneNum>>
       ELSE client' = "loop" /\ UNCHANGED <<handle, dropped, ns, curBackBoneNum>>
    /\ UNCHANGED <<list, pos, wg, hasError, worker, task, completed, backBoneNum,
                   nodeNum, curLinkNum, curBbnsIndex, curBackBoneNs, assigned,
                   where, vxlan, step, bbns, held>>

-----------------------------------------------------------------------------
(* The loop over the links. *)

MoreLinks == list <= Len(EdgeOrder) /\ pos < Len(EdgeOrder[list])

\* Faulty variant: only the first namespace is ever entered.
BoundaryOnlyOnce == curLinkNum = 0

\* The next link starts another backbone namespace.
Boundary == curLinkNum % LinkPerBackBoneNs = 0

\* EnterBbNs, first half: open the namespace by its name and enter it. When
\* it cannot be entered, or IPv6 not be disabled in it, the handle just opened
\* is left open.
EnterBbNs ==
    /\ client = "loop" /\ MoreLinks /\ Boundary
    /\ IF curBbnsIndex < curBackBoneNum /\ HandleFree
       THEN /\ handle' = [handle EXCEPT ![LowestFree] = BbNs(curBbnsIndex)]
            /\ \/ /\ bbns' = [bbns EXCEPT ![Main] = LowestFree]
                  /\ ns' = [ns EXCEPT ![Main] = BbNs(curBbnsIndex)]
                  /\ client' = "enter" /\ UNCHANGED dropped
               \/ /\ curBbnsIndex \in BbNsMayFail
                  /\ ns' \in {ns, [ns EXCEPT ![Main] = BbNs(curBbnsIndex)]}
                  /\ dropped' = dropped \cup {LowestFree}
                  /\ client' = "failed" /\ UNCHANGED bbns
       ELSE client' = "failed" /\ UNCHANGED <<handle, bbns, ns, dropped>>
    /\ UNCHANGED <<list, pos, wg, hasError, worker, task, completed, backBoneNum,
                   nodeNum, curLinkNum, curBbnsIndex, curBackBoneNum,
                   curBackBoneNs, assigned, where, vxlan, step, held>>

\* Faulty variant: the handle of the namespace left is never closed.
SwitchBbNsLeaks ==
    /\ client = "enter"
    /\ curBackBoneNs' = bbns[Main]
    /\ curBbnsIndex' = curBbnsIndex + 1
    /\ client' = "entered"
    /\ UNCHANGED <<list, pos, wg, hasError, worker, task, completed, backBoneNum,
                   nodeNum, curLinkNum, curBackBoneNum, history, linkVars>>

\* EnterBbNs, second half: close the previous handle and keep the new one.
SwitchBbNs ==
    /\ client = "enter"
    /\ handle' = [h \in Handles |-> IF h = curBackBoneNs THEN Closed ELSE handle[h]]
    /\ curBackBoneNs' = bbns[Main]
    /\ curBbnsIndex' = curBbnsIndex + 1
    /\ client' = "entered"
    /\ UNCHANGED <<list, pos, wg, hasError, worker, task, completed, backBoneNum,
                   nodeNum, curLinkNum, curBackBoneNum, history,
                   ns, where, vxlan, step, bbns, held>>

\* The namespace for the next link has been entered.
Placed == \/ client = "entered"
          \/ client = "loop" /\ MoreLinks /\ ~Boundary

Assign(s) == assigned' = [assigned EXCEPT ![s] = handle[curBackBoneNs]]

\* Parallel > 0: AddTask with the current handle as an argument.
SubmitLink ==
    /\ Parallel /\ Placed
    /\ client' = "send"
    /\ Pool!AddTask
    /\ Assign(<<list, pos + 1>>)
    /\ UNCHANGED <<backBoneNum, nodeNum, curLinkNum, curBbnsIndex, curBackBoneNum,
                   curBackBoneNs, dropped, linkVars>>

\* Parallel = 0: SetupLink is called.
CallSetupLink ==
    /\ ~Parallel /\ Placed
    /\ client' = "call"
    /\ Assign(<<list, pos + 1>>)
    /\ step' = [step EXCEPT ![Main] = "read"]
    /\ UNCHANGED <<list, pos, wg, hasError, worker, task, completed, backBoneNum,
                   nodeNum, curLinkNum, curBbnsIndex, curBackBoneNum,
                   curBackBoneNs, dropped, handle, ns, where, vxlan, bbns, held>>

\* Faulty variant: a parallel set-up that does not wait for its tasks.
EndOfListNoWait ==
    /\ client = "loop" /\ list <= Len(EdgeOrder) /\ ~MoreLinks
    /\ list' = list + 1 /\ pos' = 0 /\ curBbnsIndex' = 0
    /\ UNCHANGED <<client, wg, hasError, worker, task, completed, backBoneNum,
                   nodeNum, curLinkNum, curBackBoneNum, curBackBoneNs,
                   history, linkVars>>

\* The end of a list: curBbnsIndex starts again at 0 with the next one.
EndOfList ==
    /\ client = "loop" /\ list <= Len(EdgeOrder) /\ ~MoreLinks
    /\ IF Parallel
       THEN /\ client' = IF pos > 0 THEN "wait" ELSE "loop"
            /\ Pool!EndOfList
            /\ curBbnsIndex' = IF pos > 0 THEN curBbnsIndex ELSE 0
       ELSE /\ list' = list + 1 /\ pos' = 0 /\ curBbnsIndex' = 0
            /\ UNCHANGED <<client, wg, hasError, worker, task, completed>>
    /\ UNCHANGED <<backBoneNum, nodeNum, curLinkNum, curBackBoneNum, curBackBoneNs,
                   history, linkVars>>

WaitReturns ==
    /\ client' = IF hasError THEN "drain" ELSE "loop"
    /\ Pool!WaitReturns
    /\ curBbnsIndex' = 0
    /\ UNCHANGED <<backBoneNum, nodeNum, curLinkNum, curBackBoneNum, curBackBoneNs,
                   history, linkVars>>

\* Faulty variant: the main thread stays in the last backbone namespace.
ReturnInBbNs ==
    /\ client = "loop" /\ list > Len(EdgeOrder)
    /\ client' = "returned"
    /\ UNCHANGED <<list, pos, wg, hasError, worker, task, completed, loopVars, linkVars>>

\* All links are set up: back to the host namespace, return nil.
Return ==
    /\ client = "loop" /\ list > Len(EdgeOrder)
    /\ client' = "returned"
    /\ ns' = [ns EXCEPT ![Main] = Host]
    /\ UNCHANGED <<list, pos, wg, hasError, worker, task, completed, loopVars,
                   handle, where, vxlan, step, bbns, held>>

-----------------------------------------------------------------------------
(* SetupLink, on any thread t. *)

SlotOf(t) == IF t = Main THEN <<list, pos + 1>> ELSE task[t]

Goto(t, place) == step' = [step EXCEPT ![t] = place]

\* What SetupLink leaves alone.
InLink == UNCHANGED <<poolVars, loopVars>>

\* Faulty variant: the closure calls SetupLink without entering the namespace.
EnterTaskStays(t) ==
    /\ step[t] = "enter"
    /\ Goto(t, "read")
    /\ UNCHANGED <<handle, ns, where, vxlan, bbns, held>> /\ InLink

\* The closure given to AddTask first enters the namespace of its handle.
EnterTask(t) ==
    /\ step[t] = "enter"
    /\ IF handle[bbns[t]] = Closed
       THEN Goto(t, "failed") /\ UNCHANGED ns
       ELSE Goto(t, "read") /\ ns' = [ns EXCEPT ![t] = handle[bbns[t]]]
    /\ UNCHANGED <<handle, where, vxlan, bbns, held>> /\ InLink

\* backboneNs = lm.curBackBoneNs
ReadBackBoneNs(t) ==
    /\ step[t] = "read"
    /\ bbns' = [bbns EXCEPT ![t] = curBackBoneNs]
    /\ Goto(t, "open")
    /\ UNCHANGED <<handle, ns, where, vxlan, held>> /\ InLink

\* GetNodeNetNs: of both ends of an internal link, of the near end of an
\* external one.
OpenNodeNs(t) ==
    LET e == Edge(SlotOf(t))
        n == e[Len(held[t]) + 1]
    IN  /\ step[t] = "open"
        /\ IF (\E k \in 1..nodeNum : NodeOrder[k] = n) /\ HandleFree
           THEN /\ handle' = [handle EXCEPT ![LowestFree] = NodeNs(n)]
                /\ held' = [held EXCEPT ![t] = Append(@, LowestFree)]
                /\ Goto(t, IF e[3] # -1 THEN "vxlan"
                           ELSE IF Len(held[t]) = 0 THEN "open" ELSE "create")
           ELSE Goto(t, "failed") /\ UNCHANGED <<handle, held>>
        /\ UNCHANGED <<ns, where, vxlan, bbns>> /\ InLink

\* SetupInternalLink: the bridge and both veth pairs, in the current namespace.
CreateLink(t) ==
    /\ step[t] = "create"
    /\ \/ /\ where' = [where EXCEPT ![SlotOf(t)] = ns[t]]
          /\ Goto(t, "back")
       \/ /\ SlotOf(t) \in MayFail
          /\ Goto(t, "failed")
          /\ UNCHANGED where
    /\ UNCHANGED <<handle, ns, vxlan, bbns, held>> /\ InLink

\* Faulty variant: a device that exists already is not looked for.
CreateVxlanNoSkip(t) ==
    /\ step[t] = "vxlan"
    /\ \A u \in Slots : SameVni(u, SlotOf(t)) => vxlan[u] = Nowhere
    /\ ns' = [ns EXCEPT ![t] = Host]
    /\ vxlan' = [vxlan EXCEPT ![SlotOf(t)] = Host]
    /\ Goto(t, "move")
    /\ UNCHANGED <<handle, where, bbns, held>> /\ InLink

\* SetupExternalLink: the VXLAN device, in the host namespace. LinkAdd fails
\* while a device with this VNI exists that was created there, also when it
\* has moved since; it is tried until it succeeds or a device of this name is
\* found in the host namespace. A try that changes nothing is a stutter.
CreateVxlan(t) ==
    LET s == SlotOf(t)
    IN  /\ step[t] = "vxlan"
        /\ \/ \A u \in Slots : SameVni(u, s) => vxlan[u] = Nowhere
           \/ \E u \in Slots : SameName(u, s) /\ vxlan[u] = Host
        /\ ns' = [ns EXCEPT ![t] = Host]
        /\ vxlan' = [vxlan EXCEPT ![s] = Host]
        /\ Goto(t, "move")
        /\ UNCHANGED <<handle, where, bbns, held>> /\ InLink

\* LinkSetNsFd: the device moves to the namespace of the handle.
MoveVxlan(t) ==
    /\ step[t] = "move"
    /\ IF handle[bbns[t]] = Closed
       THEN Goto(t, "failed") /\ UNCHANGED vxlan
       ELSE /\ vxlan' = [vxlan EXCEPT ![SlotOf(t)] = handle[bbns[t]]]
            /\ Goto(t, "attach")
    /\ UNCHANGED <<handle, ns, where, bbns, held>> /\ InLink

\* Faulty variant: the bridge is added without leaving the host namespace.
AttachVxlanInHost(t) ==
    /\ step[t] = "attach"
    /\ where' = [where EXCEPT ![SlotOf(t)] = ns[t]]
    /\ Goto(t, "back")
    /\ UNCHANGED <<handle, ns, vxlan, bbns, held>> /\ InLink

\* netns.Set(backboneNs), the bridge and the veth pair there, and the VXLAN
\* device found by its name and attached.
AttachVxlan(t) ==
    LET n == handle[bbns[t]]
    IN  /\ step[t] = "attach"
        /\ \/ /\ n # Closed
              /\ ns' = [ns EXCEPT ![t] = n]
              /\ where' = [where EXCEPT ![SlotOf(t)] = n]
              /\ Goto(t, IF n = vxlan[SlotOf(t)] THEN "back" ELSE "failed")
           \/ /\ n = Closed \/ SlotOf(t) \in MayFail
              /\ Goto(t, "failed")
              /\ UNCHANGED <<ns, where>>
        /\ UNCHANGED <<handle, vxlan, bbns, held>> /\ InLink

\* Faulty variant: the thread stays in the namespace of the last node.
SetNetNsBackForgets(t) ==
    /\ step[t] = "back"
    /\ ns' = [ns EXCEPT ![t] = handle[held[t][Len(held[t])]]]
    /\ Goto(t, "ok")
    /\ UNCHANGED <<handle, where, vxlan, bbns, held>> /\ InLink

\* Set the inner ends up in their nodes (through the thread's own handles),
\* then netns.Set(backboneNs).
SetNetNsBack(t) ==
    /\ step[t] = "back"
    /\ \/ /\ handle[bbns[t]] # Closed
          /\ ns' = [ns EXCEPT ![t] = handle[bbns[t]]]
          /\ Goto(t, "ok")
       \/ /\ handle[bbns[t]] = Closed \/ SlotOf(t) \in MayFail
          /\ \E k \in 1..Len(held[t]) : ns' = [ns EXCEPT ![t] = handle[held[t][k]]]
          /\ Goto(t, "failed")
    /\ UNCHANGED <<handle, where, vxlan, bbns, held>> /\ InLink

\* The deferred Close of the node handles.
CloseHeld(t) ==
    /\ handle' = [h \in Handles |->
                     IF \E k \in 1..Len(held[t]) : held[t][k] = h
                     THEN Closed ELSE handle[h]]
    /\ held' = [held EXCEPT ![t] = <<>>]

\* Faulty variant: the sequential loop ignores the error and goes on.
ReturnToLoopIgnoresError ==
    /\ step[Main] \in {"ok", "failed"}
    /\ CloseHeld(Main)
    /\ Goto(Main, "none")
    /\ client' = "loop" /\ pos' = pos + 1 /\ curLinkNum' = curLinkNum + 1
    /\ completed' = completed \cup {SlotOf(Main)}
    /\ UNCHANGED <<list, wg, hasError, worker, task, backBoneNum, nodeNum,
                   curBbnsIndex, curBackBoneNum, curBackBoneNs, history,
                   ns, where, vxlan, bbns>>

\* SetupLink returns to the sequential loop.
ReturnToLoop ==
    /\ step[Main] \in {"ok", "failed"}
    /\ CloseHeld(Main)
    /\ Goto(Main, "none")
    /\ IF step[Main] = "ok"
       THEN /\ client' = "loop" /\ pos' = pos + 1 /\ curLinkNum' = curLinkNum + 1
            /\ completed' = completed \cup {SlotOf(Main)}
       ELSE client' = "failed" /\ UNCHANGED <<pos, curLinkNum, completed>>
    /\ UNCHANGED <<list, wg, hasError, worker, task, backBoneNum, nodeNum,
                   curBbnsIndex, curBackBoneNum, curBackBoneNs, history,
                   ns, where, vxlan, bbns>>

-----------------------------------------------------------------------------
(* The workers of the pool, whose task is SetupLink. *)

StartWorker(w) == UNCHANGED client /\ Pool!Start(w) /\ UNCHANGED <<loopVars, linkVars>>

\* A worker takes the closure, with the handle it was given.
ReceiveTask(w) ==
    /\ client = "send"
    /\ client' = "loop"
    /\ Pool!Receive(w)
    /\ bbns' = [bbns EXCEPT ![w] = curBackBoneNs]
    /\ Goto(w, "enter")
    /\ curLinkNum' = curLinkNum + 1
    /\ UNCHANGED <<backBoneNum, nodeNum, curBbnsIndex, curBackBoneNum,
                   curBackBoneNs, history, handle, ns, where, vxlan, held>>

\* SetupLink returns to the closure, with nil or with an error.
ReturnToPool(w) ==
    /\ step[w] \in {"ok", "failed"}
    /\ CloseHeld(w)
    /\ Goto(w, "none")
    /\ UNCHANGED client
    /\ IF step[w] = "ok" THEN Pool!ClosureReturns(w) ELSE Pool!TaskFails(w)
    /\ UNCHANGED <<loopVars, ns, where, vxlan, bbns>>

\* Faulty variant: the worker keeps the namespace its task left it in.
FinishTaskNoRevert(w) ==
    /\ UNCHANGED client
    /\ Pool!Done(w)
    /\ UNCHANGED <<loopVars, linkVars>>

\* Faulty variant: wg.Done() is missing.
FinishTaskNotDone(w) ==
    /\ worker[w] = "ended"
    /\ task' = [task EXCEPT ![w] = Pool!NoTask]
    /\ worker' = [worker EXCEPT ![w] = "idle"]
    /\ ns' = [ns EXCEPT ![w] = Host]
    /\ UNCHANGED <<client, list, pos, wg, hasError, completed, loopVars,
                   handle, where, vxlan, step, bbns, held>>

\* The worker goes back to its own namespace; wg.Done().
FinishTask(w) ==
    /\ UNCHANGED client
    /\ Pool!Done(w)
    /\ ns' = [ns EXCEPT ![w] = Host]
    /\ UNCHANGED <<loopVars, handle, where, vxlan, step, bbns, held>>

-----------------------------------------------------------------------------
Terminated == client \in {"returned", "failed"} /\ UNCHANGED vars

LoopStep == \/ SetupNode \/ SetupBbNs \/ EnterBbNs \/ SwitchBbNs \/ SubmitLink
            \/ CallSetupLink \/ EndOfList \/ WaitReturns \/ Return \/ ReturnToLoop

LinkStep(t) == \/ EnterTask(t) \/ ReadBackBoneNs(t) \/ OpenNodeNs(t)
               \/ CreateLink(t) \/ CreateVxlan(t) \/ MoveVxlan(t)
               \/ AttachVxlan(t) \/ SetNetNsBack(t)

WorkerStep(w) ==
    StartWorker(w) \/ ReceiveTask(w) \/ ReturnToPool(w) \/ FinishTask(w)

Next == \/ LoopStep
        \/ \E t \in Threads : LinkStep(t)
        \/ \E w \in Workers : WorkerStep(w)
        \/ Terminated

\* The scheduler runs every thread that is not blocked.
Fairness == /\ WF_vars(LoopStep) /\ WF_vars(LinkStep(Main))
            /\ \A w \in Workers : WF_vars(LinkStep(w)) /\ WF_vars(WorkerStep(w))

Spec == Init /\ [][Next]_vars /\ Fairness
-----------------------------------------------------------------------------
(* Properties. *)

\* What a handle can name and a thread can be in.
Namespaces == {"bbns", "node"} \X Int
LinkPlaces == {"none", "enter", "read", "open", "create", "vxlan", "move", "attach",
               "back", "ok", "failed"}

TypeOK ==
    /\ client \in Pool!ClientPlaces \cup {"nodes", "bbns", "enter", "entered", "call"}
    /\ list \in 1..(Len(EdgeOrder) + 1) /\ pos \in Nat /\ wg \in Nat
    /\ hasError \in BOOLEAN /\ completed \subseteq Slots
    /\ worker \in [Workers -> Pool!WorkerPlaces]
    /\ task \in [Workers -> Slots \cup {Pool!NoTask}]
    /\ backBoneNum \in BackBoneNums /\ curBackBoneNum \in 0..backBoneNum
    /\ nodeNum \in 0..Len(NodeOrder) /\ curLinkNum \in 0..EdgeNum
    /\ curBbnsIndex \in 0..backBoneNum /\ curBackBoneNs \in 0..MaxHandle
    /\ handle \in [Handles -> Namespaces \cup {Closed}]
    /\ ns \in [Threads -> Namespaces \cup {Host}]
    /\ where \in [Slots -> Namespaces \cup {Nowhere}]
    /\ vxlan \in [Slots -> Namespaces \cup {Host, Nowhere}]
    /\ assigned \in [Slots -> Namespaces \cup {Nowhere}] /\ dropped \subseteq Handles
    /\ step \in [Threads -> LinkPlaces]
    /\ bbns \in [Threads -> 0..MaxHandle]
    /\ held \in [Threads -> Seq(Handles)]

\* SetupLink is called only by a thread whose current namespace is a backbone
\* namespace (the comments at ntlBrManager.go:175, 186 and 326).
CalledInBbNs == \A t \in Threads : step[t] = "read" => IsBbNs(ns[t])

\* Several backbone namespaces and a pool: EnterBbNs closes and replaces
\* curBackBoneNs while tasks run (findings: CalledInBbNs does not hold).
SwitchesUnderTasks == Parallel /\ backBoneNum > 1

\* The devices of a link are in the backbone namespace that the loop had
\* entered when it came to the link: the handle read later, the handle passed
\* along and the current namespace of the thread all mean the same namespace.
LinksWhereAssigned ==
    \A s \in Slots : /\ where[s] \in {Nowhere, assigned[s]}
                     /\ s \in completed =>
                          /\ where[s] # Nowhere
                          /\ External(s) => vxlan[s] = where[s]

\* With one backbone namespace the pool keeps both promises, in every
\* interleaving of its workers (ntlBrManager.go:193,334; netManage.go:121).
PlacedUnlessSwitched == SwitchesUnderTasks \/ (CalledInBbNs /\ LinksWhereAssigned)

\* A node handle that a thread has opened stays its own until it closes it,
\* whatever the other threads open and close in between. The other handles
\* open are the one or two of the link manager and those dropped: one for each
\* namespace created (ntlBrManager.go:58, netManage.go:93) and one for an entry
\* that failed (ntlBrManager.go:75-86). The code does lose these, and never
\* closes its last backbone handle; no link loses any.
HandlesAccounted ==
    LET mine(t) == {held[t][k] : k \in 1..Len(held[t])}
        linkManagers == {curBackBoneNs} \cup (IF client = "enter" THEN {bbns[Main]} ELSE {})
    IN  /\ \A t \in Threads : \A k \in 1..Len(held[t]) :
              handle[held[t][k]] = NodeNs(Edge(SlotOf(t))[k])
        /\ \A t, u \in Threads : t # u => mine(t) \cap mine(u) = {}
        /\ {h \in Handles : handle[h] # Closed}
             = (linkManagers \ {0}) \cup dropped \cup UNION {mine(t) : t \in Threads}
        /\ Cardinality(dropped) <= curBackBoneNum + (IF client = "failed" THEN 1 ELSE 0)

\* The links are distributed evenly over the backbone namespaces (the README,
\* "Multi-netns splitting"): with one link less, a namespace carries less than
\* the EdgeNum / backBoneNum-th part (netManage.go:63, 108, rounding and all),
\* and the shares cover all links: no link calls for one namespace too many.
\* It holds when one list has all the links, as with the default node order;
\* with several lists curBbnsIndex starts again while curLinkNum goes on.
SharesRespected ==
    /\ \A k \in 0..(backBoneNum - 1) :
          (Cardinality({s \in Slots : assigned[s] = BbNs(k)}) - 1) * backBoneNum < EdgeNum
    /\ client = "loop" /\ MoreLinks /\ Boundary => curBbnsIndex < backBoneNum

\* Success means a clean end: main thread back in the host namespace, every
\* link built, no VXLAN device left behind in the host namespace.
CleanSuccess ==
    client = "returned" =>
        /\ ns[Main] = Host
        /\ completed = Slots
        /\ \A s \in Slots : vxlan[s] # Host
        /\ \A w \in Workers : task[w] = Pool!NoTask /\ ns[w] = Host

\* A link that NetworkSetup has been told is built, and the status it reports,
\* as VirtualNetwork describes them.
Built == INSTANCE VirtualNetwork WITH
             Links     <- Slots,
             Backbones <- UNION {{BbNs(k) : k \in 0..(b - 1)} : b \in BackBoneNums},
             place     <- where,
             status    <- CASE client = "returned" -> "ready"
                            [] client = "failed" -> "failed"
                            [] OTHER -> "building"

\* The set-up implements VirtualNetwork: every link is created once, in a
\* backbone namespace, and success is reported only when all are.
BuildsVirtualNetwork == Built!Safety

\* The parallel set-up uses the pool as ThreadPool describes it.
UsesPool == Pool!SafetySpec

\* The loop that tries to create a VXLAN device comes to an end: it gives up
\* when the device exists already (the comment at ntlBrManager.go:419).
VxlanCreationEnds ==
    \A t \in Threads : (step[t] = "vxlan") ~> (step[t] # "vxlan")

\* The set-up comes to an end: no channel, WaitGroup or retry loop holds a
\* thread that the others wait for (netManage.go:157, ntlBrManager.go:410).
SetupEnds == <>(client \in {"returned", "failed"} \/ SwitchesUnderTasks)
=============================================================================
