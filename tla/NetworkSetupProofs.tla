------------------------ MODULE NetworkSetupProofs ------------------------
(***************************************************************************)
(* Theorems about NetworkSetup, for every finite set of workers, every     *)
(* lists of nodes and edges, every choice of what fails and every limit on *)
(* the open handles.                                                       *)
(***************************************************************************)
EXTENDS NetworkSetup, FiniteSetTheorems, NaturalsInduction, WellFoundedInduction, TLAPS

-----------------------------------------------------------------------------
(* The constants: links, and the numbers the loop computes with. *)

\* A link's name is a list and a position in it; the links are finitely many.
LEMMA SlotsAre ==
    /\ Slots = {s \in (1..Len(EdgeOrder)) \X Nat : s[2] \in 1..Len(EdgeOrder[s[1]])}
    /\ IsFiniteSet(Slots) /\ EdgeNum \in Nat
    /\ Len(EdgeOrder) \in Nat
    /\ \A i \in 1..Len(EdgeOrder) : Len(EdgeOrder[i]) \in Nat
<1>1. Len(EdgeOrder) \in Nat /\ \A i \in 1..Len(EdgeOrder) : Len(EdgeOrder[i]) \in Nat
    BY SetupAssumption
<1>2. Slots = {s \in (1..Len(EdgeOrder)) \X Nat : s[2] \in 1..Len(EdgeOrder[s[1]])}
  <2>1. ASSUME NEW i \in 1..Len(EdgeOrder) PROVE 1..Len(EdgeOrder[i]) \subseteq Nat
      BY <1>1
  <2>. QED  BY <2>1 DEF Slots
<1>3. IsFiniteSet(Slots)
  <2> DEFINE F == [i \in 1..Len(EdgeOrder) |-> {i} \X (1..Len(EdgeOrder[i]))]
             Lists == {F[i] : i \in 1..Len(EdgeOrder)}
  <2>1. IsFiniteSet(1..Len(EdgeOrder))
      BY <1>1, FS_Interval
  <2>2. F \in Surjection(1..Len(EdgeOrder), Lists)
      BY DEF Surjection
  <2>3. IsFiniteSet(Lists)
      BY <2>1, <2>2, FS_Surjection
  <2>4. ASSUME NEW T \in Lists PROVE IsFiniteSet(T)
    <3>1. PICK i \in 1..Len(EdgeOrder) : T = {i} \X (1..Len(EdgeOrder[i]))
        OBVIOUS
    <3>2. IsFiniteSet({i})
        BY FS_Singleton
    <3>3. IsFiniteSet(1..Len(EdgeOrder[i]))
      <4>1. Len(EdgeOrder[i]) \in Int
          BY <1>1
      <4>. QED  BY <4>1, FS_Interval
    <3>. QED  BY <3>1, <3>2, <3>3, FS_Product
  <2>5. Slots = UNION Lists
      BY DEF Slots
  <2>. QED  BY <2>3, <2>4, <2>5, FS_UNION
<1>. QED  BY <1>1, <1>2, <1>3, FS_CardinalityType DEF EdgeNum

\* What an edge is made of.
LEMMA EdgeType == ASSUME NEW s \in Slots
                  PROVE  Edge(s)[1] \in Int /\ Edge(s)[2] \in Int /\ Edge(s)[3] \in Int
<1>1. s[1] \in 1..Len(EdgeOrder) /\ s[2] \in 1..Len(EdgeOrder[s[1]])
    BY SlotsAre
<1>2. EdgeOrder[s[1]] \in Seq(Int \X Int \X Int)
    BY <1>1, SetupAssumption
<1>3. EdgeOrder[s[1]][s[2]] \in Int \X Int \X Int
    BY <1>1, <1>2
<1>. QED  BY <1>3 DEF Edge

\* Every set of natural numbers that is not empty has a least element.
LEMMA LeastElement ==
    ASSUME NEW T, T \subseteq Nat, T # {}
    PROVE  \E x \in T : \A y \in T : x <= y
<1> DEFINE R == {ss \in Nat \X Nat : ss[1] < ss[2]}
<1>1. IsWellFoundedOn(R, Nat)
    BY NatLessThanWellFounded DEF OpToRel
<1>2. \A x, y \in Nat : x > y => <<y, x>> \in R
    OBVIOUS
<1>3. PICK x \in T : \A y \in T : ~(<<y, x>> \in R)
  <2> HIDE DEF R
  <2>. QED  BY <1>1, WFMin, Zenon
<1> HIDE DEF R
<1>4. ASSUME NEW y \in T PROVE x <= y
  <2>1. x \in Nat /\ y \in Nat
      OBVIOUS
  <2>2. ~(x > y)
      BY <2>1, <1>2, <1>3
  <2>. QED  BY <2>1, <2>2
<1>. QED  BY <1>4

\* An open that finds a free number takes one.
LEMMA LowestFreeIsFree ==
    HandleFree => LowestFree \in Handles /\ handle[LowestFree] = Closed
<1>. SUFFICES ASSUME HandleFree PROVE LowestFree \in Handles /\ handle[LowestFree] = Closed
    OBVIOUS
<1> DEFINE Free == {h \in Handles : handle[h] = Closed}
<1>1. MaxHandle \in Nat
    BY SetupAssumption
<1>2. Free \subseteq Nat /\ Free # {}
    BY <1>1 DEF HandleFree, Handles
<1>3. PICK h \in Free : \A g \in Free : h <= g
    BY <1>2, LeastElement
<1>4. \A g \in 1..(h - 1) : handle[g] # Closed
  <2>. SUFFICES ASSUME NEW g \in 1..(h - 1), handle[g] = Closed PROVE FALSE
      OBVIOUS
  <2>1. h \in 1..MaxHandle /\ g \in Handles /\ g < h
      BY <1>1, <1>2 DEF Handles
  <2>. QED  BY <1>1, <2>1, <1>3 DEF Handles
<1>. QED  BY <1>3, <1>4 DEF LowestFree

\* The numbers of a backbone namespace's share.
LEMMA ShareType ==
    ASSUME backBoneNum \in BackBoneNums, EdgeNum > 0
    PROVE  /\ LinkPerBackBoneNs \in Nat \ {0}
           /\ backBoneNum = 1 => LinkPerBackBoneNs = EdgeNum
<1>1. backBoneNum \in Nat \ {0} /\ EdgeNum \in Nat \ {0}
    BY SetupAssumption, SlotsAre
<1> DEFINE n == EdgeNum + backBoneNum - 1
<1>2. n \in Nat /\ n >= backBoneNum
    BY <1>1
<1>3. n \div backBoneNum \in Nat \ {0}
  <2> HIDE DEF n
  <2>. QED  BY <1>1, <1>2
<1>4. backBoneNum = 1 => n \div backBoneNum = EdgeNum
    BY <1>1
<1>. QED  BY <1>3, <1>4 DEF LinkPerBackBoneNs

-----------------------------------------------------------------------------
(* The inductive invariant. *)

\* The pool, with what is proved about it.
PoolProofs == INSTANCE ThreadPoolProofs WITH
                  NumLists <- Len(EdgeOrder),
                  ListLen  <- [i \in 1..Len(EdgeOrder) |-> Len(EdgeOrder[i])],
                  MayFail  <- Slots,
                  client   <- IF client \in {"nodes", "bbns", "enter", "entered", "failed"}
                              THEN "loop" ELSE client

\* A thread is inside SetupLink exactly while the client has called it, or
\* while its worker runs a closure; it holds node handles only there.
ThreadInv ==
    /\ step[Main] # "none" <=> client = "call"
    /\ \A w \in Workers : step[w] # "none" <=> worker[w] = "run"
    /\ client = "call" => ~Parallel
    /\ \A t \in Threads : step[t] = "none" => held[t] = <<>>

\* What handles a thread holds and where it is, by its place in SetupLink.
HeldOf(t) == step[t] # "none" =>
    /\ SlotOf(t) \in Slots
    /\ step[t] # "read" => bbns[t] # 0
    /\ step[t] \in {"enter", "read"} => held[t] = <<>>
    /\ step[t] \in {"read", "open", "create"} => ns[t] # Host
    /\ step[t] = "open" =>
           held[t] = <<>> \/ (Len(held[t]) = 1 /\ ~External(SlotOf(t)))
    /\ step[t] = "create" => ~External(SlotOf(t))
    /\ step[t] \in {"vxlan", "move", "attach"} => External(SlotOf(t))
HeldInv == \A t \in Threads : HeldOf(t)

\* HandlesAccounted in its parts.
Mine(t) == {held[t][k] : k \in 1..Len(held[t])}
LinkManagers ==
    {curBackBoneNs} \cup (IF client = "enter" THEN {bbns[Main]} ELSE {})
HeldNamed == \A t \in Threads : \A k \in 1..Len(held[t]) :
                 handle[held[t][k]] = NodeNs(Edge(SlotOf(t))[k])
HeldApart == \A t, u \in Threads : t # u => Mine(t) \cap Mine(u) = {}
NoneLeaks == \A h \in Handles :
    handle[h] # Closed <=> \/ h \in LinkManagers \cup dropped
                           \/ \E t \in Threads : h \in Mine(t)
Accounts == HeldNamed /\ HeldApart /\ NoneLeaks

\* The handles dropped name backbone namespaces, so they are none of a
\* thread's, and they are none of the link manager's; and how many there are.
DroppedApart == \A h \in dropped : IsBbNs(handle[h]) /\ h \notin LinkManagers
DroppedFew ==
    Cardinality(dropped) <= curBackBoneNum + (IF client = "failed" THEN 1 ELSE 0)
DroppedInv == DroppedApart /\ DroppedFew

\* The backbone namespaces of this run.
RunBackbones == {BbNs(k) : k \in 0..(backBoneNum - 1)}

\* The link manager's handles name backbone namespaces, and there is one as
\* soon as a link is handed out.
ManagerInv ==
    /\ curBackBoneNs # 0 => handle[curBackBoneNs] \in RunBackbones
    /\ client = "enter" => /\ bbns[Main] \in Handles \ {curBackBoneNs}
                           /\ handle[bbns[Main]] \in RunBackbones
                           /\ curBbnsIndex < curBackBoneNum
    /\ client \in {"entered", "send", "call"} \/ curLinkNum > 0 => curBackBoneNs # 0

\* The links that have been handed to a worker or are set up.
Handed == {s \in Slots : s[1] < list \/ (s[1] = list /\ s[2] <= pos)}

\* Where the loop is, and how many links it has counted.
LoopInv ==
    /\ list <= Len(EdgeOrder) => pos <= Len(EdgeOrder[list])
    /\ list > Len(EdgeOrder) => pos = 0
    /\ client \in {"enter", "entered", "send", "call"} => MoreLinks
    /\ client = "returned" => list > Len(EdgeOrder) /\ ns[Main] = Host
    /\ client \in {"nodes", "bbns"} => curLinkNum = 0
    /\ curLinkNum = Cardinality(Handed)

\* Parallel = 0: the links counted are the ones set up.
SeqInv == ~Parallel => completed = Handed /\ client \notin {"send", "wait", "drain"}

\* Parallel > 0: the pool is in a state that ThreadPool can reach.
ParInv == Parallel => PoolProofs!PoolInv

\* A link is built by the thread it was given to, once; when SetupLink is done
\* with it, its VXLAN device is where its bridge is.
Early == {"enter", "read", "open", "create", "vxlan", "move", "attach"}
Joined(s) == where[s] # Nowhere /\ (External(s) => vxlan[s] = where[s])
BuildOf(t) == /\ step[t] \in Early => where[SlotOf(t)] = Nowhere
              /\ step[t] \in {"back", "ok"} => Joined(SlotOf(t))
BuildInv ==
    /\ \A t \in Threads : BuildOf(t)
    /\ \A s \in Slots : where[s] # Nowhere =>
           s \in Handed \/ (client \in {"call", "failed"} /\ s = <<list, pos + 1>>)
    /\ \A s \in completed : Joined(s)
    /\ \A s \in Slots : ~External(s) => vxlan[s] = Nowhere

\* A worker without a closure is in its own namespace.
HomeInv == \A w \in Workers : task[w] = Pool!NoTask => ns[w] = Host

\* Unless namespaces are switched under running tasks, every thread in
\* SetupLink works with the one handle that its link was assigned.
PlaceOf(t) == step[t] # "none" =>
    LET cur == handle[curBackBoneNs]
    IN  /\ curBackBoneNs # 0
        /\ assigned[SlotOf(t)] = cur
        /\ step[t] # "read" => bbns[t] = curBackBoneNs
        /\ step[t] \in {"read", "open", "create", "ok"} => ns[t] = cur
        /\ step[t] = "attach" => vxlan[SlotOf(t)] = cur
PlaceInv ==
    /\ \A t \in Threads : PlaceOf(t)
    /\ client = "send" => assigned[<<list, pos + 1>>] = handle[curBackBoneNs]
    /\ client = "enter" => \A t \in Threads : step[t] = "none"
    /\ ~Parallel =>
           /\ client = "enter" => ns[Main] = handle[bbns[Main]]
           /\ client = "entered" \/ (client = "loop" /\ curLinkNum > 0) =>
                  ns[Main] = handle[curBackBoneNs]
    /\ \A s \in Slots : where[s] \in {Nowhere, assigned[s]}

\* Everything that the theorems need to know of a reachable state.
OwnInv == /\ TypeOK /\ Accounts /\ ThreadInv /\ HeldInv /\ ManagerInv
          /\ LoopInv /\ SeqInv /\ BuildInv /\ HomeInv
          /\ SwitchesUnderTasks \/ PlaceInv
SetupInv == OwnInv /\ DroppedInv /\ ParInv

-----------------------------------------------------------------------------
(* What the pool's invariant says here. *)

LEMMA PoolFacts ==
    ASSUME PoolProofs!PoolInv
    PROVE  /\ \A w \in Workers : task[w] = Pool!NoTask <=> worker[w] \in {"start", "idle"}
           /\ \A w \in Workers : task[w] # Pool!NoTask => task[w] \in Handed
           /\ \A v, w \in Workers : v # w /\ task[v] # Pool!NoTask => task[v] # task[w]
           /\ \A w \in Workers : worker[w] = "run" => task[w] \notin completed
           /\ completed \subseteq Handed
           /\ client = "returned" => completed = Slots /\ \A w \in Workers : task[w] = Pool!NoTask
           /\ client = "wait" => list <= Len(EdgeOrder) /\ pos = Len(EdgeOrder[list])
           /\ client # "drain" /\ ~hasError
<1>. USE DEF PoolProofs!PoolInv
<1>1. PoolProofs!Slots = Slots /\ PoolProofs!NoTask = Pool!NoTask
    BY DEF PoolProofs!Slots, PoolProofs!Promise!Slots, Slots, PoolProofs!NoTask, Pool!NoTask
<1>2. /\ \A w \in Workers : task[w] = Pool!NoTask <=> worker[w] \in {"start", "idle"}
      /\ \A w \in Workers : task[w] # Pool!NoTask =>
             task[w] \in Slots /\ task[w][1] = list /\ task[w][2] <= pos
      /\ \A v, w \in Workers : v # w /\ task[v] # Pool!NoTask => task[v] # task[w]
    BY <1>1 DEF PoolProofs!HeldInv
<1>3. \A w \in Workers : worker[w] = "run" => task[w] \notin completed
    BY DEF PoolProofs!ProgressInv
<1>4. completed \subseteq Handed
    BY <1>1 DEF PoolProofs!ProgressInv, PoolProofs!TypeOK, Handed
<1>5. client # "drain" /\ ~hasError
    BY DEF PoolProofs!ErrorNeverCollected
<1>6. client = "wait" => list <= Len(EdgeOrder) /\ pos = Len(EdgeOrder[list])
    BY SlotsAre DEF PoolProofs!ClientInv, PoolProofs!TypeOK
<1>7. ASSUME client = "returned"
      PROVE  completed = Slots /\ \A w \in Workers : task[w] = Pool!NoTask
  <2>1. list > Len(EdgeOrder)
      BY <1>7 DEF PoolProofs!ClientInv
  <2>2. \A s \in Slots : s[1] <= Len(EdgeOrder)
      BY SlotsAre
  <2>3. Slots \subseteq completed
      BY <2>1, <2>2, <1>1, SlotsAre
      DEF PoolProofs!Barrier, PoolProofs!Promise!ListsBefore, PoolProofs!TypeOK,
          PoolProofs!Promise!Slots, PoolProofs!Slots
  <2>4. completed \subseteq Slots
      BY <1>4 DEF Handed
  <2>5. \A w \in Workers : task[w] = Pool!NoTask
      BY <2>1, <2>2, <1>2, SlotsAre DEF PoolProofs!TypeOK
  <2>. QED  BY <2>3, <2>4, <2>5
<1>. QED  BY <1>1, <1>2, <1>3, <1>4, <1>5, <1>6, <1>7 DEF Handed

\* The pool's assumptions hold of the lists of edges.
LEMMA PoolAssumptions ==
    /\ PoolProofs!IsFiniteSet(Workers)
    /\ [i \in 1..Len(EdgeOrder) |-> Len(EdgeOrder[i])] \in [1..Len(EdgeOrder) -> Nat]
<1>1. PoolProofs!IsFiniteSet(Workers)
    BY SetupAssumption DEF IsFiniteSet, PoolProofs!IsFiniteSet
<1>. QED  BY <1>1, SlotsAre

\* A step that ThreadPool allows preserves its invariant.
LEMMA PoolPreserved ==
    PoolProofs!PoolInv /\ [Pool!Next]_(Pool!vars) => PoolProofs!PoolInv'
<1>1. [Pool!Next]_(Pool!vars) => [PoolProofs!Next]_(PoolProofs!vars)
  <2>. USE DEF Pool!NoTask, PoolProofs!NoTask
  <2>1. Pool!ClientStep <=> PoolProofs!ClientStep
      BY DEF Pool!ClientStep, PoolProofs!ClientStep, Pool!AddTask, PoolProofs!AddTask,
             Pool!EndOfList, PoolProofs!EndOfList, Pool!WaitReturns,
             PoolProofs!WaitReturns, Pool!Return, PoolProofs!Return
  <2>2. ASSUME NEW w \in Workers
        PROVE  Pool!WorkerStep(w) <=> PoolProofs!WorkerStep(w)
    <3>1. Pool!Start(w) <=> PoolProofs!Start(w)
        BY DEF Pool!Start, PoolProofs!Start
    <3>2. Pool!Receive(w) <=> PoolProofs!Receive(w)
        BY DEF Pool!Receive, PoolProofs!Receive
    <3>3. Pool!TaskFails(w) <=> PoolProofs!TaskFails(w)
        BY DEF Pool!TaskFails, PoolProofs!TaskFails
    <3>4. Pool!ClosureReturns(w) <=> PoolProofs!ClosureReturns(w)
        BY DEF Pool!ClosureReturns, PoolProofs!ClosureReturns
    <3>5. Pool!Done(w) <=> PoolProofs!Done(w)
        BY DEF Pool!Done, PoolProofs!Done
    <3>. QED  BY <3>1, <3>2, <3>3, <3>4, <3>5
              DEF Pool!WorkerStep, PoolProofs!WorkerStep
  <2>3. Pool!Terminated <=> PoolProofs!Terminated
      BY DEF Pool!Terminated, PoolProofs!Terminated, Pool!vars, PoolProofs!vars
  <2>. QED  BY <2>1, <2>2, <2>3
            DEF Pool!Next, PoolProofs!Next, Pool!vars, PoolProofs!vars
<1>. QED  BY <1>1, PoolProofs!NextPoolInv, PoolAssumptions, SlotsAre

-----------------------------------------------------------------------------
(* Consequences of the invariant. *)

\* Accounts and DroppedFew say what HandlesAccounted says.
LEMMA AccountsAre == TypeOK /\ Accounts /\ DroppedFew => HandlesAccounted
<1>. SUFFICES ASSUME TypeOK, Accounts, DroppedFew PROVE HandlesAccounted
    OBVIOUS
<1>1. \A t \in Threads : Mine(t) \subseteq Handles
    BY DEF TypeOK, Mine
<1>2. LinkManagers \ {0} \subseteq Handles /\ dropped \subseteq Handles
  <2>1. curBackBoneNs \in 0..MaxHandle /\ bbns[Main] \in 0..MaxHandle
      BY DEF TypeOK, Threads
  <2>. QED  BY <2>1, SetupAssumption DEF TypeOK, LinkManagers, Handles
<1>3. 0 \notin Handles
    BY SetupAssumption DEF Handles
<1>4. {h \in Handles : handle[h] # Closed}
          = (LinkManagers \ {0}) \cup dropped \cup UNION {Mine(t) : t \in Threads}
  <2> DEFINE theirs == UNION {Mine(t) : t \in Threads}
             owned == (LinkManagers \ {0}) \cup dropped \cup theirs
  <2>1. \A h : h \in theirs <=> \E t \in Threads : h \in Mine(t)
      OBVIOUS
  <2>2. theirs \subseteq Handles
      BY <1>1, <2>1
  <2> HIDE DEF theirs
  <2>3. owned \subseteq Handles
      BY <1>2, <2>2
  <2>4. \A h \in Handles : h \in owned <=> \/ h \in LinkManagers \cup dropped
                                           \/ \E t \in Threads : h \in Mine(t)
      BY <1>3, <2>1
  <2> HIDE DEF owned
  <2>5. {h \in Handles : handle[h] # Closed} = owned
      BY <2>3, <2>4 DEF Accounts, NoneLeaks
  <2>6. theirs = UNION {Mine(t) : t \in Threads}
      BY DEF theirs
  <2>7. owned = (LinkManagers \ {0}) \cup dropped \cup theirs
      BY DEF owned
  <2>. QED  BY <2>5, <2>6, <2>7
<1>. QED  BY <1>4 DEF Accounts, DroppedFew, HandlesAccounted, HeldNamed, HeldApart, Mine,
                      LinkManagers

\* Main is a thread, and no worker.
LEMMA ThreadsAre == Main \in Threads /\ Main \notin Workers /\ Workers \subseteq Threads
    BY SetupAssumption DEF Threads

\* Two threads in SetupLink work on different links, none of them set up.
LEMMA SlotsApart ==
    ASSUME SetupInv
    PROVE  /\ \A t, u \in Threads :
                  t # u /\ step[t] # "none" /\ step[u] # "none" => SlotOf(t) # SlotOf(u)
           /\ \A t \in Threads : step[t] # "none" => SlotOf(t) \notin completed
<1>. USE DEF SetupInv, OwnInv
<1>1. CASE Parallel
  <2>1. step[Main] = "none"
      BY <1>1 DEF ThreadInv
  <2>2. \A w \in Workers : step[w] # "none" => worker[w] = "run" /\ SlotOf(w) = task[w]
      BY ThreadsAre DEF ThreadInv, SlotOf
  <2>. QED  BY <1>1, <2>1, <2>2, PoolFacts DEF ParInv, Threads
<1>2. CASE ~Parallel
  <2>1. Threads = {Main}
      BY <1>2 DEF Threads, Parallel
  <2>2. <<list, pos + 1>> \notin Handed
      BY DEF Handed, TypeOK
  <2>. QED  BY <1>2, <2>1, <2>2 DEF SeqInv, SlotOf
<1>. QED  BY <1>1, <1>2

\* The next link is a link, and has not been handed out.
LEMMA NextSlot ==
    ASSUME TypeOK, MoreLinks
    PROVE  <<list, pos + 1>> \in Slots \ Handed /\ curLinkNum \in Nat
<1>1. list \in 1..Len(EdgeOrder) /\ pos \in Nat /\ pos + 1 \in 1..Len(EdgeOrder[list])
    BY SlotsAre DEF TypeOK, MoreLinks
<1>. QED  BY <1>1, SlotsAre DEF Handed, TypeOK

\* The links up to the next one are those handed out and the next one.
LEMMA HandNext ==
    ASSUME TypeOK, MoreLinks
    PROVE  {s \in Slots : s[1] < list \/ (s[1] = list /\ s[2] <= pos + 1)}
               = Handed \cup {<<list, pos + 1>>}
<1>1. <<list, pos + 1>> \in Slots /\ Handed \subseteq Slots
    BY NextSlot DEF Handed
<1>2. ASSUME NEW s \in Slots
      PROVE  (s[1] < list \/ (s[1] = list /\ s[2] <= pos + 1))
                 <=> (s \in Handed \/ s = <<list, pos + 1>>)
  <2>1. s[1] \in Int /\ s[2] \in Nat /\ s = <<s[1], s[2]>> /\ list \in Int /\ pos \in Nat
    <3>1. s \in (1..Len(EdgeOrder)) \X Nat /\ Len(EdgeOrder) \in Nat
        BY SlotsAre
    <3>. QED  BY <3>1 DEF TypeOK
  <2>2. s = <<list, pos + 1>> <=> s[1] = list /\ s[2] = pos + 1
      BY <2>1
  <2>. QED  BY <2>1, <2>2 DEF Handed
<1>. QED  BY <1>1, <1>2

\* In the middle of the lists the count of links is below their number.
LEMMA CountBelow ==
    ASSUME TypeOK, MoreLinks, curLinkNum = Cardinality(Handed)
    PROVE  curLinkNum < EdgeNum
<1>1. Handed \subseteq Slots /\ Handed # Slots
    BY NextSlot DEF Handed
<1>2. Cardinality(Handed) <= EdgeNum /\ Cardinality(Handed) # EdgeNum
    BY <1>1, SlotsAre, FS_Subset DEF EdgeNum
<1>. QED  BY <1>2, SlotsAre DEF TypeOK

-----------------------------------------------------------------------------
(* The invariant holds initially. *)

LEMMA InitSetupInv == Init => SetupInv
<1>. SUFFICES ASSUME Init PROVE SetupInv
    OBVIOUS
<1>. USE DEF Init
<1>1. TypeOK
  <2>1. backBoneNum \in Nat \ {0} /\ MaxHandle \in Nat \ {0} /\ Len(NodeOrder) \in Nat
      BY SetupAssumption
  <2>2. vxlan \in [Slots -> Namespaces \cup {Host, Nowhere}]
      OBVIOUS
  <2>3. /\ worker \in [Workers -> Pool!WorkerPlaces]
        /\ task \in [Workers -> Slots \cup {Pool!NoTask}]
      BY DEF Pool!WorkerPlaces
  <2>4. held \in [Threads -> Seq(Handles)] /\ step \in [Threads -> LinkPlaces]
      BY DEF LinkPlaces
  <2>5. /\ list \in 1..(Len(EdgeOrder) + 1) /\ pos \in Nat /\ wg \in Nat
        /\ backBoneNum \in BackBoneNums /\ curBackBoneNum \in 0..backBoneNum
        /\ nodeNum \in 0..Len(NodeOrder) /\ curLinkNum \in 0..EdgeNum
        /\ curBbnsIndex \in 0..backBoneNum /\ curBackBoneNs \in 0..MaxHandle
        /\ \A t \in Threads : 0 \in 0..MaxHandle
      BY <2>1, SlotsAre
  <2>6. /\ bbns \in [Threads -> 0..MaxHandle] /\ ns \in [Threads -> Namespaces \cup {Host}]
        /\ handle \in [Handles -> Namespaces \cup {Closed}]
        /\ where \in [Slots -> Namespaces \cup {Nowhere}]
        /\ assigned \in [Slots -> Namespaces \cup {Nowhere}]
      BY <2>5
  <2>. QED  BY <2>2, <2>3, <2>4, <2>5, <2>6 DEF TypeOK
<1>2. Accounts
    BY DEF Accounts, HeldNamed, HeldApart, NoneLeaks, Mine, LinkManagers, Handles
<1>11. DroppedInv
    BY FS_EmptySet DEF DroppedInv, DroppedApart, DroppedFew
<1>3. ThreadInv
    BY ThreadsAre DEF ThreadInv
<1>4. HeldInv /\ ManagerInv
    BY DEF HeldInv, HeldOf, ManagerInv
<1>5. Handed = {}
    BY SlotsAre DEF Handed
<1>6. LoopInv
    BY <1>5, SlotsAre, FS_EmptySet DEF LoopInv
<1>7. SeqInv /\ ParInv
  <2>1. PoolProofs!Init
      BY DEF PoolProofs!Init, PoolProofs!NoTask, Pool!NoTask
  <2>. QED  BY <1>5, <2>1, PoolProofs!InitPoolInv, PoolAssumptions, SlotsAre DEF SeqInv, ParInv
<1>8. BuildInv
  <2>1. \A s \in Slots : ~External(s) => vxlan[s] = Nowhere
      BY SetupAssumption
  <2>. QED  BY <2>1 DEF BuildInv, BuildOf, Early
<1>9. HomeInv
    BY ThreadsAre DEF HomeInv
<1>10. PlaceInv
    BY DEF PlaceInv, PlaceOf
<1>. QED  BY <1>1, <1>2, <1>3, <1>4, <1>6, <1>7, <1>8, <1>9, <1>10, <1>11
          DEF SetupInv, OwnInv

-----------------------------------------------------------------------------
(* Every step of a parallel set-up is a step of the pool, or none of it. *)

LEMMA PoolStep ==
    ASSUME SetupInv, Parallel, [Next]_vars
    PROVE  [Pool!Next]_(Pool!vars)
<1>. USE DEF SetupInv, OwnInv, Pool!vars, Pool!Next
<1>1. step[Main] = "none"
    BY DEF ThreadInv
<1>2. CASE LoopStep
  <2>. USE DEF LoopStep
  <2>1. CASE SetupNode \/ SetupBbNs \/ EnterBbNs \/ SwitchBbNs
      BY <2>1 DEF SetupNode, SetupBbNs, EnterBbNs, SwitchBbNs, history
  <2>2. CASE SubmitLink
      BY <2>2 DEF SubmitLink, Pool!ClientStep
  <2>3. CASE CallSetupLink \/ ReturnToLoop
      BY <2>3, <1>1 DEF CallSetupLink, ReturnToLoop, history
  <2>4. CASE EndOfList
      BY <2>4 DEF EndOfList, history, Pool!ClientStep
  <2>5. CASE WaitReturns
      BY <2>5 DEF WaitReturns, history, Pool!ClientStep
  <2>6. CASE Return
      BY <2>6 DEF Return, Pool!ClientStep, Pool!Return
  <2>. QED  BY <1>2, <2>1, <2>2, <2>3, <2>4, <2>5, <2>6
<1>3. ASSUME NEW t \in Threads, LinkStep(t) PROVE UNCHANGED poolVars
    BY <1>3 DEF LinkStep, EnterTask, ReadBackBoneNs, OpenNodeNs, CreateLink, CreateVxlan,
                MoveVxlan, AttachVxlan, SetNetNsBack, InLink
<1>4. ASSUME NEW w \in Workers, WorkerStep(w) PROVE Pool!WorkerStep(w)
  <2>1. CASE StartWorker(w)
      BY <2>1 DEF StartWorker, Pool!WorkerStep
  <2>2. CASE ReceiveTask(w)
      BY <2>2 DEF ReceiveTask, history, Pool!WorkerStep
  <2>3. CASE ReturnToPool(w)
      BY <2>3 DEF ReturnToPool, Pool!WorkerStep
  <2>4. CASE FinishTask(w)
      BY <2>4 DEF FinishTask, Pool!WorkerStep
  <2>. QED  BY <1>4, <2>1, <2>2, <2>3, <2>4 DEF WorkerStep
<1>5. CASE UNCHANGED vars
    BY <1>5 DEF vars, poolVars
<1>. QED  BY <1>2, <1>3, <1>4, <1>5 DEF Next, Terminated, poolVars

-----------------------------------------------------------------------------
(* What the steps of one thread leave alone. *)

\* Handles keep their owners when no handle is opened or closed.
LEMMA AccountsKept ==
    ASSUME Accounts, UNCHANGED <<handle, held, dropped>>, LinkManagers' = LinkManagers,
           \A t \in Threads : held[t] # <<>> => SlotOf(t)' = SlotOf(t)
    PROVE  Accounts'
<1>1. \A t \in Threads : Mine(t)' = Mine(t)
    BY DEF Mine
<1>2. HeldNamed'
  <2>. SUFFICES ASSUME NEW t \in Threads, NEW k \in 1..Len(held'[t])
                PROVE  handle'[held'[t][k]] = NodeNs(Edge(SlotOf(t)')[k])
      BY DEF HeldNamed, Edge
  <2>1. held[t] # <<>> /\ k \in 1..Len(held[t])
      OBVIOUS
  <2>. QED  BY <2>1 DEF Accounts, HeldNamed
<1>3. HeldApart' /\ NoneLeaks'
    BY <1>1 DEF Accounts, HeldApart, NoneLeaks
<1>. QED  BY <1>2, <1>3 DEF Accounts

\* A step of SetupLink on thread t: nothing of the other threads, of the other
\* links, of the pool and of the loop changes, and no handle is closed.
LEMMA LinkStepFrame ==
    ASSUME SetupInv, NEW t \in Threads, LinkStep(t)
    PROVE  /\ UNCHANGED <<poolVars, loopVars>>
           /\ step[t] # "none" /\ step' = [step EXCEPT ![t] = step'[t]] /\ step'[t] # "none"
           /\ \A u \in Threads : SlotOf(u)' = SlotOf(u)
           /\ \A u \in Threads \ {t} :
                  held'[u] = held[u] /\ bbns'[u] = bbns[u] /\ ns'[u] = ns[u]
           /\ \A s \in Slots \ {SlotOf(t)} : where'[s] = where[s] /\ vxlan'[s] = vxlan[s]
           /\ External(SlotOf(t)) \/ vxlan' = vxlan
           /\ \A h \in Handles : handle[h] # Closed => handle'[h] = handle[h]
<1>. USE DEF SetupInv, OwnInv, TypeOK, Goto, InLink
<1>1. UNCHANGED <<poolVars, loopVars>>
    BY DEF LinkStep, EnterTask, ReadBackBoneNs, OpenNodeNs, CreateLink, CreateVxlan,
           MoveVxlan, AttachVxlan, SetNetNsBack
<1>2. step[t] # "none" /\ step' = [step EXCEPT ![t] = step'[t]] /\ step'[t] # "none"
    BY DEF LinkStep, EnterTask, ReadBackBoneNs, OpenNodeNs, CreateLink, CreateVxlan,
           MoveVxlan, AttachVxlan, SetNetNsBack
<1>3. \A u \in Threads : SlotOf(u)' = SlotOf(u)
    BY <1>1 DEF SlotOf, poolVars
<1>4. \A u \in Threads \ {t} :
          held'[u] = held[u] /\ bbns'[u] = bbns[u] /\ ns'[u] = ns[u]
    BY DEF LinkStep, EnterTask, ReadBackBoneNs, OpenNodeNs, CreateLink, CreateVxlan,
           MoveVxlan, AttachVxlan, SetNetNsBack
<1>5. \A s \in Slots \ {SlotOf(t)} : where'[s] = where[s] /\ vxlan'[s] = vxlan[s]
    BY DEF LinkStep, EnterTask, ReadBackBoneNs, OpenNodeNs, CreateLink, CreateVxlan,
           MoveVxlan, AttachVxlan, SetNetNsBack
<1>6. External(SlotOf(t)) \/ vxlan' = vxlan
    BY DEF HeldInv, HeldOf, LinkStep, EnterTask, ReadBackBoneNs, OpenNodeNs, CreateLink,
           CreateVxlan, MoveVxlan, AttachVxlan, SetNetNsBack
<1>7. \A h \in Handles : handle[h] # Closed => handle'[h] = handle[h]
  <2>1. CASE OpenNodeNs(t)
      BY <2>1, LowestFreeIsFree DEF OpenNodeNs
  <2>2. CASE UNCHANGED handle
      BY <2>2
  <2>. QED  BY <2>1, <2>2 DEF LinkStep, EnterTask, ReadBackBoneNs, CreateLink, CreateVxlan,
                              MoveVxlan, AttachVxlan, SetNetNsBack
<1>. QED  BY <1>1, <1>2, <1>3, <1>4, <1>5, <1>6, <1>7

\* So only what concerns thread t itself remains to be shown of such a step.
LEMMA LinkStepKeeps ==
    ASSUME SetupInv, NEW t \in Threads, LinkStep(t),
           TypeOK', Accounts', HeldOf(t)', BuildOf(t)',
           ~SwitchesUnderTasks =>
               PlaceOf(t)' /\ where'[SlotOf(t)] \in {Nowhere, assigned[SlotOf(t)]}
    PROVE  OwnInv'
<1>. USE ThreadsAre
<1>0. /\ UNCHANGED <<poolVars, loopVars>>
      /\ step[t] # "none" /\ step' = [step EXCEPT ![t] = step'[t]] /\ step'[t] # "none"
      /\ \A u \in Threads : SlotOf(u)' = SlotOf(u)
      /\ \A u \in Threads \ {t} :
             held'[u] = held[u] /\ bbns'[u] = bbns[u] /\ ns'[u] = ns[u]
      /\ \A s \in Slots \ {SlotOf(t)} : where'[s] = where[s] /\ vxlan'[s] = vxlan[s]
      /\ External(SlotOf(t)) \/ vxlan' = vxlan
      /\ \A h \in Handles : handle[h] # Closed => handle'[h] = handle[h]
    BY LinkStepFrame
<1>. USE DEF SetupInv, OwnInv
<1>1. /\ UNCHANGED <<client, list, pos, worker, task, completed, backBoneNum, curLinkNum,
                      curBackBoneNs, assigned, dropped, curBbnsIndex, curBackBoneNum>>
      /\ \A u \in Threads : SlotOf(u)' = SlotOf(u)
    BY <1>0 DEF poolVars, loopVars, history
<1>2. /\ step[t] # "none" /\ step'[t] # "none"
      /\ \A u \in Threads \ {t} : /\ step'[u] = step[u] /\ held'[u] = held[u]
                                 /\ bbns'[u] = bbns[u] /\ ns'[u] = ns[u]
    BY <1>0 DEF TypeOK
<1>3. /\ \A s \in Slots \ {SlotOf(t)} : where'[s] = where[s] /\ vxlan'[s] = vxlan[s]
      /\ External(SlotOf(t)) \/ vxlan' = vxlan
    BY <1>0
<1>4. \A h \in Handles : handle[h] \in RunBackbones => handle'[h] = handle[h]
    BY <1>0 DEF RunBackbones, BbNs, Closed
<1>5. t = Main <=> client = "call"
    BY <1>1, <1>2 DEF ThreadInv, Threads, Parallel
<1>6. ThreadInv'
  <2>1. step'[Main] # "none" <=> client' = "call"
      BY <1>1, <1>2 DEF ThreadInv
  <2>2. \A w \in Workers : step'[w] # "none" <=> worker'[w] = "run"
      BY <1>1, <1>2 DEF ThreadInv
  <2>3. \A u \in Threads : step'[u] = "none" => held'[u] = <<>>
      BY <1>2 DEF ThreadInv
  <2>. QED  BY <1>1, <2>1, <2>2, <2>3 DEF ThreadInv
<1>7. HeldInv'
  <2>. SUFFICES ASSUME NEW u \in Threads, u # t PROVE HeldOf(u)'
      BY DEF HeldInv
  <2>. QED  BY <1>1, <1>2 DEF HeldInv, HeldOf, External, Edge
<1>8. ManagerInv'
  <2>1. bbns'[Main] = bbns[Main] \/ client # "enter"
      BY <1>2, <1>5
  <2>2. RunBackbones' = RunBackbones
      BY <1>1 DEF RunBackbones
  <2>3. curBackBoneNs # 0 => curBackBoneNs \in Handles
      BY SetupAssumption DEF Handles, TypeOK
  <2>. QED  BY <1>1, <1>4, <2>1, <2>2, <2>3 DEF ManagerInv
<1>9. LoopInv' /\ SeqInv'
    BY <1>1, <1>2, <1>5 DEF LoopInv, SeqInv, Handed, MoreLinks
<1>10. BuildInv'
  <2>1. SlotOf(t) \in Slots /\ SlotOf(t) \notin completed
      BY <1>2, SlotsApart DEF HeldInv, HeldOf
  <2>2. SlotOf(t) \in Handed \/ (client = "call" /\ SlotOf(t) = <<list, pos + 1>>)
      BY <1>2, PoolFacts DEF ThreadInv, ParInv, SlotOf, Threads, Parallel
  <2>3. ASSUME NEW u \in Threads, u # t PROVE BuildOf(u)'
    <3>1. CASE step[u] = "none"
        BY <1>2, <2>3, <3>1 DEF BuildOf, Early
    <3>2. CASE step[u] # "none"
      <4>1. SlotOf(u) \in Slots \ {SlotOf(t)}
          BY <1>2, <2>3, <3>2, SlotsApart DEF HeldInv, HeldOf
      <4>2. SlotOf(u)' = SlotOf(u) /\ step'[u] = step[u]
          BY <1>1, <1>2, <2>3
      <4>3. where'[SlotOf(u)] = where[SlotOf(u)] /\ vxlan'[SlotOf(u)] = vxlan[SlotOf(u)]
          BY <1>3, <4>1
      <4>4. BuildOf(u)
          BY DEF BuildInv
      <4>. QED  BY <4>2, <4>3, <4>4 DEF BuildOf, Joined, External, Edge
    <3>. QED  BY <3>1, <3>2
  <2>4. Handed' = Handed
      BY <1>1 DEF Handed
  <2>5. \A s \in Slots : where'[s] # Nowhere =>
            s \in Handed \/ (client \in {"call", "failed"} /\ s = <<list, pos + 1>>)
      BY <1>3, <2>2 DEF BuildInv
  <2>6. \A s \in completed : Joined(s)'
    <3>1. completed \subseteq Slots \ {SlotOf(t)}
        BY <2>1 DEF TypeOK
    <3>. QED  BY <1>3, <3>1 DEF BuildInv, Joined, External, Edge
  <2>7. \A s \in Slots : ~External(s) => vxlan'[s] = Nowhere
      BY <1>3 DEF BuildInv
  <2>. QED  BY <1>1, <2>3, <2>4, <2>5, <2>6, <2>7 DEF BuildInv, External, Edge
<1>11. HomeInv'
  <2>1. ASSUME NEW w \in Workers, task[w] = Pool!NoTask PROVE w # t
    <3>1. worker[w] \in {"start", "idle"}
        BY <2>1, PoolFacts DEF ParInv, Parallel
    <3>. QED  BY <1>2, <3>1 DEF ThreadInv
  <2>. QED  BY <1>1, <1>2, <2>1 DEF HomeInv
<1>12. ASSUME ~SwitchesUnderTasks PROVE PlaceInv'
  <2>1. PlaceInv /\ ~SwitchesUnderTasks'
      BY <1>1, <1>12 DEF SwitchesUnderTasks
  <2>2. curBackBoneNs # 0 => handle'[curBackBoneNs] = handle[curBackBoneNs]
    <3>1. curBackBoneNs # 0 => curBackBoneNs \in Handles
        BY SetupAssumption DEF TypeOK, Handles
    <3>2. curBackBoneNs # 0 => handle[curBackBoneNs] \in RunBackbones
        BY DEF ManagerInv
    <3>. QED  BY <1>4, <3>1, <3>2
  <2>3. ASSUME NEW u \in Threads, u # t PROVE PlaceOf(u)'
    <3>1. CASE step[u] = "none"
        BY <1>2, <2>3, <3>1 DEF PlaceOf
    <3>2. CASE step[u] # "none"
      <4>1. SlotOf(u) \in Slots \ {SlotOf(t)}
          BY <1>2, <2>3, <3>2, SlotsApart DEF HeldInv, HeldOf
      <4>2. /\ SlotOf(u)' = SlotOf(u) /\ step'[u] = step[u]
            /\ bbns'[u] = bbns[u] /\ ns'[u] = ns[u]
          BY <1>1, <1>2, <2>3
      <4>3. vxlan'[SlotOf(u)] = vxlan[SlotOf(u)]
          BY <1>3, <4>1
      <4>4. PlaceOf(u)
          BY <2>1 DEF PlaceInv
      <4>. QED  BY <1>1, <2>2, <4>2, <4>3, <4>4 DEF PlaceOf
    <3>. QED  BY <3>1, <3>2
  <2>4. client = "send" => curBackBoneNs # 0
      BY DEF ManagerInv
  <2>5. client # "enter"
      BY <1>2, <2>1 DEF PlaceInv
  <2>6. ~Parallel => client \notin {"entered", "loop"}
      BY <1>5 DEF Threads, Parallel
  <2>7. \A s \in Slots : where'[s] \in {Nowhere, assigned[s]}
      BY <1>3, <1>12, <2>1 DEF PlaceInv
  <2>. QED  BY <1>1, <1>12, <2>1, <2>2, <2>3, <2>4, <2>5, <2>6, <2>7 DEF PlaceInv
<1>. QED  BY <1>1, <1>6, <1>7, <1>8, <1>9, <1>10, <1>11, <1>12 DEF SwitchesUnderTasks

\* Types, when only SetupLink's variables change.
LEMMA LinkTypes ==
    ASSUME TypeOK, UNCHANGED <<poolVars, loopVars>>,
           handle' \in [Handles -> Namespaces \cup {Closed}],
           ns' \in [Threads -> Namespaces \cup {Host}],
           where' \in [Slots -> Namespaces \cup {Nowhere}],
           vxlan' \in [Slots -> Namespaces \cup {Host, Nowhere}],
           step' \in [Threads -> LinkPlaces],
           bbns' \in [Threads -> 0..MaxHandle],
           held' \in [Threads -> Seq(Handles)]
    PROVE  TypeOK'
    BY DEF TypeOK, poolVars, loopVars, history

\* Handle numbers, and what the thread knows of the handle it was given.
LEMMA GivenHandle ==
    ASSUME SetupInv, NEW t \in Threads, step[t] # "none"
    PROVE  /\ SlotOf(t) \in Slots
           /\ step[t] # "read" => bbns[t] \in Handles
           /\ step[t] # "read" => handle[bbns[t]] \in Namespaces \cup {Closed}
           /\ ~SwitchesUnderTasks =>
                  /\ curBackBoneNs \in Handles /\ handle[curBackBoneNs] \in Namespaces
                  /\ step[t] # "read" => bbns[t] = curBackBoneNs
<1>. USE DEF SetupInv, OwnInv
<1>1. \A h \in 0..MaxHandle : h # 0 => h \in Handles
    BY SetupAssumption DEF Handles
<1>2. SlotOf(t) \in Slots /\ (step[t] # "read" => bbns[t] # 0)
    BY DEF HeldInv, HeldOf
<1>3. bbns[t] \in 0..MaxHandle /\ curBackBoneNs \in 0..MaxHandle
    BY DEF TypeOK
<1>4. \A h \in Handles : handle[h] \in Namespaces \cup {Closed}
    BY DEF TypeOK
<1>5. \A x \in RunBackbones : x # Closed
    BY DEF RunBackbones, BbNs, Closed
<1>6. ~SwitchesUnderTasks =>
          /\ curBackBoneNs # 0 /\ handle[curBackBoneNs] \in RunBackbones
          /\ step[t] # "read" => bbns[t] = curBackBoneNs
    BY DEF PlaceInv, PlaceOf, ManagerInv
<1>. QED  BY <1>1, <1>2, <1>3, <1>4, <1>5, <1>6

\* The places Namespaces can name are none of the values that mean nothing.
LEMMA NamespacesAre == Closed \notin Namespaces /\ Host \notin Namespaces /\ Nowhere \notin Namespaces
    BY DEF Namespaces, Closed, Host, Nowhere

\* The handles a thread has opened are open, and name nodes.
LEMMA HeldAreOpen ==
    ASSUME SetupInv
    PROVE  \A t \in Threads : \A k \in 1..Len(held[t]) :
               /\ held[t][k] \in Handles /\ handle[held[t][k]] # Closed
               /\ handle[held[t][k]] \notin RunBackbones
<1>. SUFFICES ASSUME NEW t \in Threads, NEW k \in 1..Len(held[t])
              PROVE  /\ held[t][k] \in Handles /\ handle[held[t][k]] # Closed
                     /\ handle[held[t][k]] \notin RunBackbones
    OBVIOUS
<1>. USE DEF SetupInv, OwnInv
<1>1. held[t][k] \in Handles
    BY DEF TypeOK
<1>2. handle[held[t][k]] = NodeNs(Edge(SlotOf(t))[k])
    BY DEF Accounts, HeldNamed
<1>. QED  BY <1>1, <1>2 DEF NodeNs, Closed, RunBackbones, BbNs

-----------------------------------------------------------------------------
(* Each step of SetupLink preserves the invariant. *)

LEMMA EnterTaskInv ==
    ASSUME SetupInv, NEW t \in Threads, EnterTask(t) PROVE OwnInv'
<1>. USE DEF SetupInv, OwnInv, EnterTask, Goto
<1>1. LinkStep(t)
    BY DEF LinkStep
<1>2. step[t] = "enter" /\ SlotOf(t)' = SlotOf(t) /\ UNCHANGED <<poolVars, loopVars>>
    BY <1>1, LinkStepFrame
<1>3. /\ bbns[t] \in Handles /\ handle[bbns[t]] \in Namespaces \cup {Closed}
      /\ ~SwitchesUnderTasks => handle[bbns[t]] \in Namespaces /\ bbns[t] = curBackBoneNs
    BY <1>2, GivenHandle
<1>4. /\ \/ handle[bbns[t]] = Closed /\ step'[t] = "failed"
         \/ handle[bbns[t]] # Closed /\ step'[t] = "read" /\ ns'[t] = handle[bbns[t]]
      /\ step' \in [Threads -> LinkPlaces] /\ ns' \in [Threads -> Namespaces \cup {Host}]
    BY <1>3 DEF TypeOK, LinkPlaces
<1>5. TypeOK'
    BY <1>2, <1>4, LinkTypes DEF TypeOK
<1>6. Accounts'
    BY <1>1, <1>2, LinkStepFrame, AccountsKept DEF LinkManagers, loopVars, history, poolVars
<1>7. HeldOf(t)'
    BY <1>2, <1>3, <1>4, NamespacesAre DEF HeldInv, HeldOf
<1>8. BuildOf(t)'
    BY <1>2, <1>4 DEF BuildInv, BuildOf, Early
<1>9. ASSUME ~SwitchesUnderTasks
      PROVE  PlaceOf(t)' /\ where'[SlotOf(t)] \in {Nowhere, assigned[SlotOf(t)]}
  <2>1. PlaceOf(t) /\ where[SlotOf(t)] = Nowhere
      BY <1>2, <1>9 DEF PlaceInv, BuildInv, BuildOf, Early
  <2>. QED  BY <1>2, <1>3, <1>4, <1>9, <2>1, NamespacesAre DEF PlaceOf, loopVars, history
<1>. QED  BY <1>1, <1>5, <1>6, <1>7, <1>8, <1>9, LinkStepKeeps

LEMMA ReadBackBoneNsInv ==
    ASSUME SetupInv, NEW t \in Threads, ReadBackBoneNs(t) PROVE OwnInv'
<1>. USE DEF SetupInv, OwnInv, ReadBackBoneNs, Goto
<1>1. LinkStep(t)
    BY DEF LinkStep
<1>2. step[t] = "read" /\ SlotOf(t)' = SlotOf(t) /\ UNCHANGED <<poolVars, loopVars>>
    BY <1>1, LinkStepFrame
<1>3. step'[t] = "open" /\ bbns'[t] = curBackBoneNs
    BY DEF TypeOK
<1>4. TypeOK'
  <2>1. step' \in [Threads -> LinkPlaces] /\ bbns' \in [Threads -> 0..MaxHandle]
      BY DEF TypeOK, LinkPlaces
  <2>. QED  BY <1>2, <2>1, LinkTypes DEF TypeOK
<1>5. LinkManagers' = LinkManagers
  <2>1. t = Main => client = "call"
      BY <1>2 DEF ThreadInv
  <2>. QED  BY <1>2, <2>1 DEF LinkManagers, loopVars, history, poolVars, TypeOK
<1>6. Accounts'
    BY <1>1, <1>2, <1>5, LinkStepFrame, AccountsKept DEF loopVars, history
<1>7. curBackBoneNs # 0
  <2>1. CASE Parallel
    <3>1. t \in Workers /\ SlotOf(t) = task[t] /\ worker[t] = "run"
        BY <1>2, <2>1, ThreadsAre DEF ThreadInv, Threads, SlotOf
    <3>2. Handed # {}
        BY <2>1, <3>1, PoolFacts DEF ParInv
    <3>3. IsFiniteSet(Handed)
        BY SlotsAre, FS_Subset DEF Handed
    <3>. QED  BY <3>2, <3>3, SlotsAre, FS_EmptySet DEF LoopInv, ManagerInv, TypeOK
  <2>2. CASE ~Parallel
    <3>1. client = "call"
        BY <1>2, <2>2 DEF ThreadInv, Threads, Parallel
    <3>. QED  BY <3>1 DEF ManagerInv
  <2>. QED  BY <2>1, <2>2
<1>8. HeldOf(t)'
    BY <1>2, <1>3, <1>7 DEF HeldInv, HeldOf
<1>9. BuildOf(t)'
    BY <1>2, <1>3 DEF BuildInv, BuildOf, Early
<1>10. ASSUME ~SwitchesUnderTasks
       PROVE  PlaceOf(t)' /\ where'[SlotOf(t)] \in {Nowhere, assigned[SlotOf(t)]}
  <2>1. PlaceOf(t) /\ where[SlotOf(t)] = Nowhere
      BY <1>2, <1>10 DEF PlaceInv, BuildInv, BuildOf, Early
  <2>. QED  BY <1>2, <1>3, <2>1 DEF PlaceOf, loopVars, history
<1>. QED  BY <1>1, <1>4, <1>6, <1>8, <1>9, <1>10, LinkStepKeeps

LEMMA CreateLinkInv ==
    ASSUME SetupInv, NEW t \in Threads, CreateLink(t) PROVE OwnInv'
<1>. USE DEF SetupInv, OwnInv, CreateLink, Goto
<1>1. LinkStep(t)
    BY DEF LinkStep
<1>2. step[t] = "create" /\ SlotOf(t)' = SlotOf(t) /\ UNCHANGED <<poolVars, loopVars>>
    BY <1>1, LinkStepFrame
<1>3. SlotOf(t) \in Slots /\ ~External(SlotOf(t)) /\ ns[t] \in Namespaces /\ bbns[t] # 0
    BY <1>2 DEF HeldInv, HeldOf, TypeOK
<1>4. \/ step'[t] = "failed" /\ UNCHANGED where
      \/ step'[t] = "back" /\ where'[SlotOf(t)] = ns[t]
    BY <1>3 DEF TypeOK
<1>5. TypeOK'
  <2>1. step' \in [Threads -> LinkPlaces] /\ where' \in [Slots -> Namespaces \cup {Nowhere}]
      BY <1>3 DEF TypeOK, LinkPlaces
  <2>. QED  BY <1>2, <2>1, LinkTypes DEF TypeOK
<1>6. Accounts'
    BY <1>1, <1>2, LinkStepFrame, AccountsKept DEF LinkManagers, loopVars, history, poolVars
<1>7. HeldOf(t)'
    BY <1>2, <1>3, <1>4 DEF HeldOf
<1>8. BuildOf(t)'
    BY <1>2, <1>3, <1>4, NamespacesAre DEF BuildOf, Early, Joined, External, Edge
<1>9. ASSUME ~SwitchesUnderTasks
      PROVE  PlaceOf(t)' /\ where'[SlotOf(t)] \in {Nowhere, assigned[SlotOf(t)]}
  <2>1. PlaceOf(t) /\ where[SlotOf(t)] = Nowhere
      BY <1>2, <1>9 DEF PlaceInv, BuildInv, BuildOf, Early
  <2>. QED  BY <1>2, <1>4, <2>1 DEF PlaceOf, loopVars, history
<1>. QED  BY <1>1, <1>5, <1>6, <1>7, <1>8, <1>9, LinkStepKeeps

LEMMA CreateVxlanInv ==
    ASSUME SetupInv, NEW t \in Threads, CreateVxlan(t) PROVE OwnInv'
<1>. USE DEF SetupInv, OwnInv, CreateVxlan, Goto
<1>1. LinkStep(t)
    BY DEF LinkStep
<1>2. step[t] = "vxlan" /\ SlotOf(t)' = SlotOf(t) /\ UNCHANGED <<poolVars, loopVars>>
    BY <1>1, LinkStepFrame
<1>3. SlotOf(t) \in Slots /\ External(SlotOf(t)) /\ bbns[t] # 0
    BY <1>2 DEF HeldInv, HeldOf
<1>4. step'[t] = "move" /\ UNCHANGED <<where, bbns, held>>
    BY DEF TypeOK
<1>5. TypeOK'
  <2>1. /\ step' \in [Threads -> LinkPlaces] /\ ns' \in [Threads -> Namespaces \cup {Host}]
        /\ vxlan' \in [Slots -> Namespaces \cup {Host, Nowhere}]
      BY <1>3 DEF TypeOK, LinkPlaces
  <2>. QED  BY <1>2, <2>1, LinkTypes DEF TypeOK
<1>6. Accounts'
    BY <1>1, <1>2, LinkStepFrame, AccountsKept DEF LinkManagers, loopVars, history, poolVars
<1>7. HeldOf(t)'
    BY <1>2, <1>3, <1>4 DEF HeldOf, External, Edge
<1>8. BuildOf(t)'
    BY <1>2, <1>4 DEF BuildInv, BuildOf, Early
<1>9. ASSUME ~SwitchesUnderTasks
      PROVE  PlaceOf(t)' /\ where'[SlotOf(t)] \in {Nowhere, assigned[SlotOf(t)]}
  <2>1. PlaceOf(t) /\ where[SlotOf(t)] = Nowhere
      BY <1>2, <1>9 DEF PlaceInv, BuildInv, BuildOf, Early
  <2>. QED  BY <1>2, <1>4, <2>1 DEF PlaceOf, loopVars, history
<1>. QED  BY <1>1, <1>5, <1>6, <1>7, <1>8, <1>9, LinkStepKeeps

LEMMA MoveVxlanInv ==
    ASSUME SetupInv, NEW t \in Threads, MoveVxlan(t) PROVE OwnInv'
<1>. USE DEF SetupInv, OwnInv, MoveVxlan, Goto
<1>1. LinkStep(t)
    BY DEF LinkStep
<1>2. step[t] = "move" /\ SlotOf(t)' = SlotOf(t) /\ UNCHANGED <<poolVars, loopVars>>
    BY <1>1, LinkStepFrame
<1>3. /\ SlotOf(t) \in Slots /\ External(SlotOf(t)) /\ bbns[t] # 0
      /\ handle[bbns[t]] \in Namespaces \cup {Closed}
      /\ ~SwitchesUnderTasks => bbns[t] = curBackBoneNs
    BY <1>2, GivenHandle DEF HeldInv, HeldOf
<1>4. /\ \/ step'[t] = "failed" /\ UNCHANGED vxlan
         \/ step'[t] = "attach" /\ vxlan'[SlotOf(t)] = handle[bbns[t]]
      /\ UNCHANGED <<where, bbns, held>>
    BY <1>3 DEF TypeOK
<1>5. TypeOK'
  <2>1. /\ step' \in [Threads -> LinkPlaces]
        /\ vxlan' \in [Slots -> Namespaces \cup {Host, Nowhere}]
      BY <1>3 DEF TypeOK, LinkPlaces
  <2>. QED  BY <1>2, <2>1, LinkTypes DEF TypeOK
<1>6. Accounts'
    BY <1>1, <1>2, LinkStepFrame, AccountsKept DEF LinkManagers, loopVars, history, poolVars
<1>7. HeldOf(t)'
    BY <1>2, <1>3, <1>4 DEF HeldOf, External, Edge
<1>8. BuildOf(t)'
    BY <1>2, <1>4 DEF BuildInv, BuildOf, Early
<1>9. ASSUME ~SwitchesUnderTasks
      PROVE  PlaceOf(t)' /\ where'[SlotOf(t)] \in {Nowhere, assigned[SlotOf(t)]}
  <2>1. PlaceOf(t) /\ where[SlotOf(t)] = Nowhere
      BY <1>2, <1>9 DEF PlaceInv, BuildInv, BuildOf, Early
  <2>. QED  BY <1>2, <1>3, <1>4, <1>9, <2>1 DEF PlaceOf, loopVars, history
<1>. QED  BY <1>1, <1>5, <1>6, <1>7, <1>8, <1>9, LinkStepKeeps

LEMMA AttachVxlanInv ==
    ASSUME SetupInv, NEW t \in Threads, AttachVxlan(t) PROVE OwnInv'
<1>. USE DEF SetupInv, OwnInv, AttachVxlan, Goto
<1>1. LinkStep(t)
    BY DEF LinkStep
<1>2. step[t] = "attach" /\ SlotOf(t)' = SlotOf(t) /\ UNCHANGED <<poolVars, loopVars>>
    BY <1>1, LinkStepFrame
<1>3. /\ SlotOf(t) \in Slots /\ bbns[t] # 0 /\ handle[bbns[t]] \in Namespaces \cup {Closed}
      /\ ~SwitchesUnderTasks => bbns[t] = curBackBoneNs
    BY <1>2, GivenHandle DEF HeldInv, HeldOf
<1>4. /\ \/ step'[t] = "failed" /\ UNCHANGED <<ns, where>>
         \/ /\ handle[bbns[t]] # Closed
            /\ ns'[t] = handle[bbns[t]] /\ where'[SlotOf(t)] = handle[bbns[t]]
            /\ step'[t] = IF handle[bbns[t]] = vxlan[SlotOf(t)] THEN "back" ELSE "failed"
      /\ UNCHANGED <<vxlan, bbns, held>>
    BY <1>3 DEF TypeOK
<1>5. TypeOK'
  <2>1. /\ step' \in [Threads -> LinkPlaces] /\ ns' \in [Threads -> Namespaces \cup {Host}]
        /\ where' \in [Slots -> Namespaces \cup {Nowhere}]
      BY <1>3 DEF TypeOK, LinkPlaces
  <2>. QED  BY <1>2, <2>1, LinkTypes DEF TypeOK
<1>6. Accounts'
    BY <1>1, <1>2, LinkStepFrame, AccountsKept DEF LinkManagers, loopVars, history, poolVars
<1>7. HeldOf(t)'
    BY <1>2, <1>3, <1>4 DEF HeldOf
<1>8. BuildOf(t)'
    BY <1>2, <1>3, <1>4, NamespacesAre DEF BuildOf, Early, Joined
<1>9. ASSUME ~SwitchesUnderTasks
      PROVE  PlaceOf(t)' /\ where'[SlotOf(t)] \in {Nowhere, assigned[SlotOf(t)]}
  <2>1. PlaceOf(t) /\ where[SlotOf(t)] = Nowhere
      BY <1>2, <1>9 DEF PlaceInv, BuildInv, BuildOf, Early
  <2>. QED  BY <1>2, <1>3, <1>4, <1>9, <2>1 DEF PlaceOf, loopVars, history
<1>. QED  BY <1>1, <1>5, <1>6, <1>7, <1>8, <1>9, LinkStepKeeps

LEMMA SetNetNsBackInv ==
    ASSUME SetupInv, NEW t \in Threads, SetNetNsBack(t) PROVE OwnInv'
<1>. USE DEF SetupInv, OwnInv, SetNetNsBack, Goto
<1>1. LinkStep(t)
    BY DEF LinkStep
<1>2. step[t] = "back" /\ SlotOf(t)' = SlotOf(t) /\ UNCHANGED <<poolVars, loopVars>>
    BY <1>1, LinkStepFrame
<1>3. /\ SlotOf(t) \in Slots /\ bbns[t] # 0 /\ handle[bbns[t]] \in Namespaces \cup {Closed}
      /\ ~SwitchesUnderTasks => bbns[t] = curBackBoneNs
    BY <1>2, GivenHandle DEF HeldInv, HeldOf
<1>4. \A k \in 1..Len(held[t]) : handle[held[t][k]] \in Namespaces
  <2>1. \A h \in Handles : handle[h] # Closed => handle[h] \in Namespaces
      BY DEF TypeOK
  <2>. QED  BY <2>1, HeldAreOpen
<1>5. /\ \/ step'[t] = "failed" /\ ns'[t] \in Namespaces
         \/ step'[t] = "ok" /\ ns'[t] = handle[bbns[t]] /\ ns'[t] # Closed
      /\ UNCHANGED <<handle, where, vxlan, bbns, held>>
    BY <1>4 DEF TypeOK
<1>6. TypeOK'
  <2>1. step' \in [Threads -> LinkPlaces]
      BY DEF TypeOK, LinkPlaces
  <2>2. ns' \in [Threads -> Namespaces \cup {Host}]
      BY <1>3, <1>4 DEF TypeOK
  <2>. QED  BY <1>2, <2>1, <2>2, LinkTypes DEF TypeOK
<1>7. Accounts'
    BY <1>1, <1>2, LinkStepFrame, AccountsKept DEF LinkManagers, loopVars, history, poolVars
<1>8. HeldOf(t)'
    BY <1>2, <1>3, <1>5 DEF HeldOf
<1>9. BuildOf(t)'
    BY <1>2, <1>5 DEF BuildInv, BuildOf, Early, Joined, External, Edge
<1>10. ASSUME ~SwitchesUnderTasks
       PROVE  PlaceOf(t)' /\ where'[SlotOf(t)] \in {Nowhere, assigned[SlotOf(t)]}
  <2>1. PlaceOf(t) /\ where[SlotOf(t)] \in {Nowhere, assigned[SlotOf(t)]}
      BY <1>3, <1>10 DEF PlaceInv
  <2>. QED  BY <1>2, <1>3, <1>5, <1>10, <2>1 DEF PlaceOf, loopVars, history
<1>. QED  BY <1>1, <1>6, <1>7, <1>8, <1>9, <1>10, LinkStepKeeps

LEMMA OpenNodeNsInv ==
    ASSUME SetupInv, NEW t \in Threads, OpenNodeNs(t) PROVE OwnInv'
<1>. USE DEF SetupInv, OwnInv
<1> DEFINE n == Edge(SlotOf(t))[Len(held[t]) + 1]
<1>1. LinkStep(t)
    BY DEF LinkStep
<1>2. step[t] = "open" /\ SlotOf(t)' = SlotOf(t) /\ UNCHANGED <<poolVars, loopVars>>
    BY <1>1, LinkStepFrame DEF OpenNodeNs
<1>3. /\ SlotOf(t) \in Slots /\ bbns[t] # 0
      /\ held[t] = <<>> \/ (Len(held[t]) = 1 /\ ~External(SlotOf(t)))
      /\ ns[t] # Host
    BY <1>2 DEF HeldInv, HeldOf
<1>4. held[t] \in Seq(Handles) /\ Len(held[t]) \in {0, 1}
    BY <1>3 DEF TypeOK
<1>5. NodeNs(n) \in Namespaces /\ NodeNs(n) # Closed
  <2>1. Edge(SlotOf(t))[1] \in Int /\ Edge(SlotOf(t))[2] \in Int
      BY <1>3, EdgeType
  <2>2. n \in Int
    <3>1. CASE Len(held[t]) = 0
        BY <2>1, <3>1
    <3>2. CASE Len(held[t]) = 1
        BY <2>1, <3>2
    <3>. QED  BY <1>4, <3>1, <3>2
  <2> HIDE DEF n
  <2>. QED  BY <2>2 DEF NodeNs, Namespaces, Closed
<1>6. /\ UNCHANGED <<ns, where, vxlan, bbns>>
      /\ step' \in [Threads -> LinkPlaces]
      /\ \/ step'[t] = "failed" /\ UNCHANGED <<handle, held>>
         \/ /\ HandleFree
            /\ handle' = [handle EXCEPT ![LowestFree] = NodeNs(n)]
            /\ held' = [held EXCEPT ![t] = Append(held[t], LowestFree)]
            /\ \/ step'[t] = "vxlan" /\ External(SlotOf(t))
               \/ step'[t] = "open" /\ ~External(SlotOf(t)) /\ held[t] = <<>>
               \/ step'[t] = "create" /\ ~External(SlotOf(t))
  <2>1. step' = [step EXCEPT ![t] = step'[t]] /\ step'[t] \in LinkPlaces
      BY <1>2 DEF OpenNodeNs, Goto, TypeOK, LinkPlaces
  <2>2. step' \in [Threads -> LinkPlaces]
      BY <2>1 DEF TypeOK
  <2>3. CASE UNCHANGED <<handle, held>> /\ Goto(t, "failed")
      BY <2>2, <2>3 DEF OpenNodeNs, Goto, TypeOK
  <2>4. CASE ~(UNCHANGED <<handle, held>> /\ Goto(t, "failed"))
    <3>1. /\ HandleFree
          /\ handle' = [handle EXCEPT ![LowestFree] = NodeNs(n)]
          /\ held' = [held EXCEPT ![t] = Append(held[t], LowestFree)]
          /\ Goto(t, IF Edge(SlotOf(t))[3] # -1 THEN "vxlan"
                     ELSE IF Len(held[t]) = 0 THEN "open" ELSE "create")
        BY <2>4 DEF OpenNodeNs
    <3>2. Len(held[t]) = 0 => held[t] = <<>>
        BY <1>3
    <3>. QED  BY <2>2, <3>1, <3>2 DEF OpenNodeNs, Goto, TypeOK, External
  <2>. QED  BY <2>3, <2>4
<1>7. CASE step'[t] = "failed" /\ UNCHANGED <<handle, held>>
  <2>1. TypeOK'
      BY <1>2, <1>6, <1>7, LinkTypes DEF TypeOK
  <2>2. Accounts'
      BY <1>1, <1>2, <1>6, <1>7, LinkStepFrame, AccountsKept DEF LinkManagers, loopVars, history, poolVars
  <2>3. HeldOf(t)' /\ BuildOf(t)'
      BY <1>2, <1>3, <1>6, <1>7 DEF HeldOf, BuildOf, BuildInv, Early
  <2>4. ASSUME ~SwitchesUnderTasks
        PROVE  PlaceOf(t)' /\ where'[SlotOf(t)] \in {Nowhere, assigned[SlotOf(t)]}
    <3>1. PlaceOf(t) /\ where[SlotOf(t)] = Nowhere
        BY <1>2, <2>4 DEF PlaceInv, BuildInv, BuildOf, Early
    <3>. QED  BY <1>2, <1>6, <1>7, <3>1 DEF PlaceOf, loopVars, history
  <2>. QED  BY <1>1, <2>1, <2>2, <2>3, <2>4, LinkStepKeeps
<1>8. CASE ~(step'[t] = "failed" /\ UNCHANGED <<handle, held>>)
  <2>1. /\ LowestFree \in Handles /\ handle[LowestFree] = Closed
        /\ handle' = [handle EXCEPT ![LowestFree] = NodeNs(n)]
        /\ held' = [held EXCEPT ![t] = Append(held[t], LowestFree)]
        /\ \/ step'[t] = "vxlan" /\ External(SlotOf(t))
           \/ step'[t] = "open" /\ ~External(SlotOf(t)) /\ held[t] = <<>>
           \/ step'[t] = "create" /\ ~External(SlotOf(t))
      BY <1>6, <1>8, LowestFreeIsFree
  <2> DEFINE new == LowestFree
  <2> HIDE DEF new, n
  <2>2. /\ new \in Handles /\ handle[new] = Closed
        /\ handle' = [handle EXCEPT ![new] = NodeNs(n)]
        /\ held' = [held EXCEPT ![t] = Append(held[t], new)]
      BY <2>1 DEF new
  <2>3. TypeOK'
    <3>1. handle' \in [Handles -> Namespaces \cup {Closed}]
        BY <2>2, <1>5 DEF TypeOK
    <3>2. held' \in [Threads -> Seq(Handles)]
        BY <2>2, <1>4 DEF TypeOK
    <3>. QED  BY <1>2, <1>6, <3>1, <3>2, LinkTypes DEF TypeOK
  <2>4. /\ handle'[new] = NodeNs(n)
        /\ \A h \in Handles \ {new} : handle'[h] = handle[h]
      BY <2>2 DEF TypeOK
  <2>5. /\ Len(held'[t]) = Len(held[t]) + 1 /\ held'[t][Len(held[t]) + 1] = new
        /\ \A k \in 1..Len(held[t]) : held'[t][k] = held[t][k]
        /\ \A u \in Threads \ {t} : held'[u] = held[u]
      BY <1>4, <2>2 DEF TypeOK
  <2>6. \A u \in Threads : \A k \in 1..Len(held[u]) : held[u][k] \in Handles \ {new}
      BY <2>2, HeldAreOpen
  <2>7. \A u \in Threads : SlotOf(u)' = SlotOf(u)
      BY <1>1, LinkStepFrame
  <2>8. HeldNamed'
    <3>. SUFFICES ASSUME NEW u \in Threads, NEW k \in 1..Len(held'[u])
                  PROVE  handle'[held'[u][k]] = NodeNs(Edge(SlotOf(u))[k])
        BY <2>7 DEF HeldNamed, Edge
    <3>1. CASE u = t /\ k = Len(held[t]) + 1
        BY <2>4, <2>5, <3>1 DEF n
    <3>2. CASE ~(u = t /\ k = Len(held[t]) + 1)
      <4>1. k \in 1..Len(held[u]) /\ held'[u][k] = held[u][k]
          BY <1>4, <2>5, <3>2
      <4>. QED  BY <2>4, <2>6, <4>1 DEF Accounts, HeldNamed
    <3>. QED  BY <3>1, <3>2
  <2>9. Mine(t)' = Mine(t) \cup {new} /\ \A u \in Threads \ {t} : Mine(u)' = Mine(u)
    <3>1. 1..Len(held'[t]) = (1..Len(held[t])) \cup {Len(held[t]) + 1}
        BY <1>4, <2>5
    <3>. QED  BY <2>5, <3>1 DEF Mine
  <2>10. \A u \in Threads : new \notin Mine(u)
      BY <2>6 DEF Mine
  <2>11. HeldApart'
      BY <2>9, <2>10 DEF Accounts, HeldApart
  <2>12. LinkManagers' = LinkManagers
      BY <1>2, <1>6 DEF LinkManagers, loopVars, history, poolVars
  <2>13. NoneLeaks'
    <3>. SUFFICES ASSUME NEW h \in Handles
                  PROVE  handle'[h] # Closed <=>
                             h \in LinkManagers \cup dropped \/ \E u \in Threads : h \in Mine(u)'
        BY <1>2, <2>12 DEF NoneLeaks, loopVars, history
    <3>1. CASE h = new
        BY <1>5, <2>4, <2>9, <3>1
    <3>2. CASE h # new
        BY <2>4, <2>9, <3>2 DEF Accounts, NoneLeaks
    <3>. QED  BY <3>1, <3>2
  <2>14. Accounts'
      BY <2>8, <2>11, <2>13 DEF Accounts
  <2>15. HeldOf(t)'
    <3>1. SlotOf(t)' = SlotOf(t) /\ SlotOf(t) \in Slots /\ External(SlotOf(t))' = External(SlotOf(t))
        BY <1>2, <1>3 DEF External, Edge
    <3>2. bbns'[t] = bbns[t] /\ bbns[t] # 0 /\ ns'[t] = ns[t] /\ ns[t] # Host
        BY <1>2, <1>6 DEF HeldInv, HeldOf
    <3>3. step'[t] = "open" => Len(held'[t]) = 1
        BY <1>4, <2>1, <2>5
    <3>. QED  BY <2>1, <3>1, <3>2, <3>3 DEF HeldOf
  <2>16. BuildOf(t)'
      BY <1>2, <1>6, <2>1 DEF BuildInv, BuildOf, Early
  <2>17. ASSUME ~SwitchesUnderTasks
         PROVE  PlaceOf(t)' /\ where'[SlotOf(t)] \in {Nowhere, assigned[SlotOf(t)]}
    <3>1. PlaceOf(t) /\ where[SlotOf(t)] = Nowhere
        BY <1>2, <2>17 DEF PlaceInv, BuildInv, BuildOf, Early
    <3>2. curBackBoneNs \in Handles \ {new}
        BY <1>2, <2>2, <2>17, GivenHandle, NamespacesAre
    <3>. QED  BY <1>2, <1>6, <2>1, <2>4, <3>1, <3>2 DEF PlaceOf, loopVars, history
  <2>. QED  BY <1>1, <2>3, <2>14, <2>15, <2>16, <2>17, LinkStepKeeps
<1>. QED  BY <1>7, <1>8

-----------------------------------------------------------------------------
(* The steps of the loop. *)

\* While Main is outside SetupLink, its steps leave the workers' links alone.
LEMMA LoopStepKeeps ==
    ASSUME SetupInv, step[Main] = "none", client # "failed", client' # "call",
           UNCHANGED <<worker, task, step, held, where, vxlan, completed>>,
           \A w \in Workers : bbns'[w] = bbns[w] /\ ns'[w] = ns[w],
           Handed' = Handed
    PROVE  ThreadInv' /\ HeldInv' /\ BuildInv' /\ HomeInv'
<1>. USE ThreadsAre DEF SetupInv, OwnInv
<1>1. client # "call"
    BY DEF ThreadInv
<1>2. ThreadInv'
    BY <1>1 DEF ThreadInv
<1>3. \A t \in Threads : step[t] # "none" => t \in Workers /\ SlotOf(t)' = SlotOf(t)
    BY DEF Threads, SlotOf
<1>4. HeldInv'
  <2>. SUFFICES ASSUME NEW t \in Threads, step[t] # "none" PROVE HeldOf(t)'
      BY DEF HeldInv, HeldOf
  <2>. QED  BY <1>3 DEF HeldInv, HeldOf, External, Edge
<1>5. BuildInv'
  <2>1. ASSUME NEW t \in Threads PROVE BuildOf(t)'
    <3>1. CASE step[t] = "none"
        BY <3>1 DEF BuildOf, Early
    <3>2. CASE step[t] # "none"
        BY <1>3, <3>2 DEF BuildInv, BuildOf, Joined, External, Edge
    <3>. QED  BY <3>1, <3>2
  <2>2. \A s \in Slots : where[s] # Nowhere => s \in Handed
      BY <1>1 DEF BuildInv
  <2>. QED  BY <2>1, <2>2 DEF BuildInv, Joined, External, Edge
<1>6. HomeInv'
    BY DEF HomeInv
<1>. QED  BY <1>2, <1>4, <1>5, <1>6

\* ... and the namespaces these are in, when the current one stays.
LEMMA LoopStepPlaces ==
    ASSUME SetupInv, PlaceInv, step[Main] = "none",
           UNCHANGED <<task, step, vxlan, curBackBoneNs>>,
           curBackBoneNs # 0 => handle'[curBackBoneNs] = handle[curBackBoneNs],
           \A w \in Workers : bbns'[w] = bbns[w] /\ ns'[w] = ns[w],
           \A s \in Handed : assigned'[s] = assigned[s]
    PROVE  \A t \in Threads : PlaceOf(t)'
<1>. USE ThreadsAre DEF SetupInv, OwnInv
<1>. SUFFICES ASSUME NEW t \in Threads, step[t] # "none" PROVE PlaceOf(t)'
    BY DEF PlaceOf
<1>1. t \in Workers /\ SlotOf(t)' = SlotOf(t) /\ SlotOf(t) = task[t]
    BY DEF Threads, SlotOf
<1>2. SlotOf(t) \in Handed
    BY <1>1, PoolFacts DEF ThreadInv, ParInv, Parallel
<1>3. PlaceOf(t)
    BY DEF PlaceInv
<1>. QED  BY <1>1, <1>2, <1>3 DEF PlaceOf

\* The current backbone namespace is known once a link can be handed out.
LEMMA PlacedHasNs ==
    ASSUME SetupInv, Placed
    PROVE  /\ MoreLinks /\ curBackBoneNs \in Handles
           /\ handle[curBackBoneNs] \in Namespaces
           /\ ~Parallel => ns[Main] = handle[curBackBoneNs]
<1>. USE DEF SetupInv, OwnInv
<1>1. MoreLinks
    BY DEF Placed, LoopInv
<1>2. curLinkNum < EdgeNum /\ curLinkNum \in Nat
    BY <1>1, CountBelow, NextSlot DEF LoopInv
<1>3. client = "entered" \/ (client = "loop" /\ curLinkNum > 0)
  <2>1. EdgeNum > 0
      BY <1>2, SlotsAre
  <2>2. LinkPerBackBoneNs \in Nat \ {0}
      BY <2>1, ShareType DEF TypeOK
  <2>3. 0 % LinkPerBackBoneNs = 0
      BY <2>2
  <2>. QED  BY <1>2, <2>3 DEF Placed, Boundary
<1>4. curBackBoneNs \in Handles
    BY <1>3, SetupAssumption DEF ManagerInv, TypeOK, Handles
<1>5. handle[curBackBoneNs] \in Namespaces
  <2>1. handle[curBackBoneNs] # Closed
      BY <1>3 DEF ManagerInv, RunBackbones, BbNs, Closed
  <2>. QED  BY <1>4, <2>1 DEF TypeOK
<1>6. ~Parallel => ns[Main] = handle[curBackBoneNs]
    BY <1>3 DEF PlaceInv, SwitchesUnderTasks
<1>. QED  BY <1>1, <1>4, <1>5, <1>6

LEMMA SetupNodeInv == ASSUME SetupInv, SetupNode PROVE OwnInv'
<1>. USE DEF SetupInv, OwnInv, SetupNode, history, linkVars
<1>1. step[Main] = "none"
    BY DEF ThreadInv
<1>2. client' \in {"nodes", "bbns", "failed"} /\ nodeNum' \in 0..Len(NodeOrder)
    BY SetupAssumption DEF TypeOK
<1>3. TypeOK'
    BY <1>2 DEF TypeOK, Pool!ClientPlaces
<1>4. Accounts'
  <2>1. LinkManagers' = LinkManagers /\ \A t \in Threads : SlotOf(t)' = SlotOf(t)
      BY <1>2 DEF LinkManagers, SlotOf
  <2>. QED  BY <2>1, AccountsKept
<1>5. Handed' = Handed
    BY DEF Handed
<1>6. ThreadInv' /\ HeldInv' /\ BuildInv' /\ HomeInv'
    BY <1>1, <1>2, <1>5, LoopStepKeeps
<1>7. ManagerInv' /\ SeqInv'
    BY <1>2, <1>5 DEF ManagerInv, RunBackbones, SeqInv
<1>8. LoopInv'
    BY <1>2, <1>5 DEF LoopInv, MoreLinks
<1>9. ASSUME ~SwitchesUnderTasks PROVE PlaceInv'
    BY <1>1, <1>2, <1>9, LoopStepPlaces DEF PlaceInv
<1>. QED  BY <1>3, <1>4, <1>6, <1>7, <1>8, <1>9 DEF SwitchesUnderTasks

\* The lowest free number becomes a handle of a backbone namespace: of the
\* handles open, only that one is new, and it is nobody else's.
LEMMA OpenBbNs ==
    ASSUME SetupInv, HandleFree, NEW k \in 0..(backBoneNum - 1),
           handle' = [handle EXCEPT ![LowestFree] = BbNs(k)], held' = held,
           \A t \in Threads : held[t] # <<>> => SlotOf(t)' = SlotOf(t),
           LinkManagers' \cup dropped' = LinkManagers \cup dropped \cup {LowestFree}
    PROVE  /\ Accounts' /\ handle' \in [Handles -> Namespaces \cup {Closed}]
           /\ LowestFree \in Handles /\ handle'[LowestFree] = BbNs(k)
           /\ \A h \in Handles \ {LowestFree} : handle'[h] = handle[h]
           /\ curBackBoneNs # 0 => curBackBoneNs \in Handles \ {LowestFree}
           /\ dropped \subseteq Handles \ {LowestFree}
           /\ BbNs(k) \in RunBackbones \cap Namespaces
<1>. USE ThreadsAre DEF SetupInv, OwnInv
<1> DEFINE new == LowestFree
           bb == BbNs(k)
<1>1. new \in Handles /\ handle[new] = Closed /\ handle' = [handle EXCEPT ![new] = bb]
    BY LowestFreeIsFree
<1>2. bb \in RunBackbones /\ bb \in Namespaces /\ bb # Closed /\ IsBbNs(bb)
  <2>1. backBoneNum \in Int
      BY SetupAssumption DEF TypeOK
  <2>. QED  BY <2>1 DEF RunBackbones, BbNs, Namespaces, Closed, IsBbNs
<1>3. LinkManagers' \cup dropped' = LinkManagers \cup dropped \cup {new}
    OBVIOUS
<1> HIDE DEF new, bb
<1>4. handle'[new] = bb /\ \A h \in Handles \ {new} : handle'[h] = handle[h]
    BY <1>1 DEF TypeOK
<1>5. handle' \in [Handles -> Namespaces \cup {Closed}]
    BY <1>1, <1>2 DEF TypeOK
<1>6. \A t \in Threads : Mine(t)' = Mine(t) /\ Mine(t) \subseteq Handles \ {new}
    BY <1>1, HeldAreOpen DEF Mine
<1>7. HeldNamed'
  <2>. SUFFICES ASSUME NEW t \in Threads, NEW j \in 1..Len(held'[t])
                PROVE  handle'[held'[t][j]] = NodeNs(Edge(SlotOf(t)')[j])
      BY DEF HeldNamed, Edge
  <2>1. held[t] # <<>> /\ j \in 1..Len(held[t])
      BY DEF TypeOK
  <2>2. held[t][j] \in Handles \ {new}
      BY <1>6, <2>1 DEF Mine
  <2>. QED  BY <1>4, <2>1, <2>2 DEF Accounts, HeldNamed
<1>8. NoneLeaks'
  <2>. SUFFICES ASSUME NEW h \in Handles
                PROVE  handle'[h] # Closed <=> \/ h \in LinkManagers' \cup dropped'
                                               \/ \E u \in Threads : h \in Mine(u)
      BY <1>6 DEF NoneLeaks
  <2>1. CASE h = new
      BY <1>2, <1>3, <1>4, <2>1
  <2>2. CASE h # new
      BY <1>3, <1>4, <2>2 DEF Accounts, NoneLeaks
  <2>. QED  BY <2>1, <2>2
<1>9. Accounts'
    BY <1>6, <1>7, <1>8 DEF Accounts, HeldApart
<1>10. curBackBoneNs # 0 => curBackBoneNs \in Handles \ {new}
  <2>1. curBackBoneNs # 0 => curBackBoneNs \in Handles
      BY SetupAssumption DEF TypeOK, Handles
  <2>2. curBackBoneNs # 0 => handle[curBackBoneNs] # Closed
      BY DEF ManagerInv, RunBackbones, BbNs, Closed
  <2>. QED  BY <1>1, <2>1, <2>2
<1>11. dropped \subseteq Handles \ {new}
    BY <1>1 DEF TypeOK, DroppedInv, DroppedApart, IsBbNs, Closed
<1>. QED  BY <1>1, <1>2, <1>4, <1>5, <1>9, <1>10, <1>11 DEF new, bb

LEMMA SetupBbNsInv == ASSUME SetupInv, SetupBbNs PROVE OwnInv'
<1>. USE ThreadsAre DEF SetupInv, OwnInv
<1>1. /\ client = "bbns" /\ step[Main] = "none" /\ client' \in {"bbns", "loop", "failed"}
      /\ UNCHANGED <<list, pos, wg, hasError, worker, task, completed, backBoneNum, nodeNum,
                     curLinkNum, curBbnsIndex, curBackBoneNs, assigned,
                     where, vxlan, step, bbns, held>>
      /\ \A w \in Workers : ns'[w] = ns[w]
    BY DEF SetupBbNs, CreateBbNs, ThreadInv, TypeOK
<1>2. \/ UNCHANGED <<handle, dropped, ns, curBackBoneNum>>
      \/ /\ HandleFree /\ curBackBoneNum \in 0..(backBoneNum - 1)
         /\ handle' = [handle EXCEPT ![LowestFree] = BbNs(curBackBoneNum)]
         /\ dropped' = dropped \cup {LowestFree}
         /\ ns' = [ns EXCEPT ![Main] = BbNs(curBackBoneNum)]
         /\ curBackBoneNum' = curBackBoneNum + 1
  <2>1. curBackBoneNum \in 0..backBoneNum /\ backBoneNum \in Nat
      BY SetupAssumption DEF TypeOK
  <2>. QED  BY <2>1 DEF SetupBbNs, CreateBbNs
<1>3. LinkManagers' = LinkManagers /\ \A t \in Threads : SlotOf(t)' = SlotOf(t)
    BY <1>1 DEF LinkManagers, SlotOf
<1>4. /\ Accounts' /\ handle' \in [Handles -> Namespaces \cup {Closed}]
      /\ dropped' \subseteq Handles /\ ns' \in [Threads -> Namespaces \cup {Host}]
      /\ curBackBoneNum' \in 0..backBoneNum
      /\ curBackBoneNs # 0 => handle'[curBackBoneNs] = handle[curBackBoneNs]
  <2>1. CASE UNCHANGED <<handle, dropped, ns, curBackBoneNum>>
    <3>1. Accounts'
        BY <1>1, <1>3, <2>1, AccountsKept
    <3>. QED  BY <2>1, <3>1 DEF TypeOK
  <2>2. CASE /\ HandleFree /\ curBackBoneNum \in 0..(backBoneNum - 1)
             /\ handle' = [handle EXCEPT ![LowestFree] = BbNs(curBackBoneNum)]
             /\ dropped' = dropped \cup {LowestFree}
             /\ ns' = [ns EXCEPT ![Main] = BbNs(curBackBoneNum)]
             /\ curBackBoneNum' = curBackBoneNum + 1
    <3>1. LinkManagers' \cup dropped' = LinkManagers \cup dropped \cup {LowestFree}
        BY <1>3, <2>2
    <3>2. /\ Accounts' /\ handle' \in [Handles -> Namespaces \cup {Closed}]
          /\ LowestFree \in Handles /\ BbNs(curBackBoneNum) \in Namespaces
          /\ \A h \in Handles \ {LowestFree} : handle'[h] = handle[h]
          /\ curBackBoneNs # 0 => curBackBoneNs \in Handles \ {LowestFree}
        BY <1>1, <1>3, <2>2, <3>1, OpenBbNs
    <3>3. ns' \in [Threads -> Namespaces \cup {Host}]
        BY <2>2, <3>2 DEF TypeOK
    <3>4. backBoneNum \in Int
        BY SetupAssumption DEF TypeOK
    <3>. QED  BY <2>2, <3>2, <3>3, <3>4 DEF TypeOK
  <2>. QED  BY <1>2, <2>1, <2>2
<1>5. TypeOK'
    BY <1>1, <1>4 DEF TypeOK, Pool!ClientPlaces
<1>6. Handed' = Handed
    BY <1>1 DEF Handed
<1>7. ThreadInv' /\ HeldInv' /\ BuildInv' /\ HomeInv'
    BY <1>1, <1>6, LoopStepKeeps
<1>8. ManagerInv' /\ SeqInv'
    BY <1>1, <1>4, <1>6 DEF ManagerInv, RunBackbones, SeqInv
<1>9. LoopInv'
    BY <1>1, <1>6 DEF LoopInv, MoreLinks
<1>10. ASSUME ~SwitchesUnderTasks PROVE PlaceInv'
  <2>1. curLinkNum = 0
      BY <1>1 DEF LoopInv
  <2>. QED  BY <1>1, <1>4, <1>10, <2>1, LoopStepPlaces DEF PlaceInv
<1>. QED  BY <1>1, <1>4, <1>5, <1>7, <1>8, <1>9, <1>10 DEF SwitchesUnderTasks

LEMMA EnterBbNsInv == ASSUME SetupInv, EnterBbNs PROVE OwnInv'
<1>. USE ThreadsAre DEF SetupInv, OwnInv
<1>1. /\ client = "loop" /\ MoreLinks /\ Boundary /\ step[Main] = "none"
      /\ client' \in {"enter", "failed"}
      /\ UNCHANGED <<list, pos, wg, hasError, worker, task, completed, backBoneNum, nodeNum,
                     curLinkNum, curBbnsIndex, curBackBoneNum, curBackBoneNs, assigned,
                     where, vxlan, step, held>>
      /\ \A w \in Workers : ns'[w] = ns[w] /\ bbns'[w] = bbns[w]
    BY DEF EnterBbNs, ThreadInv, TypeOK, loopVars, history
<1> DEFINE new == LowestFree
           bb == BbNs(curBbnsIndex)
           Opens ==
               /\ HandleFree /\ curBbnsIndex < curBackBoneNum
               /\ handle' = [handle EXCEPT ![new] = bb]
               /\ \/ /\ client' = "enter" /\ dropped' = dropped
                     /\ bbns' = [bbns EXCEPT ![Main] = new] /\ ns' = [ns EXCEPT ![Main] = bb]
                  \/ /\ client' = "failed" /\ dropped' = dropped \cup {new}
                     /\ ns' \in {ns, [ns EXCEPT ![Main] = bb]} /\ bbns' = bbns
<1>2. (client' = "failed" /\ UNCHANGED <<handle, bbns, ns, dropped>>) \/ Opens
    BY DEF EnterBbNs
<1> HIDE DEF Opens
<1>3. Handed' = Handed
    BY <1>1 DEF Handed
<1>4. ThreadInv' /\ HeldInv' /\ BuildInv' /\ HomeInv'
    BY <1>1, <1>3, LoopStepKeeps
<1>5. LoopInv' /\ SeqInv'
    BY <1>1, <1>3 DEF LoopInv, MoreLinks, SeqInv
<1>6. ASSUME ~SwitchesUnderTasks PROVE \A t \in Threads : step[t] = "none"
  <2>1. CASE ~Parallel
      BY <1>1, <2>1 DEF Threads, Parallel
  <2>2. CASE Parallel
    <3>1. curLinkNum < EdgeNum /\ curLinkNum \in Nat /\ EdgeNum \in Nat
        BY <1>1, CountBelow, NextSlot, SlotsAre DEF LoopInv
    <3>2. backBoneNum = 1
      <4>1. backBoneNum \in Nat \ {0} /\ ~(backBoneNum > 1)
          BY <1>6, <2>2, SetupAssumption DEF SwitchesUnderTasks, TypeOK
      <4>. QED  BY <4>1
    <3>3. LinkPerBackBoneNs = EdgeNum
        BY <3>1, <3>2, ShareType DEF TypeOK
    <3>4. curLinkNum % EdgeNum = curLinkNum
        BY <3>1
    <3>5. curLinkNum = 0
        BY <1>1, <3>3, <3>4 DEF Boundary
    <3>6. Handed = {}
      <4>1. IsFiniteSet(Handed)
          BY SlotsAre, FS_Subset DEF Handed
      <4>. QED  BY <3>5, <4>1, FS_EmptySet DEF LoopInv
    <3>7. \A w \in Workers : worker[w] # "run"
        BY <2>2, <3>6, PoolFacts DEF ParInv
    <3>. QED  BY <1>1, <3>7 DEF ThreadInv, Threads
  <2>. QED  BY <2>1, <2>2
<1>7. CASE client' = "failed" /\ UNCHANGED <<handle, bbns, ns, dropped>>
  <2>1. TypeOK'
      BY <1>1, <1>7 DEF TypeOK, Pool!ClientPlaces
  <2>2. Accounts'
    <3>1. LinkManagers' = LinkManagers /\ \A t \in Threads : SlotOf(t)' = SlotOf(t)
        BY <1>1, <1>7 DEF LinkManagers, SlotOf
    <3>. QED  BY <1>1, <1>7, <3>1, AccountsKept
  <2>3. ManagerInv'
      BY <1>1, <1>7 DEF ManagerInv, RunBackbones
  <2>4. ASSUME ~SwitchesUnderTasks PROVE PlaceInv'
      BY <1>1, <1>7, <2>4, LoopStepPlaces DEF PlaceInv
  <2>. QED  BY <1>1, <1>4, <1>5, <2>1, <2>2, <2>3, <2>4 DEF SwitchesUnderTasks
<1>8. CASE Opens
  <2>1. /\ HandleFree /\ curBbnsIndex < curBackBoneNum
        /\ handle' = [handle EXCEPT ![new] = bb]
        /\ \/ /\ client' = "enter" /\ dropped' = dropped
              /\ bbns' = [bbns EXCEPT ![Main] = new] /\ ns' = [ns EXCEPT ![Main] = bb]
           \/ /\ client' = "failed" /\ dropped' = dropped \cup {new}
              /\ ns' \in {ns, [ns EXCEPT ![Main] = bb]} /\ bbns' = bbns
      BY <1>8 DEF Opens
  <2>2. curBbnsIndex \in 0..(backBoneNum - 1)
      BY <2>1, SetupAssumption DEF TypeOK
  <2>3. LinkManagers' \cup dropped' = LinkManagers \cup dropped \cup {new}
      BY <1>1, <2>1 DEF LinkManagers, TypeOK
  <2>4. \A t \in Threads : SlotOf(t)' = SlotOf(t)
      BY <1>1 DEF SlotOf
  <2>5. /\ Accounts' /\ handle' \in [Handles -> Namespaces \cup {Closed}]
        /\ new \in Handles /\ handle'[new] = bb
        /\ \A h \in Handles \ {new} : handle'[h] = handle[h]
        /\ curBackBoneNs # 0 => curBackBoneNs \in Handles \ {new}
        /\ dropped \subseteq Handles \ {new}
        /\ bb \in RunBackbones \cap Namespaces
      BY <1>1, <2>1, <2>2, <2>3, <2>4, OpenBbNs
  <2> HIDE DEF new, bb
  <2>6. TypeOK'
    <3>1. ns' \in [Threads -> Namespaces \cup {Host}]
        BY <2>1, <2>5 DEF TypeOK
    <3>2. bbns' \in [Threads -> 0..MaxHandle]
      <4>1. new \in 0..MaxHandle
          BY <2>5, SetupAssumption DEF Handles
      <4>. QED  BY <2>1, <4>1 DEF TypeOK
    <3>3. dropped' \subseteq Handles
        BY <2>1, <2>5
    <3>. QED  BY <1>1, <2>5, <3>1, <3>2, <3>3 DEF TypeOK, Pool!ClientPlaces
  <2>7. 0 \notin Handles
      BY SetupAssumption DEF Handles
  <2>8. client' = "enter" => bbns'[Main] = new /\ ns'[Main] = bb
      BY <2>1 DEF TypeOK
  <2>9. ManagerInv'
      BY <1>1, <2>1, <2>5, <2>7, <2>8 DEF ManagerInv, RunBackbones
  <2>10. ASSUME ~SwitchesUnderTasks PROVE PlaceInv'
      BY <1>1, <1>6, <2>5, <2>8, <2>10 DEF PlaceInv, PlaceOf
  <2>. QED  BY <1>1, <1>4, <1>5, <2>5, <2>6, <2>9, <2>10 DEF SwitchesUnderTasks
<1>. QED  BY <1>2, <1>7, <1>8

LEMMA SwitchBbNsInv == ASSUME SetupInv, SwitchBbNs PROVE OwnInv'
<1>. USE ThreadsAre DEF SetupInv, OwnInv
<1>1. /\ client = "enter" /\ client' = "entered" /\ step[Main] = "none"
      /\ handle' = [h \in Handles |-> IF h = curBackBoneNs THEN Closed ELSE handle[h]]
      /\ curBackBoneNs' = bbns[Main] /\ curBbnsIndex' = curBbnsIndex + 1
      /\ UNCHANGED <<list, pos, wg, hasError, worker, task, completed, backBoneNum, nodeNum,
                     curLinkNum, curBackBoneNum, assigned, dropped, ns, where, vxlan, step, bbns, held>>
    BY DEF SwitchBbNs, history, ThreadInv
<1>2. /\ bbns[Main] \in Handles /\ bbns[Main] # curBackBoneNs
      /\ handle[bbns[Main]] \in RunBackbones
      /\ curBackBoneNs # 0 => handle[curBackBoneNs] \in RunBackbones
    BY <1>1 DEF ManagerInv
<1>3. \A h \in Handles : handle'[h] = IF h = curBackBoneNs THEN Closed ELSE handle[h]
    BY <1>1
<1>4. 0 \notin Handles
    BY SetupAssumption DEF Handles
<1>5. Handed' = Handed
    BY <1>1 DEF Handed
<1>6. ThreadInv' /\ HeldInv' /\ BuildInv' /\ HomeInv'
    BY <1>1, <1>5, LoopStepKeeps
<1>7. TypeOK'
  <2>1. handle' \in [Handles -> Namespaces \cup {Closed}]
      BY <1>1 DEF TypeOK
  <2>2. curBackBoneNs' \in 0..MaxHandle
      BY <1>1, ThreadsAre DEF TypeOK
  <2>3. curBbnsIndex' \in 0..backBoneNum
    <3>1. curBbnsIndex < curBackBoneNum
        BY <1>1 DEF ManagerInv
    <3>. QED  BY <1>1, <3>1, SetupAssumption DEF TypeOK
  <2>. QED  BY <1>1, <2>1, <2>2, <2>3 DEF TypeOK, Pool!ClientPlaces
<1>8. Accounts'
  <2>1. \A t \in Threads : Mine(t)' = Mine(t) /\ Mine(t) \subseteq Handles \ {curBackBoneNs}
    <3>1. \A t \in Threads : Mine(t) \subseteq Handles
        BY HeldAreOpen DEF Mine
    <3>2. \A t \in Threads : curBackBoneNs \notin Mine(t)
        BY <1>2, <1>4, <3>1, HeldAreOpen DEF Mine
    <3>. QED  BY <1>1, <3>1, <3>2 DEF Mine
  <2>2. HeldNamed'
    <3>. SUFFICES ASSUME NEW t \in Threads, NEW k \in 1..Len(held[t])
                  PROVE  handle'[held[t][k]] = NodeNs(Edge(SlotOf(t))[k])
        BY <1>1 DEF HeldNamed, Edge, SlotOf
    <3>1. held[t][k] \in Handles \ {curBackBoneNs}
        BY <2>1 DEF Mine
    <3>. QED  BY <1>3, <3>1 DEF Accounts, HeldNamed
  <2>3. LinkManagers = {curBackBoneNs, bbns[Main]} /\ LinkManagers' = {bbns[Main]}
      BY <1>1 DEF LinkManagers
  <2>4. NoneLeaks'
    <3>. SUFFICES ASSUME NEW h \in Handles
                  PROVE  handle'[h] # Closed <=>
                             h \in LinkManagers' \cup dropped \/ \E u \in Threads : h \in Mine(u)
        BY <1>1, <2>1 DEF NoneLeaks
    <3>1. CASE h = curBackBoneNs
      <4>1. h \notin dropped
          BY <2>3, <3>1 DEF DroppedInv, DroppedApart
      <4>. QED  BY <1>2, <1>3, <2>1, <2>3, <3>1, <4>1
    <3>2. CASE h # curBackBoneNs
        BY <1>3, <2>3, <3>2 DEF Accounts, NoneLeaks
    <3>. QED  BY <3>1, <3>2
  <2>. QED  BY <2>1, <2>2, <2>4 DEF Accounts, HeldApart
<1>9. ManagerInv'
    BY <1>1, <1>2, <1>3, <1>4 DEF ManagerInv, RunBackbones
<1>10. LoopInv' /\ SeqInv'
    BY <1>1, <1>5 DEF LoopInv, MoreLinks, SeqInv
<1>11. ASSUME ~SwitchesUnderTasks PROVE PlaceInv'
    BY <1>1, <1>2, <1>3, <1>11 DEF PlaceInv, PlaceOf
<1>. QED  BY <1>1, <1>6, <1>7, <1>8, <1>9, <1>10, <1>11 DEF SwitchesUnderTasks

LEMMA SubmitLinkInv == ASSUME SetupInv, SubmitLink PROVE OwnInv'
<1>. USE ThreadsAre DEF SetupInv, OwnInv
<1>1. /\ Parallel /\ Placed /\ client \in {"entered", "loop"} /\ client' = "send"
      /\ step[Main] = "none" /\ wg' = wg + 1
      /\ assigned' = [assigned EXCEPT ![<<list, pos + 1>>] = handle[curBackBoneNs]]
      /\ UNCHANGED <<list, pos, hasError, worker, task, completed, backBoneNum, nodeNum,
                     curLinkNum, curBbnsIndex, curBackBoneNum, curBackBoneNs, dropped,
                     handle, ns, where, vxlan, step, bbns, held>>
    BY DEF SubmitLink, Pool!AddTask, Placed, Assign, linkVars, ThreadInv
<1>2. /\ MoreLinks /\ curBackBoneNs \in Handles /\ handle[curBackBoneNs] \in Namespaces
      /\ <<list, pos + 1>> \in Slots \ Handed
    BY <1>1, PlacedHasNs, NextSlot
<1>3. Handed' = Handed
    BY <1>1 DEF Handed
<1>4. ThreadInv' /\ HeldInv' /\ BuildInv' /\ HomeInv'
    BY <1>1, <1>3, LoopStepKeeps
<1>5. TypeOK'
  <2>1. assigned' \in [Slots -> Namespaces \cup {Nowhere}]
      BY <1>1, <1>2 DEF TypeOK
  <2>2. wg' \in Nat
      BY <1>1 DEF TypeOK
  <2>. QED  BY <1>1, <2>1, <2>2 DEF TypeOK, Pool!ClientPlaces
<1>6. Accounts'
  <2>1. LinkManagers' = LinkManagers /\ \A t \in Threads : SlotOf(t)' = SlotOf(t)
      BY <1>1 DEF LinkManagers, SlotOf
  <2>. QED  BY <1>1, <2>1, AccountsKept
<1>7. ManagerInv'
  <2>1. curBackBoneNs # 0
      BY <1>2, SetupAssumption DEF Handles
  <2>. QED  BY <1>1, <2>1 DEF ManagerInv, RunBackbones
<1>8. LoopInv' /\ SeqInv'
    BY <1>1, <1>2, <1>3 DEF LoopInv, MoreLinks, SeqInv
<1>9. ASSUME ~SwitchesUnderTasks PROVE PlaceInv'
  <2>1. assigned'[<<list, pos + 1>>] = handle[curBackBoneNs]
      BY <1>1, <1>2 DEF TypeOK
  <2>2. \A s \in Slots \ {<<list, pos + 1>>} : assigned'[s] = assigned[s]
      BY <1>1 DEF TypeOK
  <2>3. where[<<list, pos + 1>>] = Nowhere
      BY <1>1, <1>2 DEF BuildInv
  <2>4. \A s \in Handed : assigned'[s] = assigned[s]
      BY <1>2, <2>2 DEF Handed
  <2>5. \A t \in Threads : PlaceOf(t)'
      BY <1>1, <1>9, <2>4, LoopStepPlaces
  <2>6. \A s \in Slots : where[s] \in {Nowhere, assigned'[s]}
      BY <1>9, <2>2, <2>3 DEF PlaceInv
  <2>. QED  BY <1>1, <1>9, <2>1, <2>5, <2>6 DEF PlaceInv
<1>. QED  BY <1>1, <1>4, <1>5, <1>6, <1>7, <1>8, <1>9 DEF SwitchesUnderTasks

LEMMA CallSetupLinkInv == ASSUME SetupInv, CallSetupLink PROVE OwnInv'
<1>. USE ThreadsAre DEF SetupInv, OwnInv
<1>1. /\ ~Parallel /\ Placed /\ client \in {"entered", "loop"} /\ client' = "call"
      /\ step[Main] = "none" /\ step' = [step EXCEPT ![Main] = "read"]
      /\ assigned' = [assigned EXCEPT ![<<list, pos + 1>>] = handle[curBackBoneNs]]
      /\ UNCHANGED <<list, pos, wg, hasError, worker, task, completed, backBoneNum, nodeNum,
                     curLinkNum, curBbnsIndex, curBackBoneNum, curBackBoneNs, dropped,
                     handle, ns, where, vxlan, bbns, held>>
    BY DEF CallSetupLink, Placed, Assign, ThreadInv
<1>2. /\ MoreLinks /\ curBackBoneNs \in Handles /\ handle[curBackBoneNs] \in Namespaces
      /\ ns[Main] = handle[curBackBoneNs] /\ <<list, pos + 1>> \in Slots \ Handed
    BY <1>1, PlacedHasNs, NextSlot
<1>3. Handed' = Handed
    BY <1>1 DEF Handed
<1>4. Threads = {Main} /\ Workers = {}
    BY <1>1 DEF Threads, Parallel
<1>5. /\ step'[Main] = "read" /\ held[Main] = <<>>
      /\ SlotOf(Main) = <<list, pos + 1>> /\ SlotOf(Main)' = <<list, pos + 1>>
    BY <1>1 DEF TypeOK, ThreadInv, SlotOf
<1>6. /\ assigned'[<<list, pos + 1>>] = handle[curBackBoneNs]
      /\ \A s \in Slots \ {<<list, pos + 1>>} : assigned'[s] = assigned[s]
    BY <1>1, <1>2 DEF TypeOK
<1>7. TypeOK'
  <2>1. assigned' \in [Slots -> Namespaces \cup {Nowhere}]
      BY <1>1, <1>2 DEF TypeOK
  <2>2. step' \in [Threads -> LinkPlaces]
      BY <1>1 DEF TypeOK, LinkPlaces
  <2>. QED  BY <1>1, <2>1, <2>2 DEF TypeOK
<1>8. Accounts'
  <2>1. LinkManagers' = LinkManagers /\ \A t \in Threads : SlotOf(t)' = SlotOf(t)
      BY <1>1 DEF LinkManagers, SlotOf
  <2>. QED  BY <1>1, <2>1, AccountsKept
<1>9. ThreadInv' /\ HomeInv'
    BY <1>1, <1>4, <1>5 DEF ThreadInv, HomeInv
<1>10. HeldInv'
    BY <1>1, <1>2, <1>4, <1>5, NamespacesAre DEF HeldInv, HeldOf
<1>11. ManagerInv'
  <2>1. curBackBoneNs # 0
      BY <1>2, SetupAssumption DEF Handles
  <2>. QED  BY <1>1, <2>1 DEF ManagerInv, RunBackbones
<1>12. LoopInv' /\ SeqInv'
    BY <1>1, <1>2, <1>3 DEF LoopInv, MoreLinks, SeqInv
<1>13. where[<<list, pos + 1>>] = Nowhere
    BY <1>1, <1>2 DEF BuildInv
<1>14. BuildInv'
    BY <1>1, <1>3, <1>4, <1>5, <1>13 DEF BuildInv, BuildOf, Joined, Early, External, Edge
<1>15. PlaceInv'
  <2>1. PlaceInv
      BY <1>1 DEF SwitchesUnderTasks
  <2>2. curBackBoneNs # 0
      BY <1>2, SetupAssumption DEF Handles
  <2>3. PlaceOf(Main)'
      BY <1>1, <1>2, <1>5, <1>6, <2>2 DEF PlaceOf
  <2>4. \A s \in Slots : where[s] \in {Nowhere, assigned'[s]}
      BY <1>6, <1>13, <2>1 DEF PlaceInv
  <2>. QED  BY <1>1, <1>4, <2>3, <2>4 DEF PlaceInv
<1>. QED  BY <1>7, <1>8, <1>9, <1>10, <1>11, <1>12, <1>14, <1>15

LEMMA EndOfListInv == ASSUME SetupInv, EndOfList PROVE OwnInv'
<1>. USE ThreadsAre DEF SetupInv, OwnInv
<1>1. /\ client = "loop" /\ list <= Len(EdgeOrder) /\ ~MoreLinks /\ step[Main] = "none"
      /\ UNCHANGED <<wg, hasError, worker, task, completed, backBoneNum, nodeNum,
                     curLinkNum, curBackBoneNum, curBackBoneNs, assigned, dropped,
                     handle, ns, where, vxlan, step, bbns, held>>
      /\ \/ /\ Parallel /\ client' = "wait" /\ UNCHANGED <<list, pos, curBbnsIndex>>
         \/ client' = "loop" /\ list' = list + 1 /\ pos' = 0 /\ curBbnsIndex' = 0
    BY DEF EndOfList, history, Pool!EndOfList, linkVars, ThreadInv
<1>2. list \in 1..Len(EdgeOrder) /\ pos = Len(EdgeOrder[list]) /\ pos \in Nat
    BY <1>1, SlotsAre DEF LoopInv, MoreLinks, TypeOK
<1>3. list' \in 1..(Len(EdgeOrder) + 1) /\ pos' \in Nat
    BY <1>1, <1>2, SlotsAre
<1>4. Handed' = Handed
  <2>. SUFFICES ASSUME NEW s \in Slots, list' = list + 1, pos' = 0
                PROVE  (s[1] < list + 1 \/ (s[1] = list + 1 /\ s[2] <= 0))
                          <=> (s[1] < list \/ (s[1] = list /\ s[2] <= pos))
      BY <1>1 DEF Handed
  <2>1. s[1] \in Nat /\ s[2] \in Nat \ {0} /\ s[2] <= Len(EdgeOrder[s[1]])
      BY SlotsAre
  <2>. QED  BY <1>2, <2>1
<1>5. ThreadInv' /\ HeldInv' /\ BuildInv' /\ HomeInv'
    BY <1>1, <1>4, LoopStepKeeps
<1>6. TypeOK'
  <2>1. curBbnsIndex' \in 0..backBoneNum
    <3>1. backBoneNum \in Nat /\ curBbnsIndex \in 0..backBoneNum
        BY SetupAssumption DEF TypeOK
    <3>2. curBbnsIndex' \in {0, curBbnsIndex}
        BY <1>1
    <3>. QED  BY ONLY <3>1, <3>2
  <2>2. client' \in Pool!ClientPlaces
      BY <1>1 DEF Pool!ClientPlaces
  <2>. QED  BY <1>1, <1>3, <2>1, <2>2 DEF TypeOK
<1>7. Accounts'
  <2>1. LinkManagers' = LinkManagers
      BY <1>1 DEF LinkManagers
  <2>2. \A t \in Threads : held[t] # <<>> => SlotOf(t)' = SlotOf(t)
      BY <1>1 DEF ThreadInv, SlotOf
  <2>. QED  BY <1>1, <2>1, <2>2, AccountsKept
<1>8. ManagerInv'
    BY <1>1 DEF ManagerInv, RunBackbones
<1>9. LoopInv'
  <2>1. list' <= Len(EdgeOrder) => pos' <= Len(EdgeOrder[list'])
      BY <1>1, <1>2, <1>3, SlotsAre
  <2>2. list' > Len(EdgeOrder) => pos' = 0
      BY <1>1, <1>2
  <2>. QED  BY <1>1, <1>4, <2>1, <2>2 DEF LoopInv
<1>10. SeqInv'
    BY <1>1, <1>4 DEF SeqInv
<1>11. ASSUME ~SwitchesUnderTasks PROVE PlaceInv'
  <2>1. \A t \in Threads : PlaceOf(t)'
      BY <1>1, <1>11, LoopStepPlaces
  <2>. QED  BY <1>1, <1>11, <2>1 DEF PlaceInv
<1>. QED  BY <1>1, <1>5, <1>6, <1>7, <1>8, <1>9, <1>10, <1>11 DEF SwitchesUnderTasks

LEMMA WaitReturnsInv == ASSUME SetupInv, Parallel, WaitReturns PROVE OwnInv'
<1>. USE ThreadsAre DEF SetupInv, OwnInv
<1>1. /\ client = "wait" /\ step[Main] = "none" /\ ~hasError
      /\ list \in 1..Len(EdgeOrder) /\ pos = Len(EdgeOrder[list])
    BY PoolFacts DEF WaitReturns, history, Pool!WaitReturns, ThreadInv, ParInv, TypeOK
<1>2. /\ client' = "loop" /\ list' = list + 1 /\ pos' = 0 /\ curBbnsIndex' = 0
      /\ UNCHANGED <<wg, hasError, worker, task, completed, backBoneNum, nodeNum,
                     curLinkNum, curBackBoneNum, curBackBoneNs, assigned, dropped,
                     handle, ns, where, vxlan, step, bbns, held>>
    BY <1>1 DEF WaitReturns, history, Pool!WaitReturns, linkVars
<1>3. list' \in 1..(Len(EdgeOrder) + 1) /\ pos' \in Nat
    BY <1>1, <1>2, SlotsAre
<1>4. Handed' = Handed
  <2>. SUFFICES ASSUME NEW s \in Slots
                PROVE  (s[1] < list + 1 \/ (s[1] = list + 1 /\ s[2] <= 0))
                          <=> (s[1] < list \/ (s[1] = list /\ s[2] <= pos))
      BY <1>2 DEF Handed
  <2>1. s[1] \in Nat /\ s[2] \in Nat \ {0} /\ s[2] <= Len(EdgeOrder[s[1]])
      BY SlotsAre
  <2>. QED  BY <1>1, <2>1
<1>5. ThreadInv' /\ HeldInv' /\ BuildInv' /\ HomeInv'
    BY <1>1, <1>2, <1>4, LoopStepKeeps
<1>6. TypeOK'
  <2>1. curBbnsIndex' \in 0..backBoneNum
      BY <1>2, SetupAssumption DEF TypeOK
  <2>. QED  BY <1>2, <1>3, <2>1 DEF TypeOK, Pool!ClientPlaces
<1>7. Accounts'
  <2>1. LinkManagers' = LinkManagers
      BY <1>1, <1>2 DEF LinkManagers
  <2>2. \A t \in Threads : held[t] # <<>> => SlotOf(t)' = SlotOf(t)
      BY <1>1, <1>2 DEF ThreadInv, SlotOf
  <2>. QED  BY <1>2, <2>1, <2>2, AccountsKept
<1>8. ManagerInv' /\ SeqInv'
    BY <1>2 DEF ManagerInv, RunBackbones, SeqInv
<1>9. LoopInv'
  <2>1. list' <= Len(EdgeOrder) => pos' <= Len(EdgeOrder[list'])
      BY <1>2, <1>3, SlotsAre
  <2>. QED  BY <1>2, <1>4, <2>1 DEF LoopInv
<1>10. ASSUME ~SwitchesUnderTasks PROVE PlaceInv'
  <2>1. \A t \in Threads : PlaceOf(t)'
      BY <1>1, <1>2, <1>10, LoopStepPlaces
  <2>. QED  BY <1>2, <1>10, <2>1 DEF PlaceInv
<1>. QED  BY <1>2, <1>5, <1>6, <1>7, <1>8, <1>9, <1>10 DEF SwitchesUnderTasks

LEMMA ReturnInv == ASSUME SetupInv, Return PROVE OwnInv'
<1>. USE ThreadsAre DEF SetupInv, OwnInv
<1>1. /\ client = "loop" /\ list > Len(EdgeOrder) /\ client' = "returned"
      /\ step[Main] = "none" /\ ns'[Main] = Host /\ \A w \in Workers : ns'[w] = ns[w]
      /\ ns' \in [Threads -> Namespaces \cup {Host}]
      /\ UNCHANGED <<list, pos, wg, hasError, worker, task, completed, backBoneNum, nodeNum,
                     curLinkNum, curBbnsIndex, curBackBoneNum, curBackBoneNs, assigned, dropped,
                     handle, where, vxlan, step, bbns, held>>
    BY DEF Return, loopVars, history, ThreadInv, TypeOK
<1>2. Handed' = Handed
    BY <1>1 DEF Handed
<1>3. ThreadInv' /\ HeldInv' /\ BuildInv' /\ HomeInv'
    BY <1>1, <1>2, LoopStepKeeps
<1>4. TypeOK'
    BY <1>1 DEF TypeOK, Pool!ClientPlaces
<1>5. Accounts'
  <2>1. LinkManagers' = LinkManagers /\ \A t \in Threads : SlotOf(t)' = SlotOf(t)
      BY <1>1 DEF LinkManagers, SlotOf
  <2>. QED  BY <1>1, <2>1, AccountsKept
<1>6. ManagerInv' /\ SeqInv' /\ LoopInv'
    BY <1>1, <1>2 DEF ManagerInv, RunBackbones, SeqInv, LoopInv
<1>7. ASSUME ~SwitchesUnderTasks PROVE PlaceInv'
  <2>1. \A t \in Threads : PlaceOf(t)'
      BY <1>1, <1>7, LoopStepPlaces
  <2>. QED  BY <1>1, <1>7, <2>1 DEF PlaceInv
<1>. QED  BY <1>1, <1>3, <1>4, <1>5, <1>6, <1>7 DEF SwitchesUnderTasks

LEMMA MineAreNodes ==
    ASSUME Accounts, NEW t \in Threads, NEW h \in Mine(t) PROVE ~IsBbNs(handle[h])
<1>1. PICK k \in 1..Len(held[t]) : h = held[t][k]
    BY DEF Mine
<1>2. handle[h] = NodeNs(Edge(SlotOf(t))[k])
    BY <1>1 DEF Accounts, HeldNamed
<1>3. \A x : NodeNs(x)[1] = "node"
    BY DEF NodeNs
<1>. QED  BY <1>2, <1>3 DEF IsBbNs

\* The deferred Close of thread t gives up its own handles and no others.
LEMMA CloseHeldKeeps ==
    ASSUME SetupInv, NEW t \in Threads, CloseHeld(t), dropped' = dropped,
           LinkManagers' = LinkManagers,
           \A u \in Threads \ {t} : held[u] # <<>> => SlotOf(u)' = SlotOf(u)
    PROVE  /\ Accounts'
           /\ handle' \in [Handles -> Namespaces \cup {Closed}]
           /\ held' \in [Threads -> Seq(Handles)]
           /\ held'[t] = <<>> /\ \A u \in Threads \ {t} : held'[u] = held[u]
           /\ \A h \in Handles : handle[h] \in RunBackbones => handle'[h] = handle[h]
<1>. USE DEF SetupInv, OwnInv
<1>1. \A h \in Handles : handle'[h] = IF h \in Mine(t) THEN Closed ELSE handle[h]
    BY DEF CloseHeld, Mine
<1>2. handle' \in [Handles -> Namespaces \cup {Closed}]
  <2>1. handle' = [h \in Handles |-> IF \E k \in 1..Len(held[t]) : held[t][k] = h
                                     THEN Closed ELSE handle[h]]
      BY DEF CloseHeld
  <2>. QED  BY <2>1 DEF TypeOK
<1>3. /\ held' \in [Threads -> Seq(Handles)] /\ held'[t] = <<>>
      /\ \A u \in Threads \ {t} : held'[u] = held[u]
    BY DEF CloseHeld, TypeOK
<1>4. Mine(t)' = {} /\ \A u \in Threads \ {t} : Mine(u)' = Mine(u)
    BY <1>3 DEF Mine
<1>5. \A h \in Mine(t) : handle[h] \notin RunBackbones /\ h \notin LinkManagers \cup dropped
  <2>1. \A h \in Mine(t) : h \in Handles /\ handle[h] \notin RunBackbones
      BY HeldAreOpen DEF Mine
  <2>4. \A h \in Mine(t) : ~IsBbNs(handle[h])
      BY MineAreNodes
  <2>2. \A h \in LinkManagers \ {0} : handle[h] \in RunBackbones
      BY DEF LinkManagers, ManagerInv
  <2>3. 0 \notin Handles
      BY SetupAssumption DEF Handles
  <2>. QED  BY <2>1, <2>2, <2>3, <2>4 DEF DroppedInv, DroppedApart
<1>6. HeldNamed'
  <2>. SUFFICES ASSUME NEW u \in Threads, NEW k \in 1..Len(held'[u])
                PROVE  handle'[held'[u][k]] = NodeNs(Edge(SlotOf(u)')[k])
      BY DEF HeldNamed, Edge
  <2>1. u # t /\ held'[u] = held[u] /\ held[u] # <<>>
      BY <1>3
  <2>2. SlotOf(u)' = SlotOf(u) /\ k \in 1..Len(held[u])
      BY <2>1
  <2>3. held[u][k] \in Mine(u) /\ held[u][k] \in Handles
      BY <2>2, HeldAreOpen DEF Mine
  <2>4. held[u][k] \notin Mine(t)
      BY <2>1, <2>3 DEF Accounts, HeldApart
  <2>. QED  BY <1>1, <2>1, <2>2, <2>3, <2>4 DEF Accounts, HeldNamed
<1>7. HeldApart'
    BY <1>4 DEF Accounts, HeldApart
<1>8. NoneLeaks'
  <2>. SUFFICES ASSUME NEW h \in Handles
                PROVE  handle'[h] # Closed <=>
                           h \in LinkManagers \cup dropped \/ \E u \in Threads : h \in Mine(u)'
      BY DEF NoneLeaks
  <2>1. CASE h \in Mine(t)
    <3>1. \A u \in Threads : h \notin Mine(u)'
        BY <1>4, <2>1 DEF Accounts, HeldApart
    <3>. QED  BY <1>1, <1>5, <2>1, <3>1
  <2>2. CASE h \notin Mine(t)
      BY <1>1, <1>4, <2>2 DEF Accounts, NoneLeaks
  <2>. QED  BY <2>1, <2>2
<1>. QED  BY <1>1, <1>2, <1>3, <1>5, <1>6, <1>7, <1>8 DEF Accounts

LEMMA ReturnToLoopInv == ASSUME SetupInv, ReturnToLoop PROVE OwnInv'
<1>. USE ThreadsAre DEF SetupInv, OwnInv
<1>1. /\ step[Main] \in {"ok", "failed"} /\ client = "call" /\ ~Parallel
      /\ CloseHeld(Main) /\ step' = [step EXCEPT ![Main] = "none"]
      /\ UNCHANGED <<list, wg, hasError, worker, task, backBoneNum, nodeNum,
                     curBbnsIndex, curBackBoneNum, curBackBoneNs, assigned, dropped,
                     ns, where, vxlan, bbns>>
      /\ \/ /\ step[Main] = "ok" /\ client' = "loop"
            /\ pos' = pos + 1 /\ curLinkNum' = curLinkNum + 1
            /\ completed' = completed \cup {<<list, pos + 1>>}
         \/ client' = "failed" /\ UNCHANGED <<pos, curLinkNum, completed>>
    BY DEF ReturnToLoop, history, Goto, ThreadInv, SlotOf
<1>2. Threads = {Main} /\ Workers = {}
    BY <1>1 DEF Threads, Parallel
<1>3. /\ MoreLinks /\ <<list, pos + 1>> \in Slots \ Handed
      /\ curLinkNum \in Nat /\ EdgeNum \in Nat /\ curLinkNum < EdgeNum
    BY <1>1, NextSlot, CountBelow, SlotsAre DEF LoopInv
<1>4. LinkManagers' = LinkManagers
    BY <1>1 DEF LinkManagers
<1>5. /\ Accounts'
      /\ handle' \in [Handles -> Namespaces \cup {Closed}]
      /\ held' \in [Threads -> Seq(Handles)] /\ held'[Main] = <<>>
      /\ \A h \in Handles : handle[h] \in RunBackbones => handle'[h] = handle[h]
    BY <1>1, <1>2, <1>4, CloseHeldKeeps
<1>6. step'[Main] = "none" /\ step' \in [Threads -> LinkPlaces]
    BY <1>1 DEF TypeOK, LinkPlaces
<1>7. TypeOK'
  <2>1. pos' \in Nat /\ curLinkNum' \in 0..EdgeNum
    <3>1. pos \in Nat /\ curLinkNum \in 0..EdgeNum
        BY DEF TypeOK
    <3>. QED  BY <1>1, <1>3, <3>1
  <2>2. completed' \subseteq Slots
      BY <1>1, <1>3 DEF TypeOK
  <2>3. client' \in Pool!ClientPlaces
      BY <1>1 DEF Pool!ClientPlaces
  <2>. QED  BY <1>1, <1>5, <1>6, <2>1, <2>2, <2>3 DEF TypeOK
<1>8. ThreadInv' /\ HeldInv' /\ HomeInv'
    BY <1>1, <1>2, <1>5, <1>6 DEF ThreadInv, HeldInv, HeldOf, HomeInv
<1>9. /\ curBackBoneNs # 0 /\ curBackBoneNs \in Handles
      /\ handle'[curBackBoneNs] = handle[curBackBoneNs]
      /\ handle'[curBackBoneNs] \in RunBackbones
  <2>1. curBackBoneNs # 0
      BY <1>1 DEF ManagerInv
  <2>2. curBackBoneNs \in Handles
      BY <2>1, SetupAssumption DEF TypeOK, Handles
  <2>. QED  BY <1>5, <2>1, <2>2 DEF ManagerInv
<1>10. ManagerInv'
    BY <1>1, <1>9 DEF ManagerInv, RunBackbones
<1>11. \/ client' = "loop" /\ Handed' = Handed \cup {<<list, pos + 1>>}
       \/ client' = "failed" /\ Handed' = Handed
  <2>1. CASE pos' = pos + 1 /\ client' = "loop"
      BY <1>1, <1>3, <2>1, HandNext DEF Handed
  <2>2. CASE pos' = pos /\ client' = "failed"
      BY <1>1, <2>2 DEF Handed
  <2>. QED  BY <1>1, <2>1, <2>2
<1>12. LoopInv'
  <2>1. list <= Len(EdgeOrder) /\ pos < Len(EdgeOrder[list]) /\ pos \in Nat
      BY <1>3 DEF MoreLinks, TypeOK
  <2>2. list <= Len(EdgeOrder) => pos' <= Len(EdgeOrder[list])
      BY <1>1, <2>1, SlotsAre DEF TypeOK
  <2>3. curLinkNum' = Cardinality(Handed')
    <3>1. IsFiniteSet(Handed)
        BY SlotsAre, FS_Subset DEF Handed
    <3>2. Cardinality(Handed \cup {<<list, pos + 1>>}) = Cardinality(Handed) + 1
        BY <1>3, <3>1, FS_AddElement
    <3>. QED  BY <1>1, <1>11, <3>2 DEF LoopInv
  <2>4. ~(list > Len(EdgeOrder)) /\ client' \in {"loop", "failed"}
    <3>1. list \in Int /\ Len(EdgeOrder) \in Nat
        BY SlotsAre DEF TypeOK
    <3>. QED  BY <1>1, <2>1, <3>1
  <2>. QED  BY <1>1, <2>2, <2>3, <2>4 DEF LoopInv
<1>13. SeqInv'
    BY <1>1, <1>11 DEF SeqInv
<1>14. BuildInv'
  <2>1. BuildOf(Main)'
      BY <1>6 DEF BuildOf, Early
  <2>2. step[Main] = "ok" => Joined(<<list, pos + 1>>)
      BY <1>1 DEF BuildInv, BuildOf, SlotOf
  <2>3. \A s \in completed' : Joined(s)
      BY <1>1, <2>2 DEF BuildInv
  <2>4. \A s \in Slots : where[s] # Nowhere => s \in Handed \/ s = <<list, pos + 1>>
      BY <1>1 DEF BuildInv
  <2>. QED  BY <1>1, <1>2, <1>11, <2>1, <2>3, <2>4 DEF BuildInv, Joined, External, Edge
<1>15. PlaceInv'
  <2>1. PlaceInv
      BY <1>1 DEF SwitchesUnderTasks
  <2>2. step[Main] = "ok" => ns[Main] = handle[curBackBoneNs]
      BY <2>1 DEF PlaceInv, PlaceOf
  <2>3. PlaceOf(Main)'
      BY <1>6 DEF PlaceOf
  <2>. QED  BY <1>1, <1>2, <1>9, <2>1, <2>2, <2>3 DEF PlaceInv
<1>. QED  BY <1>5, <1>7, <1>8, <1>10, <1>12, <1>13, <1>14, <1>15

-----------------------------------------------------------------------------
(* The steps of the workers. *)

\* A step of a worker is a step of a parallel set-up, where Main is outside
\* SetupLink and the invariant of the pool is preserved.
LEMMA WorkerFacts ==
    ASSUME SetupInv, NEW w \in Workers, WorkerStep(w)
    PROVE  Parallel /\ step[Main] = "none" /\ client # "call" /\ PoolProofs!PoolInv'
<1>. USE DEF SetupInv, OwnInv
<1>1. Parallel /\ step[Main] = "none" /\ client # "call"
    BY DEF Parallel, ThreadInv
<1>2. [Pool!Next]_(Pool!vars)
    BY <1>1, PoolStep DEF Next
<1>. QED  BY <1>1, <1>2, PoolPreserved DEF ParInv

LEMMA StartWorkerInv ==
    ASSUME SetupInv, NEW w \in Workers, StartWorker(w) PROVE OwnInv'
<1>. USE ThreadsAre DEF SetupInv, OwnInv
<1>1. /\ worker[w] = "start" /\ worker' = [worker EXCEPT ![w] = "idle"]
      /\ UNCHANGED <<client, list, pos, wg, hasError, task, completed, loopVars, linkVars>>
    BY DEF StartWorker, Pool!Start
<1>. USE DEF loopVars, history, linkVars
<1>2. TypeOK'
    BY <1>1 DEF TypeOK, Pool!WorkerPlaces
<1>3. Accounts'
  <2>1. LinkManagers' = LinkManagers /\ \A t \in Threads : SlotOf(t)' = SlotOf(t)
      BY <1>1 DEF LinkManagers, SlotOf
  <2>. QED  BY <1>1, <2>1, AccountsKept
<1>4. ThreadInv'
    BY <1>1 DEF ThreadInv, TypeOK
<1>5. HeldInv' /\ ManagerInv'
    BY <1>1 DEF HeldInv, HeldOf, ManagerInv, SlotOf, External, Edge, RunBackbones
<1>6. Handed' = Handed
    BY <1>1 DEF Handed
<1>7. LoopInv' /\ SeqInv' /\ HomeInv'
    BY <1>1, <1>6 DEF LoopInv, SeqInv, HomeInv, MoreLinks
<1>8. BuildInv'
    BY <1>1, <1>6 DEF BuildInv, BuildOf, Joined, SlotOf, External, Edge
<1>9. ASSUME ~SwitchesUnderTasks PROVE PlaceInv'
    BY <1>1, <1>9 DEF PlaceInv, PlaceOf, SlotOf
<1>. QED  BY <1>1, <1>2, <1>3, <1>4, <1>5, <1>7, <1>8, <1>9 DEF SwitchesUnderTasks

LEMMA ReceiveTaskInv ==
    ASSUME SetupInv, NEW w \in Workers, ReceiveTask(w) PROVE OwnInv'
<1>. USE ThreadsAre DEF SetupInv, OwnInv
<1> DEFINE new == <<list, pos + 1>>
<1>1. /\ client = "send" /\ client' = "loop" /\ worker[w] = "idle"
      /\ task' = [task EXCEPT ![w] = new] /\ worker' = [worker EXCEPT ![w] = "run"]
      /\ pos' = pos + 1 /\ curLinkNum' = curLinkNum + 1
      /\ bbns' = [bbns EXCEPT ![w] = curBackBoneNs]
      /\ step' = [step EXCEPT ![w] = "enter"]
      /\ UNCHANGED <<list, wg, hasError, completed, backBoneNum, nodeNum, curBbnsIndex,
                     curBackBoneNum, curBackBoneNs, assigned, dropped, handle, ns, where, vxlan, held>>
    BY DEF ReceiveTask, history, Pool!Receive, Goto
<1>2. Parallel /\ step[Main] = "none" /\ PoolProofs!PoolInv'
    BY WorkerFacts DEF WorkerStep
<1>3. /\ MoreLinks /\ new \in Slots \ Handed
      /\ curLinkNum \in Nat /\ EdgeNum \in Nat /\ curLinkNum < EdgeNum
    BY <1>1, NextSlot, CountBelow, SlotsAre DEF LoopInv
<1>4. Handed' = Handed \cup {new}
    BY <1>1, <1>3, HandNext DEF Handed
<1> HIDE DEF new
<1>5. /\ step[w] = "none" /\ step'[w] = "enter" /\ held[w] = <<>>
      /\ task'[w] = new /\ worker'[w] = "run" /\ bbns'[w] = curBackBoneNs
      /\ \A u \in Threads \ {w} : step'[u] = step[u] /\ bbns'[u] = bbns[u]
      /\ \A u \in Workers \ {w} : task'[u] = task[u] /\ worker'[u] = worker[u]
    BY <1>1 DEF ThreadInv, TypeOK
<1>6. SlotOf(w)' = new /\ \A u \in Threads \ {w, Main} : SlotOf(u)' = SlotOf(u)
    BY <1>5 DEF SlotOf, Threads
<1>7. TypeOK'
  <2>1. pos' \in Nat /\ curLinkNum' \in 0..EdgeNum
      BY <1>1, <1>3 DEF TypeOK
  <2>2. /\ task' \in [Workers -> Slots \cup {Pool!NoTask}]
        /\ worker' \in [Workers -> Pool!WorkerPlaces]
      BY <1>1, <1>3 DEF TypeOK, Pool!WorkerPlaces
  <2>3. step' \in [Threads -> LinkPlaces] /\ bbns' \in [Threads -> 0..MaxHandle]
      BY <1>1 DEF TypeOK, LinkPlaces
  <2>. QED  BY <1>1, <2>1, <2>2, <2>3 DEF TypeOK, Pool!ClientPlaces
<1>8. Accounts'
  <2>1. LinkManagers' = LinkManagers
      BY <1>1 DEF LinkManagers
  <2>2. \A u \in Threads : held[u] # <<>> => SlotOf(u)' = SlotOf(u)
      BY <1>2, <1>5, <1>6 DEF ThreadInv
  <2>. QED  BY <1>1, <2>1, <2>2, AccountsKept
<1>9. ThreadInv'
  <2>1. step'[Main] = "none" /\ client' # "call"
      BY <1>1, <1>2, <1>5
  <2>2. \A u \in Workers : step'[u] # "none" <=> worker'[u] = "run"
      BY <1>5 DEF ThreadInv
  <2>3. \A u \in Threads : step'[u] = "none" => held'[u] = <<>>
      BY <1>1, <1>5 DEF ThreadInv
  <2>. QED  BY <2>1, <2>2, <2>3 DEF ThreadInv
<1>10. curBackBoneNs # 0
    BY <1>1 DEF ManagerInv
<1>11. HeldInv'
  <2>. SUFFICES ASSUME NEW u \in Threads, step'[u] # "none" PROVE HeldOf(u)'
      BY DEF HeldInv, HeldOf
  <2>1. CASE u = w
      BY <1>1, <1>3, <1>5, <1>6, <1>10, <2>1 DEF HeldOf
  <2>2. CASE u # w
    <3>1. u # Main
        BY <1>2, <1>5, <2>2
    <3>2. HeldOf(u) /\ SlotOf(u)' = SlotOf(u) /\ step'[u] = step[u] /\ bbns'[u] = bbns[u]
        BY <1>5, <1>6, <2>2, <3>1 DEF HeldInv
    <3>. QED  BY <1>1, <3>2 DEF HeldOf, External, Edge
  <2>. QED  BY <2>1, <2>2
<1>12. ManagerInv'
    BY <1>1, <1>10 DEF ManagerInv, RunBackbones
<1>13. LoopInv'
  <2>1. list \in 1..Len(EdgeOrder) /\ pos < Len(EdgeOrder[list]) /\ pos \in Nat
      BY <1>3 DEF MoreLinks, TypeOK
  <2>2. pos' <= Len(EdgeOrder[list])
      BY <1>1, <2>1, SlotsAre
  <2>3. curLinkNum' = Cardinality(Handed')
    <3>1. IsFiniteSet(Handed)
        BY SlotsAre, FS_Subset DEF Handed
    <3>2. Cardinality(Handed \cup {new}) = Cardinality(Handed) + 1
        BY <1>3, <3>1, FS_AddElement
    <3>. QED  BY <1>1, <1>4, <3>2 DEF LoopInv
  <2>. QED  BY <1>1, <2>1, <2>2, <2>3, SlotsAre DEF LoopInv
<1>14. SeqInv'
    BY <1>2 DEF SeqInv
<1>15. where[new] = Nowhere
    BY <1>1, <1>3 DEF BuildInv, new
<1>16. BuildInv'
  <2>1. ASSUME NEW u \in Threads PROVE BuildOf(u)'
    <3>1. CASE u = w
        BY <1>1, <1>5, <1>6, <1>15, <3>1 DEF BuildOf
    <3>2. CASE u = Main
        BY <1>2, <1>5, <3>2 DEF BuildOf, Early
    <3>3. CASE u \notin {w, Main}
      <4>1. BuildOf(u) /\ SlotOf(u)' = SlotOf(u) /\ step'[u] = step[u]
          BY <1>5, <1>6, <3>3 DEF BuildInv
      <4>. QED  BY <1>1, <4>1 DEF BuildOf, Joined, External, Edge
    <3>. QED  BY <3>1, <3>2, <3>3
  <2>2. \A s \in Slots : where[s] # Nowhere => s \in Handed
      BY <1>1 DEF BuildInv
  <2>. QED  BY <1>1, <1>4, <2>1, <2>2 DEF BuildInv, Joined, External, Edge
<1>17. HomeInv'
  <2>1. new # Pool!NoTask
      BY <1>3, SlotsAre DEF Pool!NoTask
  <2>. QED  BY <1>1, <1>5, <2>1 DEF HomeInv
<1>18. ASSUME ~SwitchesUnderTasks PROVE PlaceInv'
  <2>1. PlaceInv
      BY <1>18
  <2>2. ASSUME NEW u \in Threads, step'[u] # "none" PROVE PlaceOf(u)'
    <3>1. CASE u = w
        BY <1>1, <1>5, <1>6, <1>10, <2>1, <3>1 DEF PlaceInv, PlaceOf, new
    <3>2. CASE u # w
      <4>1. u # Main
          BY <1>2, <1>5, <2>2, <3>2
      <4>2. PlaceOf(u) /\ SlotOf(u)' = SlotOf(u) /\ step'[u] = step[u] /\ bbns'[u] = bbns[u]
          BY <1>5, <1>6, <2>1, <3>2, <4>1 DEF PlaceInv
      <4>. QED  BY <1>1, <4>2 DEF PlaceOf
    <3>. QED  BY <3>1, <3>2
  <2>3. \A u \in Threads : PlaceOf(u)'
      BY <2>2 DEF PlaceOf
  <2>. QED  BY <1>1, <1>2, <2>1, <2>3 DEF PlaceInv
<1>. QED  BY <1>1, <1>7, <1>8, <1>9, <1>11, <1>12, <1>13, <1>14, <1>16, <1>17, <1>18
          DEF SwitchesUnderTasks

LEMMA ReturnToPoolInv ==
    ASSUME SetupInv, NEW w \in Workers, ReturnToPool(w) PROVE OwnInv'
<1>. USE ThreadsAre DEF SetupInv, OwnInv
<1>1. Parallel /\ step[Main] = "none" /\ client # "call" /\ PoolProofs!PoolInv'
    BY WorkerFacts DEF WorkerStep
<1>2. worker[w] = "run"
    BY DEF ReturnToPool, ThreadInv
<1>3. /\ CloseHeld(w) /\ step' = [step EXCEPT ![w] = "none"]
      /\ UNCHANGED <<client, list, pos, wg, hasError, task, loopVars, ns, where, vxlan, bbns>>
      /\ \/ /\ step[w] = "ok" /\ completed' = completed \cup {task[w]}
            /\ worker' = [worker EXCEPT ![w] = "ended"]
         \/ /\ completed' = completed
            /\ worker' = [worker EXCEPT ![w] = "report"]
    BY <1>2 DEF ReturnToPool, Goto, Pool!ClosureReturns, Pool!TaskFails
<1>. USE DEF loopVars, history
<1>4. LinkManagers' = LinkManagers /\ \A u \in Threads : SlotOf(u)' = SlotOf(u)
    BY <1>3 DEF LinkManagers, SlotOf
<1>5. /\ Accounts'
      /\ handle' \in [Handles -> Namespaces \cup {Closed}]
      /\ held' \in [Threads -> Seq(Handles)]
      /\ held'[w] = <<>> /\ \A u \in Threads \ {w} : held'[u] = held[u]
      /\ \A h \in Handles : handle[h] \in RunBackbones => handle'[h] = handle[h]
    BY <1>3, <1>4, CloseHeldKeeps
<1>6. SlotOf(w) = task[w] /\ task[w] \in Slots
    BY <1>2 DEF SlotOf, ThreadInv, HeldInv, HeldOf
<1>7. /\ step'[w] = "none" /\ \A u \in Threads \ {w} : step'[u] = step[u]
      /\ worker'[w] # "run" /\ \A u \in Workers \ {w} : worker'[u] = worker[u]
    BY <1>3 DEF TypeOK
<1>8. TypeOK'
  <2>1. step' \in [Threads -> LinkPlaces] /\ worker' \in [Workers -> Pool!WorkerPlaces]
      BY <1>3 DEF TypeOK, LinkPlaces, Pool!WorkerPlaces
  <2>2. completed' \subseteq Slots
      BY <1>3, <1>6 DEF TypeOK
  <2>. QED  BY <1>3, <1>5, <2>1, <2>2 DEF TypeOK
<1>9. ThreadInv'
  <2>1. \A u \in Workers : step'[u] # "none" <=> worker'[u] = "run"
      BY <1>7 DEF ThreadInv
  <2>2. \A u \in Threads : step'[u] = "none" => held'[u] = <<>>
      BY <1>5, <1>7 DEF ThreadInv
  <2>. QED  BY <1>1, <1>3, <1>7, <2>1, <2>2 DEF ThreadInv
<1>10. HeldInv'
  <2>. SUFFICES ASSUME NEW u \in Threads, u # w PROVE HeldOf(u)'
      BY <1>7 DEF HeldInv, HeldOf
  <2>1. HeldOf(u) /\ SlotOf(u)' = SlotOf(u) /\ step'[u] = step[u] /\ held'[u] = held[u]
      BY <1>4, <1>5, <1>7 DEF HeldInv
  <2>. QED  BY <1>3, <2>1 DEF HeldOf, External, Edge
<1>11. curBackBoneNs # 0 => /\ handle'[curBackBoneNs] = handle[curBackBoneNs]
                            /\ handle[curBackBoneNs] \in RunBackbones
  <2>1. curBackBoneNs # 0 => curBackBoneNs \in Handles
      BY SetupAssumption DEF TypeOK, Handles
  <2>. QED  BY <1>5, <2>1 DEF ManagerInv
<1>12. ManagerInv'
    BY <1>3, <1>5, <1>11 DEF ManagerInv, RunBackbones
<1>13. Handed' = Handed
    BY <1>3 DEF Handed
<1>14. LoopInv' /\ SeqInv' /\ HomeInv'
    BY <1>1, <1>3, <1>13 DEF LoopInv, SeqInv, HomeInv, MoreLinks
<1>15. BuildInv'
  <2>1. ASSUME NEW u \in Threads PROVE BuildOf(u)'
    <3>1. CASE u = w
        BY <1>7, <3>1 DEF BuildOf, Early
    <3>2. CASE u # w
      <4>1. BuildOf(u) /\ SlotOf(u)' = SlotOf(u) /\ step'[u] = step[u]
          BY <1>4, <1>7, <3>2 DEF BuildInv
      <4>. QED  BY <1>3, <4>1 DEF BuildOf, Joined, External, Edge
    <3>. QED  BY <3>1, <3>2
  <2>2. step[w] = "ok" => Joined(task[w])
      BY <1>6 DEF BuildInv, BuildOf
  <2>3. \A s \in completed' : Joined(s)
      BY <1>3, <2>2 DEF BuildInv
  <2>. QED  BY <1>3, <1>13, <2>1, <2>3 DEF BuildInv, Joined, External, Edge
<1>16. ASSUME ~SwitchesUnderTasks PROVE PlaceInv'
  <2>1. PlaceInv
      BY <1>16
  <2>2. ASSUME NEW u \in Threads, step'[u] # "none" PROVE PlaceOf(u)'
    <3>1. /\ PlaceOf(u) /\ SlotOf(u)' = SlotOf(u) /\ step'[u] = step[u]
          /\ curBackBoneNs # 0
        BY <1>4, <1>7, <2>1, <2>2 DEF PlaceInv, PlaceOf
    <3>. QED  BY <1>3, <1>11, <3>1 DEF PlaceOf
  <2>3. \A u \in Threads : PlaceOf(u)'
      BY <2>2 DEF PlaceOf
  <2>4. client = "send" => curBackBoneNs # 0
      BY DEF ManagerInv
  <2>5. client = "enter" => \A u \in Threads : step'[u] = "none"
      BY <1>7, <2>1 DEF PlaceInv
  <2>. QED  BY <1>1, <1>3, <1>11, <2>1, <2>3, <2>4, <2>5 DEF PlaceInv
<1>. QED  BY <1>3, <1>5, <1>8, <1>9, <1>10, <1>12, <1>14, <1>15, <1>16
          DEF SwitchesUnderTasks

LEMMA FinishTaskInv ==
    ASSUME SetupInv, NEW w \in Workers, FinishTask(w) PROVE OwnInv'
<1>. USE ThreadsAre DEF SetupInv, OwnInv
<1>1. Parallel /\ step[Main] = "none" /\ client # "call" /\ PoolProofs!PoolInv'
    BY WorkerFacts DEF WorkerStep
<1>2. /\ worker[w] = "ended" /\ worker' = [worker EXCEPT ![w] = "idle"]
      /\ task' = [task EXCEPT ![w] = Pool!NoTask] /\ ns' = [ns EXCEPT ![w] = Host]
      /\ UNCHANGED <<client, list, pos, hasError, completed, loopVars, handle, where, vxlan,
                     step, bbns, held>>
    BY DEF FinishTask, Pool!Done
<1>. USE DEF loopVars, history
<1>3. /\ step[w] = "none" /\ held[w] = <<>> /\ worker'[w] = "idle" /\ ns'[w] = Host
      /\ \A u \in Workers \ {w} : worker'[u] = worker[u] /\ task'[u] = task[u]
      /\ \A u \in Threads \ {w} : ns'[u] = ns[u]
    BY <1>2 DEF ThreadInv, TypeOK
<1>4. \A u \in Threads \ {w} : SlotOf(u)' = SlotOf(u)
    BY <1>2, <1>3 DEF SlotOf, Threads
<1>5. TypeOK'
  <2>1. wg' \in Nat
      BY <1>1 DEF PoolProofs!PoolInv, PoolProofs!TypeOK
  <2>2. /\ ns' \in [Threads -> Namespaces \cup {Host}]
        /\ worker' \in [Workers -> Pool!WorkerPlaces]
        /\ task' \in [Workers -> Slots \cup {Pool!NoTask}]
      BY <1>2 DEF TypeOK, Pool!WorkerPlaces
  <2>. QED  BY <1>2, <2>1, <2>2 DEF TypeOK
<1>6. Accounts'
  <2>1. LinkManagers' = LinkManagers
      BY <1>2 DEF LinkManagers
  <2>2. \A u \in Threads : held[u] # <<>> => SlotOf(u)' = SlotOf(u)
      BY <1>3, <1>4
  <2>. QED  BY <1>2, <2>1, <2>2, AccountsKept
<1>7. ThreadInv'
    BY <1>1, <1>2, <1>3 DEF ThreadInv
<1>8. HeldInv'
  <2>. SUFFICES ASSUME NEW u \in Threads, u # w PROVE HeldOf(u)'
      BY <1>2, <1>3 DEF HeldInv, HeldOf
  <2>1. HeldOf(u) /\ SlotOf(u)' = SlotOf(u) /\ ns'[u] = ns[u]
      BY <1>3, <1>4 DEF HeldInv
  <2>. QED  BY <1>2, <2>1 DEF HeldOf, External, Edge
<1>9. Handed' = Handed
    BY <1>2 DEF Handed
<1>10. ManagerInv' /\ LoopInv' /\ SeqInv'
    BY <1>1, <1>2, <1>3, <1>9 DEF ManagerInv, RunBackbones, LoopInv, SeqInv, MoreLinks
<1>11. BuildInv'
  <2>1. ASSUME NEW u \in Threads PROVE BuildOf(u)'
    <3>1. CASE u = w
        BY <1>2, <1>3, <3>1 DEF BuildOf, Early
    <3>2. CASE u # w
      <4>1. BuildOf(u) /\ SlotOf(u)' = SlotOf(u)
          BY <1>4, <3>2 DEF BuildInv
      <4>. QED  BY <1>2, <4>1 DEF BuildOf, Joined, External, Edge
    <3>. QED  BY <3>1, <3>2
  <2>. QED  BY <1>2, <1>9, <2>1 DEF BuildInv, Joined, External, Edge
<1>12. HomeInv'
    BY <1>2, <1>3 DEF HomeInv
<1>13. ASSUME ~SwitchesUnderTasks PROVE PlaceInv'
  <2>1. PlaceInv
      BY <1>13
  <2>2. ASSUME NEW u \in Threads, step[u] # "none" PROVE PlaceOf(u)'
    <3>1. PlaceOf(u) /\ SlotOf(u)' = SlotOf(u) /\ ns'[u] = ns[u]
        BY <1>3, <1>4, <2>1, <2>2 DEF PlaceInv
    <3>. QED  BY <1>2, <3>1 DEF PlaceOf
  <2>3. \A u \in Threads : PlaceOf(u)'
      BY <1>2, <2>2 DEF PlaceOf
  <2>. QED  BY <1>1, <1>2, <2>1, <2>3 DEF PlaceInv
<1>. QED  BY <1>2, <1>5, <1>6, <1>7, <1>8, <1>10, <1>11, <1>12, <1>13
          DEF SwitchesUnderTasks

-----------------------------------------------------------------------------
(* The invariant is inductive. *)

LEMMA LinkStepInv ==
    ASSUME SetupInv, NEW t \in Threads, LinkStep(t) PROVE OwnInv'
<1>. QED  BY EnterTaskInv, ReadBackBoneNsInv, OpenNodeNsInv, CreateLinkInv, CreateVxlanInv,
             MoveVxlanInv, AttachVxlanInv, SetNetNsBackInv DEF LinkStep

LEMMA LoopStepInv == ASSUME SetupInv, LoopStep PROVE OwnInv'
<1>1. WaitReturns => Parallel
    BY DEF WaitReturns, history, Pool!WaitReturns, SetupInv, OwnInv, SeqInv
<1>. QED  BY <1>1, SetupNodeInv, SetupBbNsInv, EnterBbNsInv, SwitchBbNsInv, SubmitLinkInv,
             CallSetupLinkInv, EndOfListInv, WaitReturnsInv, ReturnInv, ReturnToLoopInv
          DEF LoopStep

LEMMA WorkerStepInv ==
    ASSUME SetupInv, NEW w \in Workers, WorkerStep(w) PROVE OwnInv'
<1>. QED  BY StartWorkerInv, ReceiveTaskInv, ReturnToPoolInv, FinishTaskInv DEF WorkerStep

\* A step that changes nothing keeps what the state satisfies.
LEMMA StutterInv == ASSUME SetupInv, UNCHANGED vars PROVE OwnInv'
<1>. USE DEF SetupInv, OwnInv
<1>1. /\ UNCHANGED <<client, list, pos, wg, hasError, worker, task, completed>>
      /\ UNCHANGED <<backBoneNum, nodeNum, curLinkNum, curBbnsIndex, curBackBoneNum,
                     curBackBoneNs, assigned, dropped>>
      /\ UNCHANGED <<handle, ns, where, vxlan, step, bbns, held>>
    BY DEF vars, poolVars, loopVars, history, linkVars
<1>2. TypeOK'
    BY <1>1 DEF TypeOK
<1>3. Accounts'
  <2>1. LinkManagers' = LinkManagers /\ \A t \in Threads : SlotOf(t)' = SlotOf(t)
      BY <1>1 DEF LinkManagers, SlotOf
  <2>. QED  BY <1>1, <2>1, AccountsKept
<1>4. Handed' = Handed
    BY <1>1 DEF Handed
<1>5. ThreadInv' /\ HeldInv' /\ ManagerInv'
    BY <1>1 DEF ThreadInv, HeldInv, HeldOf, ManagerInv, SlotOf, External, Edge, RunBackbones
<1>6. LoopInv' /\ SeqInv' /\ HomeInv'
    BY <1>1, <1>4 DEF LoopInv, SeqInv, HomeInv, MoreLinks
<1>7. BuildInv'
    BY <1>1, <1>4 DEF BuildInv, BuildOf, Joined, SlotOf, External, Edge
<1>8. ASSUME ~SwitchesUnderTasks PROVE PlaceInv'
    BY <1>1, <1>8 DEF PlaceInv, PlaceOf, SlotOf
<1>. QED  BY <1>1, <1>2, <1>3, <1>5, <1>6, <1>7, <1>8 DEF SwitchesUnderTasks

\* Only the steps that create or enter a backbone namespace drop a handle, one
\* each; no other step closes one that is dropped or hands it to anybody.
LEMMA NextDroppedInv ==
    ASSUME SetupInv, [Next]_vars, TypeOK' PROVE DroppedInv'
<1>. USE ThreadsAre DEF SetupInv, OwnInv
<1>1. /\ dropped \subseteq Handles /\ IsFiniteSet(dropped) /\ Cardinality(dropped) \in Nat
      /\ curBackBoneNum \in Nat
  <2>1. IsFiniteSet(Handles)
      BY SetupAssumption, FS_Interval DEF Handles
  <2>2. backBoneNum \in Nat
      BY SetupAssumption DEF TypeOK
  <2>3. dropped \subseteq Handles /\ IsFiniteSet(dropped)
      BY <2>1, FS_Subset DEF TypeOK
  <2>4. Cardinality(dropped) \in Nat
      BY <2>3, FS_CardinalityType
  <2>. QED  BY <2>2, <2>3, <2>4 DEF TypeOK
<1>2. \A h \in dropped : handle[h] # Closed /\ IsBbNs(handle[h]) /\ h \notin LinkManagers
    BY DEF DroppedInv, DroppedApart, IsBbNs, Closed
<1>3. CASE SetupBbNs \/ EnterBbNs
  <2>1. \/ UNCHANGED <<handle, dropped>> /\ LinkManagers' = LinkManagers
        \/ /\ HandleFree /\ \E k : handle' = [handle EXCEPT ![LowestFree] = BbNs(k)]
           /\ \/ dropped' = dropped /\ LinkManagers' = LinkManagers \cup {LowestFree}
              \/ dropped' = dropped \cup {LowestFree} /\ LinkManagers' = LinkManagers
      BY <1>3 DEF SetupBbNs, CreateBbNs, EnterBbNs, LinkManagers, TypeOK
  <2>2. LowestFree \in LinkManagers /\ HandleFree => LowestFree = 0
    <3>1. client # "enter"
        BY <1>3 DEF SetupBbNs, EnterBbNs
    <3>2. HandleFree => handle[LowestFree] = Closed
        BY LowestFreeIsFree
    <3>. QED  BY <3>1, <3>2 DEF LinkManagers, ManagerInv, RunBackbones, BbNs, Closed
  <2>3. HandleFree => /\ LowestFree \in Handles /\ LowestFree # 0
                      /\ LowestFree \notin dropped /\ LowestFree \notin LinkManagers
      BY <1>2, <2>2, LowestFreeIsFree, SetupAssumption DEF Handles
  <2>4. DroppedApart'
    <3>1. CASE UNCHANGED <<handle, dropped>> /\ LinkManagers' = LinkManagers
        BY <1>2, <3>1 DEF DroppedApart, IsBbNs
    <3>2. ASSUME HandleFree, NEW k, handle' = [handle EXCEPT ![LowestFree] = BbNs(k)],
                 \/ dropped' = dropped /\ LinkManagers' = LinkManagers \cup {LowestFree}
                 \/ dropped' = dropped \cup {LowestFree} /\ LinkManagers' = LinkManagers
          PROVE  DroppedApart'
      <4>1. BbNs(k)[1] = "bbns"
          BY DEF BbNs
      <4>2. handle'[LowestFree] = BbNs(k)
            /\ \A h \in Handles \ {LowestFree} : handle'[h] = handle[h]
          BY <2>3, <3>2 DEF TypeOK
      <4>3. dropped \subseteq Handles \ {LowestFree}
          BY <1>1, <2>3, <3>2
      <4>. QED  BY <1>2, <2>3, <3>2, <4>1, <4>2, <4>3 DEF DroppedApart, IsBbNs
    <3>. QED  BY <2>1, <3>1, <3>2
  <2>5. IsFiniteSet(dropped \cup {LowestFree})
        /\ Cardinality(dropped \cup {LowestFree}) <= Cardinality(dropped) + 1
    <3>1. /\ IsFiniteSet(dropped \cup {LowestFree})
          /\ \/ Cardinality(dropped \cup {LowestFree}) = Cardinality(dropped)
             \/ Cardinality(dropped \cup {LowestFree}) = Cardinality(dropped) + 1
        BY <1>1, FS_AddElement
    <3>. QED  BY <1>1, <3>1
  <2>6. /\ client # "failed"
        /\ \/ dropped' = dropped /\ curBackBoneNum' >= curBackBoneNum
           \/ /\ dropped' = dropped \cup {LowestFree}
              /\ \/ curBackBoneNum' = curBackBoneNum + 1
                 \/ curBackBoneNum' = curBackBoneNum /\ client' = "failed"
      BY <1>1, <1>3 DEF SetupBbNs, CreateBbNs, EnterBbNs
  <2>7. curBackBoneNum' \in Nat
      BY <1>1, <2>6, <1>3 DEF SetupBbNs, CreateBbNs, EnterBbNs
  <2>8. Cardinality(dropped) <= curBackBoneNum /\ Cardinality(dropped') \in Int
    <3>1. IsFiniteSet(dropped')
        BY <1>1, <2>5, <2>6
    <3>2. Cardinality(dropped') \in Nat
        BY <3>1, FS_CardinalityType
    <3>3. Cardinality(dropped) <= curBackBoneNum
        BY <1>1, <2>6 DEF DroppedInv, DroppedFew
    <3>. QED  BY <3>2, <3>3
  <2>9. DroppedFew'
    <3>1. CASE dropped' = dropped /\ curBackBoneNum' >= curBackBoneNum
        BY <1>1, <2>7, <2>8, <3>1 DEF DroppedFew
    <3>2. CASE dropped' = dropped \cup {LowestFree}
      <4>1. Cardinality(dropped') <= Cardinality(dropped) + 1
          BY <2>5, <3>2
      <4>2. \/ curBackBoneNum' = curBackBoneNum + 1
            \/ curBackBoneNum' = curBackBoneNum /\ client' = "failed"
            \/ dropped' = dropped /\ curBackBoneNum' >= curBackBoneNum
          BY <2>6
      <4> DEFINE now == Cardinality(dropped')
                 was == Cardinality(dropped)
      <4>3. /\ now <= was + 1 /\ was <= curBackBoneNum /\ now \in Int /\ was \in Int
            /\ curBackBoneNum \in Int /\ curBackBoneNum' \in Int
          BY <1>1, <2>7, <2>8, <4>1
      <4> HIDE DEF now, was
      <4>4. CASE curBackBoneNum' = curBackBoneNum + 1
        <5>1. now <= curBackBoneNum'
            BY <4>3, <4>4
        <5>. QED  BY <4>3, <5>1 DEF DroppedFew, now
      <4>5. CASE curBackBoneNum' = curBackBoneNum /\ client' = "failed"
        <5>1. now <= curBackBoneNum' + 1
            BY <4>3, <4>5
        <5>. QED  BY <4>5, <5>1 DEF DroppedFew, now
      <4>. QED  BY <3>1, <4>2, <4>4, <4>5
    <3>. QED  BY <2>6, <3>1, <3>2
  <2>. QED  BY <2>4, <2>9 DEF DroppedInv
<1>4. CASE SwitchBbNs
  <2>1. /\ dropped' = dropped /\ LinkManagers' \subseteq LinkManagers
        /\ curBackBoneNs \in LinkManagers /\ UNCHANGED curBackBoneNum
        /\ client # "failed" /\ client' # "failed"
        /\ \A h \in Handles \ {curBackBoneNs} : handle'[h] = handle[h]
      BY <1>4 DEF SwitchBbNs, LinkManagers, history
  <2>. QED  BY <1>1, <1>2, <2>1 DEF DroppedInv, DroppedApart, DroppedFew
<1>5. ASSUME /\ dropped' = dropped /\ UNCHANGED curBackBoneNum
             /\ client = "failed" => client' = "failed"
             /\ LinkManagers' = LinkManagers
             /\ \A h \in dropped : handle'[h] = handle[h]
      PROVE  DroppedInv'
    BY <1>1, <1>5 DEF DroppedInv, DroppedApart, DroppedFew
<1>6. CASE \/ SetupNode \/ SubmitLink \/ CallSetupLink \/ EndOfList
           \/ WaitReturns \/ Return \/ Terminated \/ UNCHANGED vars
           \/ \E w \in Workers : StartWorker(w) \/ ReceiveTask(w) \/ FinishTask(w)
  <2>1. /\ UNCHANGED <<dropped, curBackBoneNum, curBackBoneNs, handle>>
        /\ client = "failed" => client' = "failed"
        /\ (client # "enter" /\ client' # "enter") \/ UNCHANGED <<client, bbns>>
      BY <1>6 DEF SetupNode, SubmitLink, CallSetupLink, EndOfList, WaitReturns, Return,
                  Terminated, vars, poolVars, loopVars, history, linkVars, StartWorker,
                  ReceiveTask, FinishTask, Placed, Pool!WaitReturns, Pool!EndOfList
  <2>2. LinkManagers' = LinkManagers
      BY <2>1 DEF LinkManagers
  <2>. QED  BY <1>5, <2>1, <2>2
<1>7. ASSUME NEW t \in Threads, CloseHeld(t)
      PROVE  \A h \in dropped : handle'[h] = handle[h]
  <2>1. \A h \in Mine(t) : ~IsBbNs(handle[h])
      BY MineAreNodes
  <2>2. \A h \in dropped : h \notin Mine(t)
      BY <1>2, <2>1
  <2>. QED  BY <1>1, <1>7, <2>2 DEF CloseHeld, Mine
<1>8. CASE ReturnToLoop
  <2>1. /\ UNCHANGED <<dropped, curBackBoneNum, curBackBoneNs, bbns>>
        /\ CloseHeld(Main) /\ client = "call" /\ client' # "enter"
      BY <1>8 DEF ReturnToLoop, history, ThreadInv
  <2>2. LinkManagers' = LinkManagers
      BY <2>1 DEF LinkManagers
  <2>. QED  BY <1>5, <1>7, <2>1, <2>2
<1>9. ASSUME NEW w \in Workers, ReturnToPool(w) PROVE DroppedInv'
  <2>1. UNCHANGED <<dropped, curBackBoneNum, curBackBoneNs, bbns, client>> /\ CloseHeld(w)
      BY <1>9 DEF ReturnToPool, loopVars, history
  <2>2. LinkManagers' = LinkManagers
      BY <2>1 DEF LinkManagers
  <2>. QED  BY <1>5, <1>7, <2>1, <2>2
<1>10. ASSUME NEW t \in Threads, LinkStep(t) PROVE DroppedInv'
  <2>1. /\ UNCHANGED <<poolVars, loopVars>> /\ step[t] # "none"
        /\ \A u \in Threads \ {t} : bbns'[u] = bbns[u]
        /\ \A h \in Handles : handle[h] # Closed => handle'[h] = handle[h]
      BY <1>10, LinkStepFrame
  <2>2. UNCHANGED <<dropped, curBackBoneNum, curBackBoneNs, client>>
      BY <2>1 DEF poolVars, loopVars, history
  <2>3. LinkManagers' = LinkManagers
      BY <2>1, <2>2 DEF LinkManagers, ThreadInv
  <2>. QED  BY <1>1, <1>2, <1>5, <2>1, <2>2, <2>3
<1>. QED  BY <1>3, <1>4, <1>6, <1>8, <1>9, <1>10 DEF Next, LoopStep, WorkerStep

LEMMA NextSetupInv == SetupInv /\ [Next]_vars => SetupInv'
<1>. SUFFICES ASSUME SetupInv, [Next]_vars PROVE SetupInv'
    OBVIOUS
<1>1. OwnInv'
    BY LinkStepInv, LoopStepInv, WorkerStepInv, StutterInv DEF Next, Terminated
<1>2. ParInv'
  <2>1. Parallel => [Pool!Next]_(Pool!vars)
      BY PoolStep DEF SetupInv, OwnInv
  <2>. QED  BY <2>1, PoolPreserved DEF SetupInv, ParInv, Parallel
<1>3. DroppedInv'
    BY <1>1, NextDroppedInv DEF OwnInv
<1>. QED  BY <1>1, <1>2, <1>3 DEF SetupInv

\* The invariant holds in every reachable state, whether the set-up is
\* sequential or parallel and whatever fails in it.
THEOREM SetupInvariant == Spec => []SetupInv
<1>. QED  BY InitSetupInv, NextSetupInv, PTL DEF Spec

-----------------------------------------------------------------------------
(* The properties. *)

\* Type correctness of NetworkSetup, its threads, the namespaces and the table
\* of handles.
THEOREM TypeCorrect == Spec => []TypeOK
<1>1. SetupInv => TypeOK
    BY DEF SetupInv, OwnInv
<1>. QED  BY <1>1, SetupInvariant, PTL

\* A node handle stays its thread's own until that thread closes it, and the
\* handles the program loses are one for each backbone namespace created and
\* one for an entry that failed, however many links there are and also when
\* opens fail at the limit (ntlBrManager.go:58, 67-94, 263-283).
THEOREM HandlesAreAccounted == Spec => []HandlesAccounted
<1>1. SetupInv => HandlesAccounted
    BY AccountsAre DEF SetupInv, OwnInv, DroppedInv
<1>. QED  BY <1>1, SetupInvariant, PTL

\* The two promises about the place of a link follow from the invariant.
LEMMA PlaceInvSays == SetupInv /\ PlaceInv => CalledInBbNs /\ LinksWhereAssigned
<1>. SUFFICES ASSUME SetupInv, PlaceInv PROVE CalledInBbNs /\ LinksWhereAssigned
    OBVIOUS
<1>. USE DEF SetupInv, OwnInv
<1>1. ASSUME NEW t \in Threads, step[t] = "read" PROVE IsBbNs(ns[t])
  <2>1. curBackBoneNs # 0 /\ ns[t] = handle[curBackBoneNs]
      BY <1>1 DEF PlaceInv, PlaceOf
  <2>2. ns[t] \in RunBackbones
      BY <2>1 DEF ManagerInv
  <2>. QED  BY <2>2 DEF RunBackbones, BbNs, IsBbNs
<1>2. ASSUME NEW s \in Slots
      PROVE  /\ where[s] \in {Nowhere, assigned[s]}
             /\ s \in completed => where[s] # Nowhere /\ (External(s) => vxlan[s] = where[s])
    BY DEF PlaceInv, BuildInv, Joined
<1>. QED  BY <1>1, <1>2 DEF CalledInBbNs, LinksWhereAssigned

\* SetupLink is called in a backbone namespace and every link is built where
\* the loop was when it came to it, in every interleaving of the workers,
\* unless several backbone namespaces meet a pool (ntlBrManager.go:193,334,
\* netManage.go:121).
THEOREM LinksArePlaced == Spec => []PlacedUnlessSwitched
<1>1. SetupInv => PlacedUnlessSwitched
    BY PlaceInvSays DEF SetupInv, OwnInv, PlacedUnlessSwitched
<1>. QED  BY <1>1, SetupInvariant, PTL

\* A sequential set-up builds every link where it was assigned, whatever the
\* number of backbone namespaces (netManage.go:104-147).
THEOREM SequentialPlacement ==
    ASSUME Workers = {} PROVE Spec => []LinksWhereAssigned
<1>1. SetupInv => LinksWhereAssigned
    BY PlaceInvSays DEF SetupInv, OwnInv, SwitchesUnderTasks, Parallel
<1>. QED  BY <1>1, SetupInvariant, PTL

\* So does a set-up with one backbone namespace, whatever the number of
\* workers.
THEOREM SingleNamespacePlacement ==
    ASSUME BackBoneNums = {1} PROVE Spec => []LinksWhereAssigned
<1>1. SetupInv => ~SwitchesUnderTasks
    BY DEF SetupInv, OwnInv, TypeOK, SwitchesUnderTasks
<1>2. SetupInv => LinksWhereAssigned
    BY <1>1, PlaceInvSays DEF SetupInv, OwnInv
<1>. QED  BY <1>2, SetupInvariant, PTL

\* NetworkSetup is past the last list only when every link is built.
LEMMA ReturnsWhenBuilt ==
    ASSUME SetupInv, ~Parallel, list > Len(EdgeOrder)
    PROVE  completed = Slots
<1>. USE DEF SetupInv, OwnInv
<1>1. completed = Handed
    BY DEF SeqInv
<1>2. ASSUME NEW s \in Slots PROVE s[1] < list
  <2>1. s[1] \in 1..Len(EdgeOrder) /\ Len(EdgeOrder) \in Nat /\ list \in Int
      BY SlotsAre DEF TypeOK
  <2>. QED  BY <2>1
<1>. QED  BY <1>1, <1>2 DEF Handed

\* When NetworkSetup returns nil, the main thread and the workers are back in
\* their own namespace, every link is built and no VXLAN device is left in the
\* host namespace (netManage.go:165-176, threadPool.go:44-47).
THEOREM SuccessIsClean == Spec => []CleanSuccess
<1>1. ASSUME SetupInv, client = "returned"
      PROVE  completed = Slots /\ \A w \in Workers : task[w] = Pool!NoTask
  <2>. USE <1>1 DEF SetupInv, OwnInv
  <2>1. CASE Parallel
      BY <2>1, PoolFacts DEF ParInv
  <2>2. CASE ~Parallel
      BY <2>2, ReturnsWhenBuilt DEF LoopInv, Parallel
  <2>. QED  BY <2>1, <2>2
<1>2. SetupInv => CleanSuccess
  <2>. SUFFICES ASSUME SetupInv, client = "returned"
                PROVE  /\ ns[Main] = Host /\ completed = Slots
                       /\ \A s \in Slots : vxlan[s] # Host
                       /\ \A w \in Workers : task[w] = Pool!NoTask /\ ns[w] = Host
      BY DEF CleanSuccess
  <2>. USE DEF SetupInv, OwnInv
  <2>1. ns[Main] = Host
      BY DEF LoopInv
  <2>2. \A s \in Slots : vxlan[s] # Host
    <3>. SUFFICES ASSUME NEW s \in Slots PROVE vxlan[s] # Host
        OBVIOUS
    <3>1. where[s] \in Namespaces \cup {Nowhere} /\ Joined(s)
        BY <1>1 DEF TypeOK, BuildInv
    <3>2. Nowhere # Host
        BY DEF Nowhere, Host
    <3>. QED  BY <3>1, <3>2, NamespacesAre DEF Joined, BuildInv
  <2>3. \A w \in Workers : ns[w] = Host
      BY <1>1 DEF HomeInv
  <2>. QED  BY <1>1, <2>1, <2>2, <2>3
<1>. QED  BY <1>2, SetupInvariant, PTL

-----------------------------------------------------------------------------
(* The parallel set-up implements ThreadPool. *)

\* Every behaviour of a parallel set-up is one that ThreadPool allows: the
\* namespaces entered in between and the tasks, which are SetupLink, are
\* steps of the pool or none of it (netManage.go:104-163).
THEOREM ImplementsPool == ASSUME Workers # {} PROVE Spec => UsesPool
<1>1. Init => Pool!Init
    BY DEF Init, Pool!Init
<1>2. SetupInv /\ [Next]_vars => [Pool!Next]_(Pool!vars)
    BY PoolStep DEF Parallel
<1>. QED  BY <1>1, <1>2, SetupInvariant, PTL DEF Spec, UsesPool, Pool!SafetySpec

-----------------------------------------------------------------------------
(* The sequential set-up implements VirtualNetwork. *)

\* The status that NetworkSetup reports.
Status == CASE client = "returned" -> "ready"
            [] client = "failed" -> "failed"
            [] OTHER -> "building"

LEMMA StatusIs ==
    /\ client = "returned" => Status = "ready"
    /\ client = "failed" => Status = "failed"
    /\ client \notin {"returned", "failed"} => Status = "building"
<1>. QED  BY DEF Status

\* Where a sequential set-up is when SetupLink builds, and what it builds.
LEMMA SequentialLink ==
    ASSUME SetupInv, ~Parallel, NEW t \in Threads, step[t] \in {"create", "attach"}
    PROVE  /\ client = "call" /\ SlotOf(t) \in Slots /\ where[SlotOf(t)] = Nowhere
           /\ handle[curBackBoneNs] \in RunBackbones
           /\ step[t] = "create" => ns[t] = handle[curBackBoneNs]
           /\ step[t] = "attach" => bbns[t] = curBackBoneNs
<1>. USE DEF SetupInv, OwnInv
<1>1. t = Main /\ client = "call"
    BY DEF Threads, Parallel, ThreadInv
<1>2. PlaceOf(t)
    BY DEF SwitchesUnderTasks, PlaceInv
<1>3. SlotOf(t) \in Slots /\ where[SlotOf(t)] = Nowhere
    BY DEF HeldInv, HeldOf, BuildInv, BuildOf, Early
<1>4. curBackBoneNs # 0 => handle[curBackBoneNs] \in RunBackbones
    BY DEF ManagerInv
<1>. QED  BY <1>1, <1>2, <1>3, <1>4 DEF PlaceOf

\* A step of a sequential set-up builds one link in a backbone namespace,
\* reports the end, or changes nothing that VirtualNetwork sees.
LEMMA BuildStep ==
    ASSUME SetupInv, ~Parallel, [Next]_vars
    PROVE  \/ /\ Status = "building" /\ Status' = Status
              /\ \E s \in Slots, b \in RunBackbones :
                     where[s] = Nowhere /\ where' = [where EXCEPT ![s] = b]
           \/ /\ Status = "building" /\ Status' = "ready" /\ where' = where
              /\ \A s \in Slots : where[s] # Nowhere
           \/ Status = "building" /\ Status' = "failed" /\ where' = where
           \/ UNCHANGED <<where, Status>>
<1>. USE DEF SetupInv, OwnInv
<1>1. /\ client' = "returned" => Status' = "ready"
      /\ client' = "failed" => Status' = "failed"
      /\ client' \notin {"returned", "failed"} => Status' = "building"
    BY DEF Status
<1>2. CASE LoopStep
  <2>. USE DEF loopVars, history, linkVars
  <2>1. client \notin {"returned", "failed"} /\ where' = where
      BY <1>2 DEF LoopStep, SetupNode, SetupBbNs, EnterBbNs, SwitchBbNs, SubmitLink,
                  CallSetupLink, EndOfList, WaitReturns, Return, ReturnToLoop, history, Placed,
                  Pool!WaitReturns, ThreadInv
  <2>2. CASE Return
    <3>1. ASSUME NEW s \in Slots PROVE where[s] # Nowhere
        BY <2>2, ReturnsWhenBuilt DEF Return, SeqInv, BuildInv, Joined
    <3>. QED  BY <1>1, <2>1, <2>2, <3>1, StatusIs DEF Return
  <2>3. CASE ~Return
    <3>1. client' # "returned"
        BY <1>2, <2>1, <2>3
           DEF LoopStep, SetupNode, SetupBbNs, EnterBbNs, SwitchBbNs, SubmitLink,
               CallSetupLink, EndOfList, WaitReturns, ReturnToLoop, history
    <3>. QED  BY <1>1, <2>1, <3>1, StatusIs
  <2>. QED  BY <2>2, <2>3
<1>3. ASSUME NEW t \in Threads, LinkStep(t)
      PROVE  \/ /\ Status = "building" /\ Status' = Status
                /\ \E s \in Slots, b \in RunBackbones :
                       where[s] = Nowhere /\ where' = [where EXCEPT ![s] = b]
             \/ UNCHANGED <<where, Status>>
  <2>1. UNCHANGED client
      BY <1>3 DEF LinkStep, EnterTask, ReadBackBoneNs, OpenNodeNs, CreateLink, CreateVxlan,
                  MoveVxlan, AttachVxlan, SetNetNsBack, InLink, poolVars
  <2>2. UNCHANGED Status
      BY <2>1 DEF Status
  <2>3. CASE where' = where
      BY <2>2, <2>3
  <2>4. CASE where' # where
    <3>1. step[t] \in {"create", "attach"}
          /\ where' = [where EXCEPT ![SlotOf(t)] =
                           IF step[t] = "create" THEN ns[t] ELSE handle[bbns[t]]]
        BY <1>3, <2>4
           DEF LinkStep, EnterTask, ReadBackBoneNs, OpenNodeNs, CreateLink, CreateVxlan,
               MoveVxlan, AttachVxlan, SetNetNsBack
    <3>2. where' = [where EXCEPT ![SlotOf(t)] = handle[curBackBoneNs]]
        BY <3>1, SequentialLink
    <3>. QED  BY <2>2, <3>1, <3>2, SequentialLink, StatusIs
  <2>. QED  BY <2>3, <2>4
<1>4. ~(\E w \in Workers : WorkerStep(w))
    BY DEF Parallel
<1>5. CASE UNCHANGED vars
    BY <1>5 DEF vars, poolVars, linkVars, Status
<1>. QED  BY <1>2, <1>3, <1>4, <1>5 DEF Next, Terminated

\* A sequential set-up implements VirtualNetwork: it builds every link once,
\* in a backbone namespace of the run, touches none again, and reports success
\* only when all are built (ntlBrManager.go:160-262, netManage.go:104-176).
THEOREM ImplementsVirtualNetwork ==
    ASSUME Workers = {} PROVE Spec => BuildsVirtualNetwork
<1>1. Init => Built!Init
    BY DEF Init, Built!Init
<1>2. SetupInv /\ [Next]_vars => [Built!Next]_<<where, Status>>
  <2>. SUFFICES ASSUME SetupInv, [Next]_vars PROVE [Built!Next]_<<where, Status>>
      OBVIOUS
  <2>1. RunBackbones \subseteq UNION {{BbNs(k) : k \in 0..(b - 1)} : b \in BackBoneNums}
      BY DEF SetupInv, OwnInv, TypeOK, RunBackbones
  <2>2. ~Parallel
      BY DEF Parallel
  <2>3. ASSUME Status = "building", Status' = Status,
               NEW s \in Slots, NEW b \in RunBackbones,
               where[s] = Nowhere, where' = [where EXCEPT ![s] = b]
        PROVE  Built!Next
    <3>1. Built!Build(s, b)
        BY <2>3 DEF Built!Build, Status
    <3>. QED  BY <2>1, <3>1 DEF Built!Next
  <2>4. ASSUME Status = "building", Status' = "ready", where' = where,
               \A s \in Slots : where[s] # Nowhere
        PROVE  Built!Next
      BY <2>4 DEF Built!Next, Built!Succeed, Status
  <2>5. ASSUME Status = "building", Status' = "failed", where' = where
        PROVE  Built!Next
      BY <2>5 DEF Built!Next, Built!Fail, Status
  <2>. QED  BY <2>2, <2>3, <2>4, <2>5, BuildStep
<1>. QED  BY <1>1, <1>2, SetupInvariant, PTL
          DEF Spec, BuildsVirtualNetwork, Built!Safety, Status

-----------------------------------------------------------------------------
(* The shares of the backbone namespaces, when one list holds all the links. *)

\* The node order puts every link in the list of node n (NaiveOrder: the last).
OneList(n) == /\ n \in 1..Len(EdgeOrder)
              /\ \A i \in 1..Len(EdgeOrder) : i # n => Len(EdgeOrder[i]) = 0

\* The links before the share of namespace k.
Before(k) == k * LinkPerBackBoneNs

\* Namespace curBbnsIndex - 1 is the current one, and the loop is inside its
\* share; every link assigned so far is in the share of its namespace.
ShareInv(n) ==
    /\ list < n => curBbnsIndex = 0 /\ curLinkNum = 0
    /\ list = n /\ curBbnsIndex > 0 =>
           curBackBoneNs # 0 /\ handle[curBackBoneNs] = BbNs(curBbnsIndex - 1)
    /\ list = n => curLinkNum = pos
    /\ list = n /\ client \in {"nodes", "bbns", "loop"} =>
           /\ pos <= Before(curBbnsIndex)
           /\ IF curBbnsIndex > 0 THEN Before(curBbnsIndex - 1) < pos ELSE pos = 0
    /\ client = "enter" => /\ pos = Before(curBbnsIndex)
                           /\ handle[bbns[Main]] = BbNs(curBbnsIndex)
    /\ client \in {"entered", "send", "call"} =>
           curBbnsIndex > 0 /\ Before(curBbnsIndex - 1) <= pos /\ pos < Before(curBbnsIndex)
    /\ \A s \in Slots, k \in Nat :
           assigned[s] = BbNs(k) => Before(k) < s[2] /\ s[2] <= Before(k + 1)

\* A multiple of d above (k - 1) * d and up to k * d is k * d.
LEMMA LastMultiple ==
    ASSUME NEW d \in Nat \ {0}, NEW x \in Nat, NEW k \in Nat,
           (k - 1) * d < x, x <= k * d
    PROVE  x % d = 0 <=> x = k * d
<1> DEFINE q == x \div d
           r == x % d
<1>1. q \in Int /\ r \in 0..(d - 1) /\ x = d * q + r
    OBVIOUS
<1> HIDE DEF q, r
<1>2. CASE q >= k
  <2>1. d * q >= d * k /\ d * k = k * d
      BY <1>1, <1>2
  <2>. QED  BY <1>1, <2>1
<1>3. CASE q <= k - 1
  <2>1. d * q <= d * (k - 1) /\ d * (k - 1) = (k - 1) * d /\ (k - 1) * d = k * d - d
      BY <1>1, <1>3
  <2>. QED  BY <1>1, <2>1
<1>4. QED  BY <1>1, <1>2, <1>3 DEF r

LEMMA BeforeIs ==
    ASSUME TypeOK
    PROVE  /\ LinkPerBackBoneNs \in Nat /\ Before(0) = 0
           /\ \A k \in Nat : Before(k) \in Nat /\ Before(k + 1) = Before(k) + LinkPerBackBoneNs
<1>1. LinkPerBackBoneNs \in Nat
  <2>1. backBoneNum \in Nat \ {0} /\ EdgeNum \in Nat
      BY SetupAssumption, SlotsAre DEF TypeOK
  <2> DEFINE m == EdgeNum + backBoneNum - 1
  <2>2. m \in Nat
      BY <2>1
  <2>3. m \div backBoneNum \in Nat
    <3> HIDE DEF m
    <3>. QED  BY <2>1, <2>2
  <2>. QED  BY <2>3 DEF LinkPerBackBoneNs
<1>2. ASSUME NEW d \in Nat, NEW k \in Nat
      PROVE  0 * d = 0 /\ k * d \in Nat /\ (k + 1) * d = k * d + d
    OBVIOUS
<1>. QED  BY <1>1, <1>2 DEF Before

\* In the middle of the lists the loop is on list n, and a boundary is where
\* the current share is used up.
LEMMA BoundaryIs ==
    ASSUME SetupInv, NEW n, OneList(n), ShareInv(n), MoreLinks
    PROVE  /\ list = n /\ curLinkNum = pos /\ pos \in Nat /\ LinkPerBackBoneNs > 0
           /\ client = "loop" => (Boundary <=> pos = Before(curBbnsIndex))
<1>1. list \in 1..Len(EdgeOrder) /\ pos \in Nat /\ curBbnsIndex \in Nat
      /\ backBoneNum \in BackBoneNums /\ backBoneNum \in Nat
    BY SetupAssumption, SlotsAre DEF SetupInv, OwnInv, TypeOK, MoreLinks
<1>2. list = n
    BY <1>1 DEF OneList, MoreLinks
<1>3. EdgeNum > 0
  <2>1. curLinkNum \in Nat /\ EdgeNum \in Nat /\ curLinkNum < EdgeNum
      BY NextSlot, CountBelow, SlotsAre DEF SetupInv, OwnInv, LoopInv
  <2>. QED  BY <2>1
<1>4. LinkPerBackBoneNs \in Nat \ {0} /\ LinkPerBackBoneNs > 0
    BY <1>1, <1>3, ShareType
<1>5. ASSUME client = "loop" PROVE Boundary <=> pos = Before(curBbnsIndex)
  <2>1. Boundary <=> pos % LinkPerBackBoneNs = 0
      BY <1>2 DEF ShareInv, Boundary
  <2>2. CASE curBbnsIndex > 0
    <3>1. (curBbnsIndex - 1) * LinkPerBackBoneNs < pos /\ pos <= curBbnsIndex * LinkPerBackBoneNs
        BY <1>2, <1>5, <2>2 DEF ShareInv, Before
    <3>2. pos % LinkPerBackBoneNs = 0 <=> pos = curBbnsIndex * LinkPerBackBoneNs
      <4> HIDE DEF LinkPerBackBoneNs
      <4>. QED  BY <1>1, <1>4, <3>1, LastMultiple
    <3>. QED  BY <2>1, <3>2 DEF Before
  <2>3. CASE ~(curBbnsIndex > 0)
    <3>1. curBbnsIndex = 0 /\ pos = 0
        BY <1>1, <1>2, <1>5, <2>3 DEF ShareInv
    <3>2. pos % LinkPerBackBoneNs = 0
        BY <1>4, <3>1
    <3>3. pos = Before(curBbnsIndex)
        BY <3>1, BeforeIs DEF SetupInv, OwnInv
    <3>. QED  BY <2>1, <3>2, <3>3
  <2>. QED  BY <2>2, <2>3
<1>. QED  BY <1>1, <1>2, <1>4, <1>5 DEF ShareInv

\* What does not touch the loop nor the link manager's handles.
LEMMA ShareKept ==
    ASSUME SetupInv, NEW n, ShareInv(n),
           UNCHANGED <<client, list, pos, curLinkNum, curBbnsIndex, curBackBoneNs, assigned,
                       backBoneNum>>,
           \A h \in Handles : handle[h] \in RunBackbones => handle'[h] = handle[h],
           client = "enter" => bbns'[Main] = bbns[Main]
    PROVE  ShareInv(n)'
<1>. USE DEF SetupInv, OwnInv
<1>1. curBackBoneNs # 0 => handle'[curBackBoneNs] = handle[curBackBoneNs]
    BY SetupAssumption DEF ManagerInv, TypeOK, Handles
<1>2. client = "enter" => handle'[bbns[Main]] = handle[bbns[Main]]
    BY DEF ManagerInv
<1>3. \A k : Before(k)' = Before(k)
    BY DEF Before, LinkPerBackBoneNs
<1>. QED  BY <1>1, <1>2, <1>3 DEF ShareInv

\* The loop moves from the nodes to the namespaces, to the links and to the end.
LEMMA ShareBetween ==
    ASSUME SetupInv, NEW n, OneList(n), ShareInv(n),
           SetupNode \/ SetupBbNs \/ EndOfList \/ WaitReturns \/ Return
    PROVE  ShareInv(n)'
<1>. USE DEF SetupInv, OwnInv
<1>1. /\ UNCHANGED <<curLinkNum, curBackBoneNs, assigned, backBoneNum>>
      /\ curBackBoneNs # 0 => handle'[curBackBoneNs] = handle[curBackBoneNs]
      /\ client' \in {"nodes", "bbns", "loop", "failed", "wait", "returned"}
      /\ \/ /\ UNCHANGED <<list, pos, curBbnsIndex>>
            /\ client' \in {"nodes", "bbns", "loop"} => client \in {"nodes", "bbns", "loop"}
         \/ /\ client \in {"loop", "wait"} /\ ~MoreLinks /\ curBbnsIndex' = 0
            /\ list <= Len(EdgeOrder) /\ list' = list + 1 /\ pos' = 0
  <2>. USE DEF loopVars, history, linkVars
  <2>1. CASE SetupNode
      BY <2>1 DEF SetupNode, history
  <2>2. CASE SetupBbNs
    <3>1. handle' = handle \/ (HandleFree /\ \E k : handle' = [handle EXCEPT ![LowestFree] = k])
        BY <2>2 DEF SetupBbNs, CreateBbNs
    <3>2. curBackBoneNs # 0 => curBackBoneNs \in Handles /\ handle[curBackBoneNs] # Closed
        BY SetupAssumption DEF TypeOK, Handles, ManagerInv, RunBackbones, BbNs, Closed
    <3>3. curBackBoneNs # 0 => handle'[curBackBoneNs] = handle[curBackBoneNs]
        BY <3>1, <3>2, LowestFreeIsFree DEF TypeOK
    <3>. QED  BY <2>2, <3>3 DEF SetupBbNs, CreateBbNs
  <2>3. CASE EndOfList
      BY <2>3 DEF EndOfList, history, Pool!EndOfList
  <2>4. CASE WaitReturns
    <3>1. client = "wait" /\ Parallel
        BY <2>4 DEF WaitReturns, history, Pool!WaitReturns, SeqInv
    <3>2. ~hasError /\ list <= Len(EdgeOrder) /\ pos = Len(EdgeOrder[list]) /\ pos \in Nat
        BY <3>1, PoolFacts DEF ParInv, TypeOK
    <3>. QED  BY <2>4, <3>1, <3>2 DEF WaitReturns, history, Pool!WaitReturns, MoreLinks
  <2>5. CASE Return
      BY <2>5 DEF Return
  <2>. QED  BY <2>1, <2>2, <2>3, <2>4, <2>5
<1>2. \A k : Before(k)' = Before(k)
    BY <1>1 DEF Before, LinkPerBackBoneNs
<1>3. CASE /\ UNCHANGED <<list, pos, curBbnsIndex>>
           /\ client' \in {"nodes", "bbns", "loop"} => client \in {"nodes", "bbns", "loop"}
    BY <1>1, <1>2, <1>3 DEF ShareInv
<1>4. CASE /\ client \in {"loop", "wait"} /\ ~MoreLinks /\ curBbnsIndex' = 0
           /\ list <= Len(EdgeOrder) /\ list' = list + 1 /\ pos' = 0
  <2>1. list \in Int /\ pos \in Nat /\ n \in Int
      BY SlotsAre DEF TypeOK, OneList
  <2>2. list' <= n => list < n /\ curLinkNum' = 0
      BY <1>1, <1>4, <2>1 DEF ShareInv
  <2>3. Before(0) = 0
      BY BeforeIs
  <2>4. /\ list' < n => curBbnsIndex' = 0 /\ curLinkNum' = 0
        /\ list' = n => curLinkNum' = pos'
      BY <1>4, <2>1, <2>2
  <2>5. pos' <= Before(curBbnsIndex)' /\ ~(curBbnsIndex' > 0)
      BY <1>2, <1>4, <2>3
  <2>. QED  BY <1>1, <1>2, <1>4, <2>4, <2>5 DEF ShareInv
<1>. QED  BY <1>1, <1>3, <1>4

\* The loop enters the namespace of the next share.
LEMMA ShareEnter ==
    ASSUME SetupInv, NEW n, OneList(n), ShareInv(n), EnterBbNs \/ SwitchBbNs
    PROVE  ShareInv(n)'
<1>. USE ThreadsAre DEF SetupInv, OwnInv, loopVars, history
<1>1. UNCHANGED <<list, pos, curLinkNum, backBoneNum, assigned>> /\ MoreLinks
    BY DEF EnterBbNs, SwitchBbNs, history, LoopInv
<1>2. list = n /\ curLinkNum = pos /\ pos \in Nat /\ LinkPerBackBoneNs > 0
    BY <1>1, BoundaryIs
<1>3. \A k : Before(k)' = Before(k)
    BY <1>1 DEF Before, LinkPerBackBoneNs
<1>4. curBbnsIndex \in Nat
    BY SetupAssumption DEF TypeOK
<1>5. CASE EnterBbNs
  <2>1. /\ client = "loop" /\ Boundary /\ UNCHANGED <<curBbnsIndex, curBackBoneNs>>
        /\ \/ client' = "failed" /\ UNCHANGED handle
           \/ /\ client' \in {"enter", "failed"} /\ HandleFree
              /\ handle' = [handle EXCEPT ![LowestFree] = BbNs(curBbnsIndex)]
              /\ client' = "enter" => bbns' = [bbns EXCEPT ![Main] = LowestFree]
      BY <1>5 DEF EnterBbNs
  <2>2. pos = Before(curBbnsIndex)
      BY <1>1, <2>1, BoundaryIs
  <2>3. curBackBoneNs # 0 => handle'[curBackBoneNs] = handle[curBackBoneNs]
    <3>1. curBackBoneNs # 0 => handle[curBackBoneNs] # Closed
        BY DEF ManagerInv, RunBackbones, BbNs, Closed
    <3>2. curBackBoneNs # 0 => curBackBoneNs \in Handles
        BY SetupAssumption DEF TypeOK, Handles
    <3>. QED  BY <2>1, <3>1, <3>2, LowestFreeIsFree DEF TypeOK
  <2>4. client' = "enter" => handle'[bbns'[Main]] = BbNs(curBbnsIndex)
      BY <2>1, LowestFreeIsFree DEF TypeOK
  <2>. QED  BY <1>1, <1>2, <1>3, <2>1, <2>2, <2>3, <2>4 DEF ShareInv
<1>6. CASE SwitchBbNs
  <2>1. /\ client = "enter" /\ client' = "entered"
        /\ curBackBoneNs' = bbns[Main] /\ curBbnsIndex' = curBbnsIndex + 1
        /\ handle' = [h \in Handles |-> IF h = curBackBoneNs THEN Closed ELSE handle[h]]
      BY <1>6 DEF SwitchBbNs, history
  <2>2. bbns[Main] \in Handles /\ bbns[Main] # curBackBoneNs /\ bbns[Main] # 0
      BY <2>1, SetupAssumption DEF ManagerInv, Handles
  <2>3. handle'[curBackBoneNs'] = BbNs(curBbnsIndex' - 1)
    <3>1. handle[bbns[Main]] = BbNs(curBbnsIndex) /\ curBbnsIndex' - 1 = curBbnsIndex
        BY <1>4, <2>1 DEF ShareInv
    <3>. QED  BY <2>1, <2>2, <3>1
  <2>4. (curBbnsIndex > 0 /\ Before(curBbnsIndex - 1) <= pos /\ pos < Before(curBbnsIndex))'
    <3>1. curBbnsIndex' - 1 = curBbnsIndex /\ pos = Before(curBbnsIndex)
        BY <1>4, <2>1 DEF ShareInv
    <3>2. /\ LinkPerBackBoneNs \in Nat
          /\ Before(curBbnsIndex + 1) = Before(curBbnsIndex) + LinkPerBackBoneNs
        BY <1>4, BeforeIs
    <3>3. pos <= Before(curBbnsIndex + 1) - 1 /\ pos \in Nat
        BY <1>2, <3>1, <3>2
    <3>4. Before(curBbnsIndex - 1)' = Before(curBbnsIndex)
          /\ Before(curBbnsIndex)' = Before(curBbnsIndex + 1)
        BY <1>3, <2>1, <3>1
    <3>. QED  BY <1>1, <1>4, <2>1, <3>1, <3>2, <3>3, <3>4
  <2>5. curBackBoneNs' # 0
      BY <2>1, <2>2
  <2>6. \A s \in Slots, k \in Nat :
            assigned'[s] = BbNs(k) => Before(k)' < s[2] /\ s[2] <= Before(k + 1)'
      BY <1>1, <1>3 DEF ShareInv
  <2>7. ~(list' < n) /\ curLinkNum' = pos'
    <3>1. list \in Int
        BY DEF TypeOK
    <3>. QED  BY <1>1, <1>2, <3>1
  <2>8. client' = "entered"
      BY <2>1
  <2> HIDE DEF SetupInv, OwnInv
  <2>. QED  BY ONLY <2>3, <2>4, <2>5, <2>6, <2>7, <2>8 DEF ShareInv
<1>. QED  BY <1>5, <1>6

\* A link is assigned to the current namespace.
LEMMA ShareAssign ==
    ASSUME SetupInv, NEW n, OneList(n), ShareInv(n), SubmitLink \/ CallSetupLink
    PROVE  ShareInv(n)'
<1>. USE DEF SetupInv, OwnInv
<1>1. /\ Placed /\ client' \in {"send", "call"}
      /\ assigned' = [assigned EXCEPT ![<<list, pos + 1>>] = handle[curBackBoneNs]]
      /\ UNCHANGED <<list, pos, curLinkNum, curBbnsIndex, curBackBoneNs, backBoneNum, handle>>
    BY DEF SubmitLink, CallSetupLink, Assign, Pool!AddTask, linkVars
<1>2. MoreLinks /\ client \in {"entered", "loop"} /\ (client = "loop" => ~Boundary)
    BY <1>1 DEF Placed, LoopInv
<1>3. list = n /\ curLinkNum = pos /\ pos \in Nat /\ curBbnsIndex \in Nat
    BY <1>2, BoundaryIs, SetupAssumption DEF TypeOK
<1>4. \A k : Before(k)' = Before(k)
    BY <1>1 DEF Before, LinkPerBackBoneNs
<1>5. /\ curBbnsIndex > 0 /\ Before(curBbnsIndex - 1) <= pos /\ pos < Before(curBbnsIndex)
      /\ Before(curBbnsIndex) \in Nat /\ Before(curBbnsIndex - 1) \in Nat
  <2>1. CASE client = "entered"
    <3>1. curBbnsIndex > 0 /\ Before(curBbnsIndex - 1) <= pos /\ pos < Before(curBbnsIndex)
        BY <2>1 DEF ShareInv
    <3>2. curBbnsIndex - 1 \in Nat
        BY <1>3, <3>1
    <3>. QED  BY <1>3, <3>1, <3>2, BeforeIs
  <2>2. CASE client = "loop"
    <3>1. pos # Before(curBbnsIndex)
        BY <1>2, <2>2, BoundaryIs
    <3>2. curBbnsIndex > 0
      <4>1. curBbnsIndex = 0 => pos = 0
          BY <1>3, <2>2 DEF ShareInv
      <4>. QED  BY <1>3, <3>1, <4>1, BeforeIs
    <3>3. Before(curBbnsIndex - 1) < pos /\ pos <= Before(curBbnsIndex)
        BY <1>3, <2>2, <3>2 DEF ShareInv
    <3>4. Before(curBbnsIndex) \in Nat /\ Before(curBbnsIndex - 1) \in Nat
      <4>1. curBbnsIndex - 1 \in Nat
          BY <1>3, <3>2
      <4>. QED  BY <1>3, <4>1, BeforeIs
    <3>. QED  BY <1>3, <3>1, <3>2, <3>3, <3>4
  <2>. QED  BY <1>2, <2>1, <2>2
<1>6. ASSUME NEW s \in Slots, NEW k \in Nat, assigned'[s] = BbNs(k)
      PROVE  Before(k) < s[2] /\ s[2] <= Before(k + 1)
  <2>1. CASE s = <<list, pos + 1>>
    <3>1. BbNs(k) = BbNs(curBbnsIndex - 1)
        BY <1>1, <1>3, <1>5, <1>6, <2>1 DEF ShareInv, TypeOK
    <3>2. k = curBbnsIndex - 1 /\ k + 1 = curBbnsIndex
        BY <1>3, <3>1 DEF BbNs
    <3>3. s[2] = pos + 1
        BY <2>1
    <3>. QED  BY <1>3, <1>5, <3>2, <3>3
  <2>2. CASE s # <<list, pos + 1>>
      BY <1>1, <1>6, <2>2 DEF ShareInv, TypeOK
  <2>. QED  BY <2>1, <2>2
<1>7. handle[curBackBoneNs] = BbNs(curBbnsIndex - 1) /\ curBackBoneNs # 0
    BY <1>3, <1>5 DEF ShareInv
<1>8. \A s \in Slots, k \in Nat :
          assigned'[s] = BbNs(k) => Before(k)' < s[2] /\ s[2] <= Before(k + 1)'
    BY <1>4, <1>6
<1>. QED  BY <1>1, <1>3, <1>4, <1>5, <1>7, <1>8 DEF ShareInv

\* A link is handed to a worker, or SetupLink returns to the loop.
LEMMA ShareCount ==
    ASSUME SetupInv, NEW n, OneList(n), ShareInv(n),
           ReturnToLoop \/ \E w \in Workers : ReceiveTask(w)
    PROVE  ShareInv(n)'
<1>. USE DEF SetupInv, OwnInv
<1>1. /\ client \in {"call", "send"}
      /\ UNCHANGED <<list, curBbnsIndex, curBackBoneNs, assigned, backBoneNum>>
      /\ \/ client' = "loop" /\ pos' = pos + 1 /\ curLinkNum' = curLinkNum + 1
         \/ client' = "failed" /\ UNCHANGED <<pos, curLinkNum>>
    BY DEF ReturnToLoop, ReceiveTask, history, Pool!Receive, ThreadInv
<1>2. /\ list = n /\ curLinkNum = pos /\ pos \in Nat /\ curBbnsIndex \in Nat
  <2>1. MoreLinks
      BY <1>1 DEF LoopInv
  <2>2. curBbnsIndex \in Nat
      BY SetupAssumption DEF TypeOK
  <2>. QED  BY <2>1, <2>2, BoundaryIs
<1>3. \A k : Before(k)' = Before(k)
    BY <1>1 DEF Before, LinkPerBackBoneNs
<1>4. /\ curBbnsIndex > 0 /\ Before(curBbnsIndex - 1) <= pos /\ pos < Before(curBbnsIndex)
      /\ Before(curBbnsIndex) \in Nat /\ Before(curBbnsIndex - 1) \in Nat
  <2>1. curBbnsIndex > 0 /\ Before(curBbnsIndex - 1) <= pos /\ pos < Before(curBbnsIndex)
      BY <1>1 DEF ShareInv
  <2>2. curBbnsIndex - 1 \in Nat
      BY <1>2, <2>1
  <2>. QED  BY <1>2, <2>1, <2>2, BeforeIs
<1>5. /\ curBackBoneNs # 0 /\ handle'[curBackBoneNs] = handle[curBackBoneNs]
      /\ handle[curBackBoneNs] = BbNs(curBbnsIndex - 1)
  <2>1. curBackBoneNs # 0 /\ handle[curBackBoneNs] = BbNs(curBbnsIndex - 1)
        /\ handle[curBackBoneNs] \in RunBackbones /\ curBackBoneNs \in Handles
      BY <1>2, <1>4, SetupAssumption DEF ShareInv, ManagerInv, TypeOK, Handles
  <2>2. CASE ReturnToLoop
    <3>1. step[Main] \in {"ok", "failed"} /\ CloseHeld(Main)
        BY <2>2 DEF ReturnToLoop, history
    <3>2. client = "call" /\ ~Parallel
        BY <3>1 DEF ThreadInv
    <3>3. Threads \ {Main} = {} /\ LinkManagers' = LinkManagers
        BY <1>1, <3>2 DEF Threads, Parallel, LinkManagers
    <3>4. dropped' = dropped
        BY <2>2 DEF ReturnToLoop, history
    <3>. QED  BY <2>1, <3>1, <3>3, <3>4, ThreadsAre, CloseHeldKeeps
  <2>3. CASE \E w \in Workers : ReceiveTask(w)
      BY <2>1, <2>3 DEF ReceiveTask, history
  <2>. QED  BY <2>1, <2>2, <2>3
<1>6. curLinkNum' = pos' /\ (client' = "loop" => pos' = pos + 1)
    BY <1>1, <1>2
<1>7. \A s \in Slots, k \in Nat :
          assigned'[s] = BbNs(k) => Before(k)' < s[2] /\ s[2] <= Before(k + 1)'
    BY <1>1, <1>3 DEF ShareInv
<1>8. /\ pos + 1 <= Before(curBbnsIndex) /\ Before(curBbnsIndex - 1) < pos + 1
    BY <1>2, <1>4
<1>. QED  BY <1>1, <1>2, <1>3, <1>4, <1>5, <1>6, <1>7, <1>8 DEF ShareInv

LEMMA NextShareInv ==
    ASSUME SetupInv, NEW n, OneList(n), ShareInv(n), [Next]_vars
    PROVE  ShareInv(n)'
<1>. USE DEF SetupInv, OwnInv
<1>1. CASE LoopStep
    BY <1>1, ShareBetween, ShareEnter, ShareAssign, ShareCount DEF LoopStep
<1>2. ASSUME NEW t \in Threads, LinkStep(t) PROVE ShareInv(n)'
  <2>1. client = "enter" => bbns'[Main] = bbns[Main]
    <3>1. client = "enter" => t # Main
        BY <1>2, LinkStepFrame DEF ThreadInv
    <3>. QED  BY <1>2, <3>1, LinkStepFrame, ThreadsAre
  <2>2. \A h \in Handles : handle[h] \in RunBackbones => handle'[h] = handle[h]
    <3>1. \A h \in Handles : handle[h] \in RunBackbones => handle[h] # Closed
        BY DEF RunBackbones, BbNs, Closed
    <3>. QED  BY <1>2, <3>1, LinkStepFrame
  <2>3. UNCHANGED <<poolVars, loopVars>>
      BY <1>2, LinkStepFrame
  <2>. QED  BY <2>1, <2>2, <2>3, ShareKept DEF poolVars, loopVars, history
<1>3. ASSUME NEW w \in Workers, WorkerStep(w) PROVE ShareInv(n)'
  <2>. USE ThreadsAre DEF loopVars, history, linkVars
  <2>1. CASE ReceiveTask(w)
      BY <2>1, ShareCount
  <2>2. CASE StartWorker(w)
      BY <2>2, ShareKept DEF StartWorker, Pool!Start
  <2>3. CASE FinishTask(w)
      BY <2>3, ShareKept DEF FinishTask, Pool!Done
  <2>4. CASE ReturnToPool(w)
    <3>1. /\ CloseHeld(w) /\ worker[w] = "run"
          /\ UNCHANGED <<client, list, pos, task, loopVars, bbns>>
        BY <2>4 DEF ReturnToPool, ThreadInv, Pool!ClosureReturns, Pool!TaskFails
    <3>2. LinkManagers' = LinkManagers /\ \A u \in Threads : SlotOf(u)' = SlotOf(u)
        BY <3>1 DEF LinkManagers, SlotOf
    <3>3. \A h \in Handles : handle[h] \in RunBackbones => handle'[h] = handle[h]
        BY <3>1, <3>2, CloseHeldKeeps
    <3>. QED  BY <3>1, <3>3, ShareKept
  <2>. QED  BY <1>3, <2>1, <2>2, <2>3, <2>4 DEF WorkerStep
<1>4. CASE UNCHANGED vars
    BY <1>4, ShareKept DEF vars, poolVars, loopVars, history, linkVars
<1>. QED  BY <1>1, <1>2, <1>3, <1>4 DEF Next, Terminated

LEMMA InitShareInv == ASSUME NEW n, OneList(n), Init PROVE ShareInv(n)
<1>1. list <= n /\ 0 <= Before(0)
  <2>1. n \in 1..Len(EdgeOrder) /\ Len(EdgeOrder) \in Nat /\ Before(0) = 0
      BY InitSetupInv, BeforeIs, SlotsAre DEF OneList, SetupInv, OwnInv
  <2>. QED  BY <2>1 DEF Init
<1>2. \A s \in Slots, k \in Nat : assigned[s] # BbNs(k)
    BY DEF Init, BbNs, Nowhere
<1>. QED  BY <1>1, <1>2 DEF Init, ShareInv

\* A number up to e / b, rounded up, is less than e / b + 1.
LEMMA RoundedUp ==
    ASSUME NEW e \in Nat, NEW b \in Nat \ {0}, NEW c \in Nat, c <= (e + b - 1) \div b
    PROVE  (c - 1) * b < e
<1> DEFINE q == (e + b - 1) \div b
<1>1. q \in Nat /\ q * b <= e + b - 1
  <2> DEFINE n == e + b - 1
  <2>1. n \in Nat
      OBVIOUS
  <2> HIDE DEF n
  <2>2. n \div b \in Nat /\ (n \div b) * b <= n
      BY <2>1
  <2>. QED  BY <2>2 DEF n
<1> HIDE DEF q
<1>2. c <= q
    BY DEF q
<1>3. c * b <= q * b /\ c * b \in Nat /\ q * b \in Nat
    BY <1>1, <1>2
<1>4. (c - 1) * b = c * b - b
    OBVIOUS
<1>. QED  BY <1>1, <1>3, <1>4

\* e / b, rounded up, is enough for e among b.
LEMMA SharesCover ==
    ASSUME NEW e \in Nat, NEW b \in Nat \ {0}, NEW k \in Nat,
           k * ((e + b - 1) \div b) < e
    PROVE  k < b
<1> DEFINE n == e + b - 1
           q == n \div b
<1>1. n \in Nat
    OBVIOUS
<1>2. q \in Nat /\ n < (q + 1) * b
  <2> HIDE DEF n
  <2>1. n \div b \in Nat /\ n < (n \div b + 1) * b
      BY <1>1
  <2>. QED  BY <2>1
<1>3. k * q < e
    OBVIOUS
<1> HIDE DEF q
<1>4. e <= b * q
    BY <1>2 DEF n
<1>5. k >= b => k * q >= b * q
    BY <1>2
<1>6. k * q \in Nat /\ b * q \in Nat
    BY <1>2
<1>. QED  BY <1>3, <1>4, <1>5, <1>6

\* With all the links in one list they are distributed evenly over the backbone
\* namespaces, however the division comes out, and no namespace is asked for
\* that was not created, sequentially or through the pool (netManage.go:63,
\* 104-115).
THEOREM OneListShares ==
    ASSUME NEW n, OneList(n) PROVE Spec => []SharesRespected
<1>1. Init => ShareInv(n)
    BY InitShareInv
<1>2. SetupInv /\ ShareInv(n) /\ [Next]_vars => ShareInv(n)'
    BY NextShareInv
<1>3. ASSUME SetupInv, ShareInv(n), NEW k \in 0..(backBoneNum - 1)
      PROVE  (Cardinality({s \in Slots : assigned[s] = BbNs(k)}) - 1) * backBoneNum < EdgeNum
  <2> DEFINE S == {s \in Slots : assigned[s] = BbNs(k)}
             T == (Before(k) + 1)..Before(k + 1)
             f == [s \in S |-> s[2]]
  <2>1. k \in Nat /\ TypeOK
      BY <1>3, SetupAssumption DEF SetupInv, OwnInv, TypeOK
  <2>2. /\ LinkPerBackBoneNs \in Nat /\ Before(k) \in Nat
        /\ Before(k + 1) = Before(k) + LinkPerBackBoneNs
      BY <2>1, BeforeIs
  <2>3. ASSUME NEW s \in Slots PROVE s = <<n, s[2]>> /\ s[2] \in Nat
    <3>1. s \in (1..Len(EdgeOrder)) \X Nat /\ s[2] \in 1..Len(EdgeOrder[s[1]])
        BY SlotsAre
    <3>2. s[1] = n
        BY <3>1 DEF OneList
    <3>. QED  BY <3>1, <3>2
  <2>4. f \in Injection(S, T)
    <3>1. \A s \in S : s[2] \in T
      <4>. SUFFICES ASSUME NEW s \in S PROVE s[2] \in T
          OBVIOUS
      <4>1. s[2] \in Nat /\ Before(k) < s[2] /\ s[2] <= Before(k + 1)
          BY <1>3, <2>1, <2>3 DEF ShareInv
      <4>2. Before(k) \in Int /\ Before(k + 1) \in Int
          BY <2>2
      <4>. QED  BY <4>1, <4>2
    <3>2. \A s, u \in S : s[2] = u[2] => s = u
        BY <2>3
    <3> HIDE DEF S, T
    <3>. QED  BY <3>1, <3>2 DEF Injection, IsInjective
  <2>5. IsFiniteSet(T) /\ Cardinality(T) = LinkPerBackBoneNs
    <3>1. Before(k) + 1 \in Int /\ Before(k + 1) \in Int
        BY <2>2
    <3>2. IsFiniteSet(T) /\ Cardinality(T) = IF Before(k) + 1 > Before(k + 1) THEN 0
                                             ELSE Before(k + 1) - (Before(k) + 1) + 1
        BY <3>1, FS_Interval
    <3>. QED  BY <2>2, <3>2
  <2>6. Cardinality(S) <= Cardinality(T)
    <3> HIDE DEF S, T, f
    <3>. QED  BY <2>4, <2>5, FS_Injection
  <2>7. Cardinality(S) \in Nat
    <3>1. IsFiniteSet(S)
        BY SlotsAre, FS_Subset
    <3> HIDE DEF S
    <3>. QED  BY <3>1, FS_CardinalityType
  <2>8. Cardinality(S) <= LinkPerBackBoneNs
      BY <2>5, <2>6
  <2>9. backBoneNum \in Nat \ {0} /\ EdgeNum \in Nat
      BY <2>1, SetupAssumption, SlotsAre DEF TypeOK
  <2> DEFINE c == Cardinality(S)
  <2>10. c \in Nat /\ c <= (EdgeNum + backBoneNum - 1) \div backBoneNum
      BY <2>7, <2>8 DEF LinkPerBackBoneNs
  <2> HIDE DEF c
  <2>11. (c - 1) * backBoneNum < EdgeNum
      BY <2>9, <2>10, RoundedUp
  <2>. QED  BY <2>11 DEF c
<1>4. ASSUME SetupInv, ShareInv(n), client = "loop", MoreLinks, Boundary
      PROVE  curBbnsIndex < backBoneNum
  <2>1. /\ curBbnsIndex \in Nat /\ curLinkNum \in Nat
        /\ backBoneNum \in Nat \ {0} /\ EdgeNum \in Nat
      BY <1>4, SetupAssumption, SlotsAre DEF SetupInv, OwnInv, TypeOK
  <2>2. curLinkNum = Before(curBbnsIndex)
      BY <1>4, BoundaryIs
  <2>3. curLinkNum < EdgeNum
      BY <1>4, NextSlot, CountBelow DEF SetupInv, OwnInv, LoopInv
  <2>4. curBbnsIndex * ((EdgeNum + backBoneNum - 1) \div backBoneNum) < EdgeNum
      BY <2>2, <2>3 DEF Before, LinkPerBackBoneNs
  <2>. QED  BY <2>1, <2>4, SharesCover
<1>5. SetupInv /\ ShareInv(n) => SharesRespected
    BY <1>3, <1>4 DEF SharesRespected
<1>. QED  BY <1>1, <1>2, <1>5, SetupInvariant, PTL DEF Spec
=============================================================================
