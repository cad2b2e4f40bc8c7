-------------------------- MODULE ThreadPoolProofs --------------------------
(***************************************************************************)
(* Theorems about ThreadPool, for every finite set of workers, every lists *)
(* of tasks and every set of tasks that may fail.                          *)
(***************************************************************************)
EXTENDS ThreadPool, FiniteSetTheorems, TLAPS

\* What a task's name is: a list and a position in it.
LEMMA SlotsAre ==
    /\ Slots = {s \in (1..NumLists) \X Nat : s[2] \in 1..ListLen[s[1]]}
    /\ NoTask \notin Slots
<1>1. Slots = UNION {{i} \X (1..ListLen[i]) : i \in 1..NumLists}
    BY DEF Slots, Promise!Slots
<1>2. ASSUME NEW i \in 1..NumLists PROVE 1..ListLen[i] \subseteq Nat
    BY ListsAssumption
<1>3. Slots = {s \in (1..NumLists) \X Nat : s[2] \in 1..ListLen[s[1]]}
    BY <1>1, <1>2
<1>. QED  BY <1>3, ListsAssumption DEF NoTask

\* The busy workers form a finite set.
LEMMA BusyFinite == IsFiniteSet(Busy) /\ Cardinality(Busy) \in Nat
<1>1. Busy \subseteq Workers
    BY DEF Busy
<1>. QED  BY <1>1, WorkersAssumption, FS_Subset, FS_CardinalityType

\* The invariant holds initially.
LEMMA InitPoolInv == Init => PoolInv
<1>. SUFFICES ASSUME Init PROVE PoolInv
    OBVIOUS
<1>. USE DEF Init
<1>1. TypeOK
  <2>1. 1 \in 1..(NumLists + 1)
      BY ListsAssumption
  <2>2. task \in [Workers -> Slots \cup {NoTask}] /\ completed \in SUBSET Slots
      OBVIOUS
  <2>. QED  BY <2>1, <2>2 DEF TypeOK, ClientPlaces, WorkerPlaces
<1>2. ErrorNeverCollected /\ ClientInv
    BY ListsAssumption DEF ErrorNeverCollected, ClientInv
<1>3. Busy = {}
    BY DEF Busy
<1>4. WgCounts
    BY <1>3, FS_EmptySet DEF WgCounts
<1>5. HeldInv
    BY DEF HeldInv
<1>6. ProgressInv
    BY SlotsAre DEF ProgressInv
<1>7. Barrier
    BY SlotsAre DEF Barrier, Promise!ListsBefore, Slots
<1>. QED  BY <1>1, <1>2, <1>4, <1>5, <1>6, <1>7 DEF PoolInv

-----------------------------------------------------------------------------
(* One lemma for each action: it preserves the invariant. *)

LEMMA AddTaskInv == PoolInv /\ AddTask => PoolInv'
<1>. SUFFICES ASSUME PoolInv, AddTask PROVE PoolInv'
    OBVIOUS
<1>. USE DEF PoolInv, AddTask
<1>1. TypeOK'
    BY DEF TypeOK, ClientPlaces
<1>2. Busy' = Busy
    BY DEF Busy
<1>3. WgCounts'
    BY <1>2, BusyFinite DEF WgCounts, TypeOK
<1>4. ErrorNeverCollected' /\ ClientInv'
    BY ListsAssumption DEF ErrorNeverCollected, ClientInv, TypeOK
<1>5. HeldInv' /\ ProgressInv' /\ Barrier'
    BY DEF HeldInv, ProgressInv, Barrier
<1>. QED  BY <1>1, <1>3, <1>4, <1>5

LEMMA EndOfListInv == PoolInv /\ EndOfList => PoolInv'
<1>. SUFFICES ASSUME PoolInv, EndOfList PROVE PoolInv'
    OBVIOUS
<1>. USE DEF PoolInv, EndOfList
<1>1. Busy' = Busy
    BY DEF Busy
<1>2. CASE pos > 0
  <2>1. TypeOK' /\ WgCounts'
      BY <1>1, <1>2 DEF TypeOK, ClientPlaces, WgCounts
  <2>2. ErrorNeverCollected' /\ ClientInv'
      BY <1>2 DEF ErrorNeverCollected, ClientInv, TypeOK
  <2>3. HeldInv' /\ ProgressInv' /\ Barrier'
      BY <1>2 DEF HeldInv, ProgressInv, Barrier
  <2>. QED  BY <2>1, <2>2, <2>3
<1>3. CASE ~(pos > 0)
  <2>1. pos = 0 /\ list \in 1..NumLists /\ ListLen[list] = 0
      BY <1>3, ListsAssumption DEF TypeOK
  <2>2. list' = list + 1 /\ pos' = 0 /\ client' = client /\ list + 1 \in 1..(NumLists + 1)
      BY <1>3, <2>1, ListsAssumption
  <2>3. TypeOK' /\ WgCounts'
      BY <1>1, <2>2 DEF TypeOK, WgCounts
  <2>4. ClientInv' /\ ErrorNeverCollected'
      BY <2>1, <2>2, ListsAssumption DEF ClientInv, ErrorNeverCollected, TypeOK
  <2>5. \A s \in Slots : s[1] # list
      BY <2>1, SlotsAre
  <2>6. \A w \in Workers : task[w] = NoTask
      BY <2>5 DEF HeldInv
  <2>7. HeldInv'
      BY <2>6 DEF HeldInv
  <2>8. ProgressInv'
      BY <2>2, <2>5, SlotsAre, <2>1 DEF ProgressInv, TypeOK
  <2>9. Barrier'
      BY <2>2, <2>5, SlotsAre, <2>1 DEF Barrier, Promise!ListsBefore, Slots
  <2>. QED  BY <2>3, <2>4, <2>7, <2>8, <2>9
<1>. QED  BY <1>2, <1>3

LEMMA WaitReturnsInv == PoolInv /\ WaitReturns => PoolInv'
<1>. SUFFICES ASSUME PoolInv, WaitReturns PROVE PoolInv'
    OBVIOUS
<1>. USE DEF PoolInv, WaitReturns
<1>1. /\ client' = "loop" /\ list' = list + 1 /\ pos' = 0
      /\ UNCHANGED <<wg, hasError, worker, task, completed>>
    BY DEF ErrorNeverCollected
<1>2. Busy = {} /\ Busy' = {}
    BY <1>1, BusyFinite, WorkersAssumption, FS_EmptySet, FS_Subset DEF WgCounts, Busy
<1>3. list \in 1..NumLists /\ pos = ListLen[list] /\ list + 1 \in 1..(NumLists + 1)
    BY ListsAssumption DEF ClientInv, TypeOK
<1>4. TypeOK'
    BY <1>1, <1>3 DEF TypeOK, ClientPlaces
<1>5. WgCounts'
    BY <1>1, <1>2, FS_EmptySet DEF WgCounts
<1>6. ClientInv' /\ ErrorNeverCollected'
    BY <1>1, <1>3, ListsAssumption DEF ClientInv, ErrorNeverCollected, TypeOK
<1>7. \A w \in Workers : task[w] = NoTask
    BY <1>2 DEF Busy
<1>8. HeldInv'
    BY <1>1, <1>7 DEF HeldInv
<1>9. \A s \in Slots : s[1] = list => s \in completed
    BY <1>3, <1>7, SlotsAre DEF ProgressInv
<1>10. ProgressInv'
    BY <1>1, <1>3, <1>7, SlotsAre DEF ProgressInv, HeldInv, TypeOK
<1>11. Barrier'
    BY <1>1, <1>3, <1>9, SlotsAre DEF Barrier, Promise!ListsBefore, Slots
<1>. QED  BY <1>4, <1>5, <1>6, <1>8, <1>10, <1>11

LEMMA ReturnInv == PoolInv /\ Return => PoolInv'
<1>. SUFFICES ASSUME PoolInv, Return PROVE PoolInv'
    OBVIOUS
<1>. USE DEF PoolInv, Return
<1>1. Busy' = Busy
    BY DEF Busy
<1>2. TypeOK' /\ WgCounts'
    BY <1>1 DEF TypeOK, ClientPlaces, WgCounts
<1>3. ErrorNeverCollected' /\ ClientInv'
    BY ListsAssumption DEF ErrorNeverCollected, ClientInv, TypeOK
<1>4. HeldInv' /\ ProgressInv' /\ Barrier'
    BY DEF HeldInv, ProgressInv, Barrier
<1>. QED  BY <1>2, <1>3, <1>4

LEMMA StartInv == ASSUME NEW w \in Workers PROVE PoolInv /\ Start(w) => PoolInv'
<1>. SUFFICES ASSUME PoolInv, Start(w) PROVE PoolInv'
    OBVIOUS
<1>. USE DEF PoolInv, Start
<1>1. Busy' = Busy
    BY DEF Busy
<1>2. TypeOK' /\ WgCounts'
    BY <1>1 DEF TypeOK, WorkerPlaces, WgCounts
<1>3. ErrorNeverCollected' /\ ClientInv'
    BY DEF ErrorNeverCollected, ClientInv
<1>4. HeldInv' /\ ProgressInv' /\ Barrier'
    BY DEF HeldInv, ProgressInv, Barrier, TypeOK
<1>. QED  BY <1>2, <1>3, <1>4

LEMMA ReceiveInv ==
    ASSUME NEW w \in Workers PROVE PoolInv /\ Receive(w) => PoolInv'
<1>. SUFFICES ASSUME PoolInv, Receive(w) PROVE PoolInv'
    OBVIOUS
<1>. USE DEF PoolInv, Receive
<1>. DEFINE s0 == <<list, pos + 1>>
<1>1. list \in 1..NumLists /\ pos + 1 \in 1..ListLen[list]
    BY ListsAssumption DEF ClientInv, TypeOK
<1>2. s0 \in Slots /\ s0 # NoTask
    BY <1>1, SlotsAre DEF TypeOK
<1>3. task[w] = NoTask /\ w \notin Busy
    BY DEF HeldInv, Busy
<1>4. /\ task' = [task EXCEPT ![w] = s0] /\ task'[w] = s0
      /\ \A v \in Workers : v # w => task'[v] = task[v] /\ worker'[v] = worker[v]
      /\ worker'[w] = "run"
    BY DEF TypeOK
<1>5. Busy' = Busy \cup {w}
    BY <1>2, <1>4 DEF Busy
<1>6. Cardinality(Busy') = Cardinality(Busy) + 1
    BY <1>3, <1>5, BusyFinite, FS_AddElement
<1>7. WgCounts'
    BY <1>6, BusyFinite DEF WgCounts
<1>8. TypeOK'
    BY <1>2, <1>4 DEF TypeOK, WorkerPlaces, ClientPlaces
<1>9. ErrorNeverCollected' /\ ClientInv'
    BY <1>1, ListsAssumption DEF ErrorNeverCollected, ClientInv, TypeOK
<1>10. \A v \in Workers : task[v] # s0
  <2>1. ASSUME NEW v \in Workers, task[v] # NoTask PROVE task[v][2] <= pos
      BY <2>1 DEF HeldInv
  <2>. QED  BY <2>1, <1>2 DEF TypeOK
<1>11. HeldInv'
  <2>1. \A v \in Workers : task'[v] = NoTask <=> worker'[v] \in {"start", "idle"}
      BY <1>2, <1>4 DEF HeldInv
  <2>2. \A v \in Workers : task'[v] # NoTask =>
            task'[v] \in Slots /\ task'[v][1] = list' /\ task'[v][2] <= pos'
    <3>1. ASSUME NEW v \in Workers, v # w, task[v] # NoTask
          PROVE  task[v] \in Slots /\ task[v][1] = list /\ task[v][2] <= pos + 1
        BY <3>1, SlotsAre DEF HeldInv, TypeOK
    <3>. QED  BY <3>1, <1>2, <1>4 DEF TypeOK
  <2>3. \A v, u \in Workers : v # u /\ task'[v] # NoTask => task'[v] # task'[u]
      BY <1>2, <1>4, <1>10 DEF HeldInv
  <2>. QED  BY <2>1, <2>2, <2>3 DEF HeldInv
<1>12. ProgressInv'
  <2>1. s0 \notin completed
      BY <1>1 DEF ProgressInv, TypeOK
  <2>2. \A v \in Workers :
            worker'[v] \in {"run", "report"} => task'[v] \notin completed'
      BY <2>1, <1>4 DEF ProgressInv
  <2>3. ASSUME NEW s \in Slots, s[1] = list', s[2] <= pos'
        PROVE  s \in completed'
                 \/ \E v \in Workers : task'[v] = s /\ worker'[v] \in {"run", "report"}
    <3>1. CASE s[2] <= pos
      <4>1. s \in completed
              \/ \E v \in Workers : task[v] = s /\ worker[v] \in {"run", "report"}
          BY <2>3, <3>1 DEF ProgressInv
      <4>. QED  BY <4>1, <1>4
    <3>2. CASE s[2] = pos + 1
        BY <2>3, <3>2, <1>4, SlotsAre
    <3>. QED  BY <2>3, <3>1, <3>2, SlotsAre, ListsAssumption DEF TypeOK
  <2>4. \A s \in completed' : s[1] < list' \/ (s[1] = list' /\ s[2] <= pos')
      BY SlotsAre DEF ProgressInv, TypeOK
  <2>. QED  BY <2>2, <2>3, <2>4 DEF ProgressInv
<1>13. Barrier'
    BY DEF Barrier
<1>. QED  BY <1>7, <1>8, <1>9, <1>11, <1>12, <1>13

LEMMA TaskFailsInv ==
    ASSUME NEW w \in Workers PROVE PoolInv /\ TaskFails(w) => PoolInv'
<1>. SUFFICES ASSUME PoolInv, TaskFails(w) PROVE PoolInv'
    OBVIOUS
<1>. USE DEF PoolInv, TaskFails
<1>1. Busy' = Busy
    BY DEF Busy
<1>2. TypeOK' /\ WgCounts'
    BY <1>1 DEF TypeOK, WorkerPlaces, WgCounts
<1>3. ErrorNeverCollected' /\ ClientInv' /\ Barrier'
    BY DEF ErrorNeverCollected, ClientInv, Barrier
<1>4. HeldInv'
    BY DEF HeldInv, TypeOK
<1>5. ProgressInv'
    BY DEF ProgressInv, TypeOK
<1>. QED  BY <1>2, <1>3, <1>4, <1>5

LEMMA ClosureReturnsInv ==
    ASSUME NEW w \in Workers PROVE PoolInv /\ ClosureReturns(w) => PoolInv'
<1>. SUFFICES ASSUME PoolInv, ClosureReturns(w) PROVE PoolInv'
    OBVIOUS
<1>. USE DEF PoolInv
<1>1. /\ worker[w] = "run" /\ completed' = completed \cup {task[w]}
      /\ worker' = [worker EXCEPT ![w] = "ended"]
      /\ UNCHANGED <<client, list, pos, wg, hasError, task>>
    BY DEF ClosureReturns, ErrorNeverCollected
<1>2. task[w] \in Slots /\ task[w][1] = list /\ task[w][2] <= pos /\ task[w] # NoTask
    BY <1>1 DEF HeldInv
<1>3. Busy' = Busy
    BY <1>1 DEF Busy
<1>4. TypeOK' /\ WgCounts'
    BY <1>1, <1>2, <1>3 DEF TypeOK, WorkerPlaces, WgCounts
<1>5. ErrorNeverCollected' /\ ClientInv' /\ Barrier'
    BY <1>1 DEF ErrorNeverCollected, ClientInv, Barrier
<1>6. HeldInv'
    BY <1>1, <1>2 DEF HeldInv, TypeOK
<1>7. ProgressInv'
  <2>1. \A v \in Workers :
            worker'[v] \in {"run", "report"} => task'[v] \notin completed'
    <3>1. ASSUME NEW v \in Workers, worker'[v] \in {"run", "report"}
          PROVE  task[v] \notin completed \cup {task[w]}
      <4>1. v # w /\ worker[v] \in {"run", "report"}
          BY <1>1, <3>1 DEF TypeOK
      <4>. QED  BY <4>1, <1>2 DEF HeldInv, ProgressInv
    <3>. QED  BY <3>1, <1>1
  <2>2. ASSUME NEW s \in Slots, s[1] = list, s[2] <= pos
        PROVE  s \in completed'
                 \/ \E v \in Workers : task'[v] = s /\ worker'[v] \in {"run", "report"}
      BY <2>2, <1>1 DEF ProgressInv, TypeOK
  <2>3. \A s \in completed' : s[1] < list \/ (s[1] = list /\ s[2] <= pos)
      BY <1>1, <1>2 DEF ProgressInv
  <2>. QED  BY <2>1, <2>2, <2>3, <1>1 DEF ProgressInv
<1>. QED  BY <1>4, <1>5, <1>6, <1>7

LEMMA DoneInv == ASSUME NEW w \in Workers PROVE PoolInv /\ Done(w) => PoolInv'
<1>. SUFFICES ASSUME PoolInv, Done(w) PROVE PoolInv'
    OBVIOUS
<1>. USE DEF PoolInv, Done
<1>1. w \in Busy
    BY DEF Busy, HeldInv
<1>2. /\ task'[w] = NoTask /\ worker'[w] = "idle"
      /\ \A v \in Workers : v # w => task'[v] = task[v] /\ worker'[v] = worker[v]
    BY DEF TypeOK
<1>3. Busy' = Busy \ {w}
    BY <1>2 DEF Busy
<1>4. Cardinality(Busy') = Cardinality(Busy) - 1
    BY <1>1, <1>3, BusyFinite, FS_RemoveElement
<1>5. Cardinality(Busy') \in Nat
    BY <1>3, BusyFinite, FS_CardinalityType, FS_RemoveElement
<1>6. WgCounts'
    BY <1>4, BusyFinite DEF WgCounts
<1>7. wg' \in Nat
    BY <1>5, <1>6 DEF WgCounts
<1>8. TypeOK'
    BY <1>7 DEF TypeOK, WorkerPlaces
<1>9. ErrorNeverCollected' /\ ClientInv' /\ Barrier'
    BY DEF ErrorNeverCollected, ClientInv, Barrier
<1>10. HeldInv'
    BY <1>2 DEF HeldInv
<1>11. ProgressInv'
    BY <1>2 DEF ProgressInv
<1>. QED  BY <1>6, <1>8, <1>9, <1>10, <1>11

LEMMA NextPoolInv == PoolInv /\ [Next]_vars => PoolInv'
<1>. SUFFICES ASSUME PoolInv, [Next]_vars PROVE PoolInv'
    OBVIOUS
<1>1. CASE ClientStep
    BY <1>1, AddTaskInv, EndOfListInv, WaitReturnsInv, ReturnInv DEF ClientStep
<1>2. ASSUME NEW w \in Workers, WorkerStep(w) PROVE PoolInv'
    BY <1>2, StartInv, ReceiveInv, TaskFailsInv, ClosureReturnsInv, DoneInv
       DEF WorkerStep
<1>3. CASE UNCHANGED vars
    BY <1>3 DEF vars, PoolInv, TypeOK, ErrorNeverCollected, WgCounts, Busy,
                ClientInv, HeldInv, ProgressInv, Barrier
<1>. QED  BY <1>1, <1>2, <1>3 DEF Next, Terminated

-----------------------------------------------------------------------------
(* The theorems. *)

\* Every reachable state of the pool satisfies the inductive invariant.
THEOREM PoolInvariant == SafetySpec => []PoolInv
<1>. QED  BY InitPoolInv, NextPoolInv, PTL DEF SafetySpec

\* Type correctness: in particular the counter of the WaitGroup is never
\* negative, which would make wg.Done() panic.
THEOREM TypeCorrect == SafetySpec => []TypeOK
<1>1. PoolInv => TypeOK
    BY DEF PoolInv
<1>. QED  BY <1>1, PoolInvariant, PTL

\* The WaitGroup counts the closures that were offered and are not done.
THEOREM WaitGroupCounts == SafetySpec => []WgCounts
<1>1. PoolInv => WgCounts
    BY DEF PoolInv
<1>. QED  BY <1>1, PoolInvariant, PTL

\* Wait is a barrier between the lists, whatever fails and however the workers
\* are scheduled (threadPool.go:82, netManage.go:157).
THEOREM WaitIsABarrier == SafetySpec => []Barrier
<1>1. PoolInv => Barrier
    BY DEF PoolInv
<1>. QED  BY <1>1, PoolInvariant, PTL

\* The code that returns the first error of the tasks is never reached
\* (netManage.go:158-162).
THEOREM ErrorBranchIsDead == SafetySpec => []ErrorNeverCollected
<1>1. PoolInv => ErrorNeverCollected
    BY DEF PoolInv
<1>. QED  BY <1>1, PoolInvariant, PTL

\* A worker whose task fails never takes another one (threadPool.go:75).
THEOREM LostWorkers == SafetySpec => FailedWorkerIsLost
<1>. DEFINE Lost == \A w \in Workers : worker[w] = "report" => worker'[w] = "report"
<1>1. PoolInv /\ [Next]_vars => [Lost]_vars
  <2>. SUFFICES ASSUME PoolInv, Next, NEW w \in Workers, worker[w] = "report"
                PROVE  worker'[w] = "report"
      OBVIOUS
  <2>1. CASE ClientStep
      BY <2>1 DEF ClientStep, AddTask, EndOfList, WaitReturns, Return
  <2>2. ASSUME NEW v \in Workers, WorkerStep(v) PROVE worker'[w] = "report"
    <3>1. client # "drain"
        BY DEF PoolInv, ErrorNeverCollected
    <3>. QED  BY <2>2, <3>1 DEF WorkerStep, Start, Receive, TaskFails,
                                ClosureReturns, Done, PoolInv, TypeOK
  <2>3. CASE Terminated
      BY <2>3 DEF Terminated, vars
  <2>. QED  BY <2>1, <2>2, <2>3 DEF Next
<1>. QED  BY <1>1, PoolInvariant, PTL DEF SafetySpec, FailedWorkerIsLost

\* The pool implements BatchedTasks: a task completes at most once, and only
\* when every task of the earlier lists has.
THEOREM ImplementsPromise == SafetySpec => PromiseSafety
<1>1. Init => Promise!Init
    BY DEF Init, Promise!Init
<1>2. PoolInv /\ [Next]_vars => [Promise!Next]_completed
  <2>. SUFFICES ASSUME PoolInv, Next PROVE Promise!Next \/ UNCHANGED completed
      BY DEF vars
  <2>1. CASE ClientStep
      BY <2>1 DEF ClientStep, AddTask, EndOfList, WaitReturns, Return
  <2>2. ASSUME NEW w \in Workers, WorkerStep(w)
        PROVE  Promise!Next \/ UNCHANGED completed
    <3>1. CASE ClosureReturns(w)
      <4>1. worker[w] = "run" /\ completed' = completed \cup {task[w]}
          BY <3>1 DEF ClosureReturns, PoolInv, ErrorNeverCollected
      <4>2. task[w] \in Slots /\ task[w][1] = list
          BY <4>1 DEF PoolInv, HeldInv
      <4>3. task[w] \notin completed
          BY <4>1 DEF PoolInv, ProgressInv
      <4>4. Promise!ListsBefore(task[w][1]) \subseteq completed
          BY <4>2 DEF PoolInv, Barrier
      <4>. QED  BY <4>1, <4>2, <4>3, <4>4
                   DEF Promise!Next, Promise!Complete, Slots
    <3>. QED  BY <2>2, <3>1 DEF WorkerStep, Start, Receive, TaskFails, Done
  <2>3. CASE Terminated
      BY <2>3 DEF Terminated, vars
  <2>. QED  BY <2>1, <2>2, <2>3 DEF Next
<1>. QED  BY <1>1, <1>2, PoolInvariant, PTL
             DEF SafetySpec, PromiseSafety, Promise!Safety
=============================================================================
