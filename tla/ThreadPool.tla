----------------------------- MODULE ThreadPool -----------------------------
(***************************************************************************)
(* agent/code/network/threadPool.go and its only client, the parallel link *)
(* loop of NetworkSetup (netManage.go).  The client walks the lists of     *)
(* edgeOrder, hands every link of a list to the pool with AddTask, and     *)
(* calls Wait at the end of each list that is not empty.                   *)
(*                                                                         *)
(* The two channels of the pool are made without a capacity, so a send and *)
(* its receive are one step: the closure passes from the client to a       *)
(* worker in Receive, and an error could pass only from a worker in        *)
(* "report" to a client in "drain".                                        *)
(***************************************************************************)
EXTENDS Integers, FiniteSets

CONSTANTS Workers,   \* the goroutines started by Run, one per numWorkers
          NumLists,  \* length of edgeOrder
          ListLen,   \* ListLen[i]: number of edges in edgeOrder[i]
          MayFail    \* the tasks whose function may return an error

ASSUME WorkersAssumption == IsFiniteSet(Workers)
ASSUME ListsAssumption == /\ NumLists \in Nat
                          /\ ListLen \in [1..NumLists -> Nat]

VARIABLES client,    \* where the goroutine that runs NetworkSetup is
          list,      \* the list it walks (NumLists + 1: past the last)
          pos,       \* how many tasks of that list the workers have taken
          wg,        \* ThreadPool.wg, the counter of the WaitGroup
          hasError,  \* ThreadPool.hasError
          worker,    \* worker[w]: where worker w is
          task,      \* task[w]: the closure it runs, NoTask if none
          completed  \* history: the tasks whose closure has returned

vars == <<client, list, pos, wg, hasError, worker, task, completed>>

Promise == INSTANCE BatchedTasks

Slots == Promise!Slots
NoTask == <<0, 0>>

ClientPlaces == {"loop", "send", "wait", "drain", "returned", "failed"}
WorkerPlaces == {"start", "idle", "run", "report", "ended"}

\* Workers between taking a closure and wg.Done().
Busy == {w \in Workers : task[w] # NoTask}

TypeOK == /\ client \in ClientPlaces
          /\ list \in 1..(NumLists + 1)
          /\ pos \in Nat
          /\ wg \in Nat
          /\ hasError \in BOOLEAN
          /\ worker \in [Workers -> WorkerPlaces]
          /\ task \in [Workers -> Slots \cup {NoTask}]
          /\ completed \in SUBSET Slots

-----------------------------------------------------------------------------
\* NewThreadPool and Run: the workers are started, nothing is submitted.
Init == /\ client = "loop"
        /\ list = 1
        /\ pos = 0
        /\ wg = 0
        /\ hasError = FALSE
        /\ worker = [w \in Workers |-> "start"]
        /\ task = [w \in Workers |-> NoTask]
        /\ completed = {}

-----------------------------------------------------------------------------
(* The client. *)

\* Faulty variant: AddTask that leaves the wg.Add(1) to the worker.
AddTaskUncounted ==
    /\ client = "loop"
    /\ list <= NumLists
    /\ pos < ListLen[list]
    /\ client' = "send"
    /\ UNCHANGED <<list, pos, wg, hasError, worker, task, completed>>

\* AddTask: wg.Add(1), then the client blocks in `p.tasks <- closure`.
AddTask ==
    /\ client = "loop"
    /\ list <= NumLists
    /\ pos < ListLen[list]
    /\ wg' = wg + 1
    /\ client' = "send"
    /\ UNCHANGED <<list, pos, hasError, worker, task, completed>>

\* The end of `range edgeOrder[i]`: Wait is called unless the list is empty.
EndOfList ==
    /\ client = "loop"
    /\ list <= NumLists
    /\ pos = ListLen[list]
    /\ IF pos > 0
       THEN client' = "wait" /\ UNCHANGED <<list, pos>>
       ELSE list' = list + 1 /\ pos' = 0 /\ UNCHANGED client
    /\ UNCHANGED <<wg, hasError, worker, task, completed>>

\* Faulty variant: Wait lets the client go while one task is still counted.
WaitReturnsEarly ==
    /\ client = "wait"
    /\ wg <= 1
    /\ list' = list + 1
    /\ pos' = 0
    /\ client' = "loop"
    /\ UNCHANGED <<wg, hasError, worker, task, completed>>

\* wg.Wait() returns; the client then looks at hasError.
WaitReturns ==
    /\ client = "wait"
    /\ wg = 0
    /\ IF hasError
       THEN client' = "drain" /\ UNCHANGED <<list, pos>>
       ELSE client' = "loop" /\ list' = list + 1 /\ pos' = 0
    /\ UNCHANGED <<wg, hasError, worker, task, completed>>

\* The loop over the lists ends.
Return ==
    /\ client = "loop"
    /\ list > NumLists
    /\ client' = "returned"
    /\ UNCHANGED <<list, pos, wg, hasError, worker, task, completed>>

-----------------------------------------------------------------------------
(* A worker. *)

\* The goroutine has saved its namespace and ranges over p.tasks.
Start(w) ==
    /\ worker[w] = "start"
    /\ worker' = [worker EXCEPT ![w] = "idle"]
    /\ UNCHANGED <<client, list, pos, wg, hasError, task, completed>>

\* The rendezvous on p.tasks: the worker takes the closure the client offers.
Receive(w) ==
    /\ client = "send"
    /\ worker[w] = "idle"
    /\ task' = [task EXCEPT ![w] = <<list, pos + 1>>]
    /\ worker' = [worker EXCEPT ![w] = "run"]
    /\ pos' = pos + 1
    /\ client' = "loop"
    /\ UNCHANGED <<list, wg, hasError, completed>>

\* Faulty variant: the error is dropped instead of sent, the closure ends.
TaskFailsSilently(w) ==
    /\ worker[w] = "run"
    /\ task[w] \in MayFail
    /\ hasError' = TRUE
    /\ worker' = [worker EXCEPT ![w] = "ended"]
    /\ UNCHANGED <<client, list, pos, wg, task, completed>>

\* The function returns an error: the closure blocks in `p.errors <- err`.
TaskFails(w) ==
    /\ worker[w] = "run"
    /\ task[w] \in MayFail
    /\ worker' = [worker EXCEPT ![w] = "report"]
    /\ UNCHANGED <<client, list, pos, wg, hasError, task, completed>>

\* Faulty variant: an error nobody receives is dropped (a select with a
\* default), and the closure returns.
ClosureReturnsDropping(w) ==
    /\ worker[w] \in {"run", "report"}
    /\ completed' = completed \cup {task[w]}
    /\ worker' = [worker EXCEPT ![w] = "ended"]
    /\ UNCHANGED <<client, list, pos, wg, hasError, task>>

\* The closure returns: the function gave nil, or the error found a receiver
\* (`for err := range threadPool.errors`, which makes NetworkSetup return it).
ClosureReturns(w) ==
    /\ \/ /\ worker[w] = "run"
          /\ completed' = completed \cup {task[w]}
          /\ UNCHANGED <<client, hasError>>
       \/ /\ worker[w] = "report"
          /\ client = "drain"
          /\ client' = "failed"
          /\ hasError' = TRUE
          /\ UNCHANGED completed
    /\ worker' = [worker EXCEPT ![w] = "ended"]
    /\ UNCHANGED <<list, pos, wg, task>>

\* Faulty variant: wg.Done() called before the closure has returned.
DoneBeforeEnd(w) ==
    /\ worker[w] \in {"run", "ended"}
    /\ wg' = wg - 1
    /\ task' = [task EXCEPT ![w] = NoTask]
    /\ worker' = [worker EXCEPT ![w] = "idle"]
    /\ UNCHANGED <<client, list, pos, hasError, completed>>

\* Faulty variant: the worker leaves its loop after one task.
DoneAndExit(w) ==
    /\ worker[w] = "ended"
    /\ wg' = wg - 1
    /\ task' = [task EXCEPT ![w] = NoTask]
    /\ worker' = [worker EXCEPT ![w] = "exited"]
    /\ UNCHANGED <<client, list, pos, hasError, completed>>

\* taskWrapper has put the thread back in its namespace; wg.Done(), then the
\* worker ranges on.
Done(w) ==
    /\ worker[w] = "ended"
    /\ wg' = wg - 1
    /\ task' = [task EXCEPT ![w] = NoTask]
    /\ worker' = [worker EXCEPT ![w] = "idle"]
    /\ UNCHANGED <<client, list, pos, hasError, completed>>

-----------------------------------------------------------------------------
\* p.tasks is never closed: when the client has left, the workers stay blocked.
Terminated == client \in {"returned", "failed"} /\ UNCHANGED vars

ClientStep == AddTask \/ EndOfList \/ WaitReturns \/ Return
WorkerStep(w) ==
    Start(w) \/ Receive(w) \/ TaskFails(w) \/ ClosureReturns(w) \/ Done(w)

Next == ClientStep \/ (\E w \in Workers : WorkerStep(w)) \/ Terminated

\* The Go scheduler runs every goroutine that is not blocked.
Fairness == /\ WF_vars(ClientStep)
            /\ \A w \in Workers : WF_vars(WorkerStep(w))

SafetySpec == Init /\ [][Next]_vars
Spec == SafetySpec /\ Fairness
-----------------------------------------------------------------------------
(* Properties. *)

\* The WaitGroup counts exactly the closures that were offered with AddTask
\* and whose wg.Done() has not run, however the workers and the client
\* interleave (threadPool.go:64,70).
WgCounts == wg = Cardinality(Busy) + (IF client = "send" THEN 1 ELSE 0)

\* NetworkSetup works on a list only when every task of the earlier lists has
\* finished: Wait is a barrier, also when tasks fail (netManage.go:157).  In
\* particular it never returns success with a link missing.
Barrier == Promise!ListsBefore(list) \subseteq completed

\* The loop that should return the first error of the tasks is never entered
\* and hasError never becomes true: an error can leave a worker only after
\* Wait, and Wait returns only when no worker holds one (threadPool.go:75-76,
\* netManage.go:158-162).
ErrorNeverCollected == ~hasError /\ client \notin {"drain", "failed"}

\* A task that failed keeps its worker for ever (threadPool.go:75).
FailedWorkerIsLost ==
    [][\A w \in Workers : worker[w] = "report" => worker'[w] = "report"]_vars

\* The pool runs every task at most once and one list after the other.
PromiseSafety == Promise!Safety

\* NetworkSetup gets through all its lists unless a task fails: nobody waits
\* for ever on the channel or on the WaitGroup (threadPool.go:71,82).
Termination ==
    <>(client = "returned" \/ \E w \in Workers : worker[w] = "report")

\* What the comment on Wait says: it waits for all tasks and returns
\* (threadPool.go:81).
WaitReturnsEventually == (client = "wait") ~> (client # "wait")
-----------------------------------------------------------------------------
(* The inductive invariant behind the theorems of ThreadPoolProofs. *)

\* Where the client can be for the values of list and pos.
ClientInv ==
    /\ list \in 1..NumLists => pos <= ListLen[list]
    /\ list > NumLists => pos = 0 /\ client \in {"loop", "returned"}
    /\ client = "send" => pos < ListLen[list]
    /\ client = "wait" => pos = ListLen[list]
    /\ client = "returned" => list > NumLists

\* A worker holds a closure exactly while it works on it; the closure is one
\* the client has handed out of the list it is on, and nobody else's.
HeldInv ==
    /\ \A w \in Workers : task[w] = NoTask <=> worker[w] \in {"start", "idle"}
    /\ \A w \in Workers : task[w] # NoTask =>
           /\ task[w] \in Slots
           /\ task[w][1] = list
           /\ task[w][2] <= pos
    /\ \A v, w \in Workers : v # w /\ task[v] # NoTask => task[v] # task[w]

\* Of the list the client is on, the tasks handed out have completed or are
\* with a worker, never both.
ProgressInv ==
    /\ \A w \in Workers :
           worker[w] \in {"run", "report"} => task[w] \notin completed
    /\ \A s \in Slots : s[1] = list /\ s[2] <= pos =>
           s \in completed
             \/ \E w \in Workers : task[w] = s /\ worker[w] \in {"run", "report"}
    /\ \A s \in completed : s[1] < list \/ (s[1] = list /\ s[2] <= pos)

\* Everything that is known of a reachable state of the pool.
PoolInv == /\ TypeOK
           /\ ErrorNeverCollected
           /\ WgCounts
           /\ ClientInv
           /\ HeldInv
           /\ ProgressInv
           /\ Barrier
=============================================================================
