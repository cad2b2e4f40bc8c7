---------------------------- MODULE BatchedTasks ----------------------------
(***************************************************************************)
(* What the parallel link set-up of NetworkSetup promises its caller: the  *)
(* tasks come in lists, one list per node of the set-up order; a task runs *)
(* at most once, and never before every task of the earlier lists has      *)
(* finished.  ThreadPool is shown to implement this.                       *)
(***************************************************************************)
EXTENDS Integers, FiniteSets

CONSTANTS NumLists,  \* number of task lists (nodes of the set-up order)
          ListLen    \* ListLen[i]: number of tasks in list i

\* A task is named by its place: <<list, position in the list>>.
Slots == UNION {{i} \X (1..ListLen[i]) : i \in 1..NumLists}

ListsBefore(i) == {s \in Slots : s[1] < i}

-----------------------------------------------------------------------------
VARIABLE completed   \* the tasks that have run to their end

Init == completed = {}

Complete(s) == /\ s \notin completed
               /\ ListsBefore(s[1]) \subseteq completed
               /\ completed' = completed \cup {s}

Next == \E s \in Slots : Complete(s)

Safety == Init /\ [][Next]_completed
=============================================================================
