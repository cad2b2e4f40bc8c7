---------------------------- MODULE ContainerRun ----------------------------
(***************************************************************************)
(* container_run_inner and container_init (agent/code/network/goctr.c):    *)
(* how a container is started.  The parent forks a child, which unshares   *)
(* the namespaces and forks the first process of the container, init.      *)
(* Errors come back through a pipe: the parent reads it once, and gets     *)
(* end-of-file when the last writing end is closed, init's by its exec.    *)
(* The pid of init comes back through an eventfd, which has no             *)
(* end-of-file: a read of it blocks until somebody has written.            *)
(***************************************************************************)
EXTENDS Integers, FiniteSets

CONSTANT MaxKills   \* processes that others (the OOM killer) may kill

ASSUME KillsAssumption == MaxKills \in Nat

Processes == {"parent", "child", "init"}

\* The descriptors: the ends of the pipe, the eventfd, the given namespace.
Descriptors == {"errR", "errW", "event", "netns"}

VARIABLES at,       \* at[p]: where process p is; "none" before its fork
          fds,      \* fds[p]: the descriptors p has open
          pipe,     \* pieces of an error message in the pipe
          counter,  \* the eventfd: "zero" or "pid" of init
          netns,    \* TRUE iff a netns_path was given
          failed,   \* len > 0 in the parent: an error was read
          answer,   \* what container_run_inner returned
          killed,   \* history: the processes killed from outside
          broken    \* history: the reads and writes between the processes that failed

vars == <<at, fds, pipe, counter, netns, failed, answer, killed, broken>>
history == <<killed, broken>>

Places == [parent |-> {"dirs", "pipe", "eventfd", "netns", "fork", "close",
                       "readErr", "waitpid", "readPid", "returned"},
           child  |-> {"none", "unshare", "fork", "write", "err", "err2", "dead"},
           init   |-> {"none", "born", "setup", "ready", "err", "err2", "dead"}]

TypeOK == /\ DOMAIN at = Processes /\ \A p \in Processes : at[p] \in Places[p]
          /\ fds \in [Processes -> SUBSET Descriptors]
          /\ pipe \in 0..2
          /\ counter \in {"zero", "pid"}
          /\ netns \in BOOLEAN /\ failed \in BOOLEAN
          /\ answer \in {"none", "parentErr", "childErr", "pid"}
          /\ killed \subseteq {"child", "init"}
          /\ broken \subseteq {"readErr", "readPid", "writePid"}

Init == /\ at = [p \in Processes |-> IF p = "parent" THEN "dirs" ELSE "none"]
        /\ fds = [p \in Processes |-> {}]
        /\ pipe = 0
        /\ counter = "zero"
        /\ netns \in BOOLEAN
        /\ failed = FALSE
        /\ answer = "none"
        /\ killed = {}
        /\ broken = {}

-----------------------------------------------------------------------------
Goto(p, place) == at' = [at EXCEPT ![p] = place]
Close(p, set) == fds' = [fds EXCEPT ![p] = @ \ set]
Open(p, set) == fds' = [fds EXCEPT ![p] = @ \cup set]

\* The parent returns a with what it still has open.
ReturnWith(a) == Goto("parent", "returned") /\ answer' = a

(* The parent. *)

\* mkdir of the base directory and of upper, work and merged.
MakeDirs ==
    /\ at["parent"] = "dirs"
    /\ \/ Goto("parent", "pipe") /\ UNCHANGED answer
       \/ ReturnWith("parentErr")
    /\ UNCHANGED <<fds, pipe, counter, netns, failed, history>>

MakePipe ==
    /\ at["parent"] = "pipe"
    /\ \/ Goto("parent", "eventfd") /\ Open("parent", {"errR", "errW"}) /\ UNCHANGED answer
       \/ ReturnWith("parentErr") /\ UNCHANGED fds
    /\ UNCHANGED <<pipe, counter, netns, failed, history>>

\* If eventfd fails, the pipe stays open.
MakeEventfd ==
    /\ at["parent"] = "eventfd"
    /\ \/ /\ Goto("parent", IF netns THEN "netns" ELSE "fork")
          /\ Open("parent", {"event"})
          /\ UNCHANGED answer
       \/ ReturnWith("parentErr") /\ UNCHANGED fds
    /\ UNCHANGED <<pipe, counter, netns, failed, history>>

\* If the namespace cannot be opened, pipe and eventfd stay open.
OpenNetns ==
    /\ at["parent"] = "netns"
    /\ \/ Goto("parent", "fork") /\ Open("parent", {"netns"}) /\ UNCHANGED answer
       \/ ReturnWith("parentErr") /\ UNCHANGED fds
    /\ UNCHANGED <<pipe, counter, netns, failed, history>>

\* The child gets a copy of every descriptor and closes its reading end. If
\* fork fails, the namespace stays open.
ForkChild ==
    /\ at["parent"] = "fork"
    /\ \/ /\ at' = [at EXCEPT !["parent"] = "close", !["child"] = "unshare"]
          /\ fds' = [fds EXCEPT !["child"] = fds["parent"] \ {"errR"}]
          /\ UNCHANGED answer
       \/ /\ ReturnWith("parentErr")
          /\ Close("parent", {"errR", "errW", "event"})
    /\ UNCHANGED <<pipe, counter, netns, failed, history>>

\* Faulty variant: the parent keeps its writing end of the pipe.
CloseErrWForgotten ==
    /\ at["parent"] = "close"
    /\ Goto("parent", "readErr")
    /\ Close("parent", {"netns"})
    /\ UNCHANGED <<pipe, counter, netns, failed, answer, history>>

CloseErrW ==
    /\ at["parent"] = "close"
    /\ Goto("parent", "readErr")
    /\ Close("parent", {"errW", "netns"})
    /\ UNCHANGED <<pipe, counter, netns, failed, answer, history>>

\* read(err_fds[0]): what is in the pipe, or end-of-file (goctr.c:398).
ReadErr ==
    /\ at["parent"] = "readErr"
    /\ pipe > 0 \/ \A p \in Processes : "errW" \notin fds[p]
    /\ failed' = (pipe > 0)
    /\ pipe' = 0
    /\ Goto("parent", "waitpid")
    /\ UNCHANGED <<fds, counter, netns, answer, history>>

\* The read fails: len < 0 is taken for end-of-file (goctr.c:402).
ReadErrFails ==
    /\ at["parent"] = "readErr"
    /\ Goto("parent", "waitpid")
    /\ broken' = broken \cup {"readErr"}
    /\ UNCHANGED <<fds, pipe, counter, netns, failed, answer, killed>>

\* Faulty variant: the descriptors stay open when an error was read.
WaitChildLeaks ==
    /\ at["parent"] = "waitpid"
    /\ at["child"] = "dead"
    /\ IF failed
       THEN ReturnWith("childErr")
       ELSE Goto("parent", "readPid") /\ UNCHANGED answer
    /\ UNCHANGED <<fds, pipe, counter, netns, failed, history>>

\* waitpid(pid), which does not fail for one's own child; an error that was read
\* ends the call.
WaitChild ==
    /\ at["parent"] = "waitpid"
    /\ at["child"] = "dead"
    /\ IF failed
       THEN ReturnWith("childErr") /\ Close("parent", {"errR", "event"})
       ELSE Goto("parent", "readPid") /\ UNCHANGED <<fds, answer>>
    /\ UNCHANGED <<pipe, counter, netns, failed, history>>

\* read(event_fd): blocks while the counter is zero.
ReadPid ==
    /\ at["parent"] = "readPid"
    /\ counter = "pid"
    /\ counter' = "zero"
    /\ ReturnWith("pid") /\ Close("parent", {"errR", "event"})
    /\ UNCHANGED <<pipe, netns, failed, history>>

\* The read fails: the pid is lost and -1 returned, an error of the parent,
\* whatever has become of the container (goctr.c:411-418).
ReadPidFails ==
    /\ at["parent"] = "readPid"
    /\ ReturnWith("parentErr") /\ Close("parent", {"errR", "event"})
    /\ broken' = broken \cup {"readPid"}
    /\ UNCHANGED <<pipe, counter, netns, failed, killed>>

ParentStep == \/ MakeDirs \/ MakePipe \/ MakeEventfd \/ OpenNetns \/ ForkChild
              \/ CloseErrW \/ ReadErr \/ WaitChild \/ ReadPid

-----------------------------------------------------------------------------
(* The child. *)

\* Unshare the namespaces, join the given one.
Unshare ==
    /\ at["child"] = "unshare"
    /\ \/ Goto("child", "fork") /\ Close("child", {"netns"})
       \/ Goto("child", "err") /\ Close("child", {"event"})
    /\ UNCHANGED <<pipe, counter, netns, failed, answer, history>>

\* The second fork; init gets a copy of every descriptor. The child closes its
\* writing end before it hands over the pid.
ForkInit ==
    /\ at["child"] = "fork"
    /\ \/ /\ at' = [at EXCEPT !["child"] = "write", !["init"] = "born"]
          /\ fds' = [fds EXCEPT !["init"] = fds["child"], !["child"] = @ \ {"errW"}]
       \/ Goto("child", "err") /\ Close("child", {"event"})
    /\ UNCHANGED <<pipe, counter, netns, failed, answer, history>>

\* Faulty variant: the child leaves without handing over the pid.
WritePidForgotten ==
    /\ at["child"] = "write"
    /\ Goto("child", "dead")
    /\ fds' = [fds EXCEPT !["child"] = {}]
    /\ UNCHANGED <<pipe, counter, netns, failed, answer, history>>

\* write(event_fd), whose result nobody looks at, exit.
WritePid ==
    /\ at["child"] = "write"
    /\ \/ counter' = "pid" /\ UNCHANGED broken
       \/ broken' = broken \cup {"writePid"} /\ UNCHANGED counter
    /\ Goto("child", "dead")
    /\ fds' = [fds EXCEPT !["child"] = {}]
    /\ UNCHANGED <<pipe, netns, failed, answer, killed>>

-----------------------------------------------------------------------------
(* init. *)

CloseEvent ==
    /\ at["init"] = "born"
    /\ Goto("init", "setup")
    /\ Close("init", {"event"})
    /\ UNCHANGED <<pipe, counter, netns, failed, answer, history>>

\* Faulty variant: a failure is only a warning, init goes on to its exec.
SetupWarns ==
    /\ at["init"] = "setup"
    /\ \/ Goto("init", "ready") /\ Close("init", {"errW"}) /\ UNCHANGED pipe
       \/ pipe = 0 /\ pipe' = 1 /\ UNCHANGED <<at, fds>>
    /\ UNCHANGED <<counter, netns, failed, answer, history>>

\* container_init: mounts, pivot_root, session, host name, then the exec, which
\* closes the pipe (FD_CLOEXEC); every failure on the way is reported.
SetupAndExec ==
    /\ at["init"] = "setup"
    /\ \/ Goto("init", "ready") /\ Close("init", {"errW"})
       \/ Goto("init", "err") /\ UNCHANGED fds
    /\ UNCHANGED <<pipe, counter, netns, failed, answer, history>>

\* Faulty variant: child_err closes the pipe before it writes.
ChildErrCloses(p) ==
    /\ at[p] \in {"err", "err2"}
    /\ Goto(p, "dead")
    /\ fds' = [fds EXCEPT ![p] = {}]
    /\ UNCHANGED <<pipe, counter, netns, failed, answer, history>>

\* child_err, in the child or in init: two writes, close, exit. A write to a
\* pipe that nobody can read any more kills the writer.
ChildErr(p) ==
    /\ at[p] \in {"err", "err2"}
    /\ IF "errR" \in fds["parent"] /\ at[p] = "err"
       THEN Goto(p, "err2") /\ pipe' = pipe + 1 /\ UNCHANGED fds
       ELSE /\ pipe' = IF "errR" \in fds["parent"] THEN pipe + 1 ELSE pipe
            /\ Goto(p, "dead")
            /\ fds' = [fds EXCEPT ![p] = {}]
    /\ UNCHANGED <<counter, netns, failed, answer, history>>

ChildStep == Unshare \/ ForkInit \/ WritePid \/ ChildErr("child")
InitStep == CloseEvent \/ SetupAndExec \/ ChildErr("init")

-----------------------------------------------------------------------------
\* A process is killed from outside (the OOM killer of a full VM).
Kill(p) ==
    /\ Cardinality(killed) < MaxKills
    /\ at[p] \notin {"none", "dead"}
    /\ Goto(p, "dead")
    /\ fds' = [fds EXCEPT ![p] = {}]
    /\ killed' = killed \cup {p}
    /\ UNCHANGED <<pipe, counter, netns, failed, answer, broken>>

Terminated == at["parent"] = "returned" /\ UNCHANGED vars

Next == ParentStep \/ ChildStep \/ InitStep \/ ReadErrFails \/ ReadPidFails
          \/ (\E p \in {"child", "init"} : Kill(p)) \/ Terminated

\* Each process is scheduled; nobody is obliged to kill, and a read that blocks
\* need not fail.
Fairness == WF_vars(ParentStep) /\ WF_vars(ChildStep) /\ WF_vars(InitStep)

Spec == Init /\ [][Next]_vars /\ Fairness
-----------------------------------------------------------------------------
(* Properties. *)

\* The pid of a container is returned only when its init has got through its
\* set-up, unless it was killed: end-of-file on the pipe stands for success. A
\* read of the pipe that fails is taken for end-of-file too (goctr.c:398-402).
SuccessMeansReady ==
    answer = "pid" => \/ at["init"] = "ready"
                      \/ "init" \in killed
                      \/ "readErr" \in broken

\* When an error is returned, no container comes up any more and what was
\* started is on its way to its end. One error return leaves a container
\* running that no pid file names: the one where the pid cannot be read
\* (goctr.c:414); the child is gone even then.
FailureMeansGone ==
    answer \in {"parentErr", "childErr"} =>
        /\ at["init"] \in {"none", "err2", "dead"} \/ "readPid" \in broken
        /\ at["child"] \in {"none", "dead"}

\* When the parent comes to the eventfd the pid has been written, so the read
\* does not block (goctr.c:411), unless the child was killed in between, its
\* write failed (:388), or a report of the child was not read (:402).
PidIsThere ==
    at["parent"] = "readPid" => \/ counter = "pid"
                                \/ "child" \in killed
                                \/ broken \cap {"readErr", "writePid"} # {}

\* After a fork every path of the parent closes its descriptors, and none of
\* them goes on living in the container. (The three early returns before the
\* fork leave descriptors open: goctr.c:335, 344, 350.)
NoDescriptorLeft ==
    /\ at["parent"] = "returned" /\ at["child"] # "none" => fds["parent"] = {}
    /\ at["init"] = "ready" => fds["init"] = {}

\* container_run_inner returns, and what it reported as failed ends, except where
\* the pid could not be read (FailureMeansGone). It may wait for the pid for ever
\* when the child was killed before it had handed it over, when the child's write
\* failed, or when its report was not read.
RunEnds == <>(\/ /\ at["parent"] = "returned"
                 /\ answer = "pid" \/ at["init"] \in {"none", "dead"} \/ "readPid" \in broken
              \/ "child" \in killed
              \/ broken \cap {"readErr", "writePid"} # {})
=============================================================================
