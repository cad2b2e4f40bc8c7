------------------------- MODULE ContainerRunProofs -------------------------
(* Proofs about ContainerRun for any number of kills.                        *)
EXTENDS ContainerRun, TLAPS

BeforeFork == {"dirs", "pipe", "eventfd", "netns", "fork"}
AfterFork == {"close", "readErr", "waitpid", "readPid"}

(* The parent's descriptors at each place. A failure between two of the      *)
(* calls that open them leaves some open, but then there is no child.        *)
ParentFds ==
    /\ at["parent"] \in {"dirs", "pipe"} => fds["parent"] = {}
    /\ at["parent"] = "eventfd" => fds["parent"] = {"errR", "errW"}
    /\ at["parent"] = "netns" => fds["parent"] = {"errR", "errW", "event"}
    /\ at["parent"] \in {"fork", "close"} =>
           fds["parent"] \in {{"errR", "errW", "event"}, {"errR", "errW", "event", "netns"}}
    /\ at["parent"] \in {"readErr", "waitpid", "readPid"} => fds["parent"] = {"errR", "event"}
    /\ at["parent"] = "returned" /\ at["child"] # "none" => fds["parent"] = {}

(* The writing ends of the pipe: as long as the child or init can still      *)
(* report an error it has one, and afterwards it has none.                   *)
WriterFds ==
    /\ at["child"] = "unshare" =>
           fds["child"] \in {{"errW", "event"}, {"errW", "event", "netns"}}
    /\ at["child"] = "fork" => fds["child"] = {"errW", "event"}
    /\ at["child"] \in {"err", "err2"} => "errW" \in fds["child"]
    /\ at["child"] = "write" => "errW" \notin fds["child"]
    /\ at["child"] \in {"none", "dead"} => fds["child"] = {}
    /\ at["init"] = "born" => fds["init"] = {"errW", "event"}
    /\ at["init"] \in {"setup", "err", "err2"} => fds["init"] = {"errW"}
    /\ at["init"] \in {"none", "ready", "dead"} => fds["init"] = {}

(* Which places go together: who has been forked and what the parent can     *)
(* have returned.                                                            *)
Forked ==
    /\ at["parent"] \in BeforeFork => at["child"] = "none"
    /\ at["parent"] \in AfterFork => at["child"] # "none"
    /\ answer # "none" <=> at["parent"] = "returned"
    /\ at["parent"] = "returned" /\ at["child"] = "none" => answer = "parentErr"
    /\ answer = "parentErr" => \/ at["child"] = "none"
                               \/ at["child"] = "dead" /\ "readPid" \in broken
    /\ at["child"] \in {"none", "unshare", "fork", "err", "err2"} => at["init"] = "none"
    /\ at["child"] = "write" => at["init"] # "none"

(* An error comes from the child, which then never forks, or from init,      *)
(* which then never gets through its set-up. Each writes at most two pieces. *)
Reported ==
    /\ pipe > 0 \/ failed => \/ at["init"] \in {"err2", "dead"}
                             \/ at["init"] = "none" /\ at["child"] \in {"err2", "dead"}
    /\ at["child"] = "err" \/ at["init"] = "err" => pipe = 0
    /\ at["child"] = "err2" \/ at["init"] = "err2" => pipe <= 1

(* While the parent listens nobody dies of an error without a report, and    *)
(* the child does not leave before it has handed over the pid.               *)
NoSilentDeath ==
    /\ at["parent"] \in AfterFork =>
         /\ at["child"] = "err2" \/ at["init"] = "err2" => pipe > 0 \/ failed
         /\ at["init"] = "dead" => pipe > 0 \/ failed \/ "init" \in killed
         /\ at["child"] = "dead" => \/ pipe > 0 \/ failed \/ counter = "pid"
                                    \/ "child" \in killed \/ "writePid" \in broken
    /\ counter = "pid" => at["init"] # "none"

(* End-of-file: after it nobody is left who could fail. A read of the pipe   *)
(* that failed says nothing of the sort.                                     *)
EndOfFile ==
    /\ failed => at["parent"] \in {"waitpid", "returned"}
    /\ (/\ at["parent"] \in {"waitpid", "readPid", "returned"}
        /\ ~failed /\ answer # "parentErr" /\ "readErr" \notin broken) =>
         /\ at["child"] \in {"write", "dead"}
         /\ at["init"] \in {"none", "ready", "dead"}
         /\ at["init"] = "dead" => "init" \in killed
         /\ pipe = 0
    /\ at["parent"] = "readPid" \/ answer \in {"childErr", "pid"} => at["child"] = "dead"
    /\ answer = "childErr" => failed
    /\ answer = "pid" => ~failed /\ at["init"] # "none"

RunInv == TypeOK /\ ParentFds /\ WriterFds /\ Forked /\ Reported /\ NoSilentDeath /\ EndOfFile

-----------------------------------------------------------------------------
(* The places one by one.                                                    *)
LEMMA PlacesOf ==
    /\ Places["parent"] = {"dirs", "pipe", "eventfd", "netns", "fork", "close", "readErr",
                            "waitpid", "readPid", "returned"}
    /\ Places["child"] = {"none", "unshare", "fork", "write", "err", "err2", "dead"}
    /\ Places["init"] = {"none", "born", "setup", "ready", "err", "err2", "dead"}
BY DEF Places

(* At most two pieces are ever in the pipe, the rest is routine.              *)
LEMMA NextType ==
    ASSUME TypeOK, Forked, Reported, [Next]_vars
    PROVE  TypeOK'
<1> USE PlacesOf DEF history, TypeOK, Forked, Reported, Processes, Descriptors, BeforeFork, AfterFork
<1>1. CASE MakeDirs \/ MakePipe \/ MakeEventfd \/ OpenNetns
  <2>1. CASE MakeDirs
    BY <2>1 DEF MakeDirs, Goto, ReturnWith
  <2>2. CASE MakePipe
    BY <2>2 DEF MakePipe, Goto, Open, ReturnWith
  <2>3. CASE MakeEventfd
    BY <2>3 DEF MakeEventfd, Goto, Open, ReturnWith
  <2>4. CASE OpenNetns
    BY <2>4 DEF OpenNetns, Goto, Open, ReturnWith
  <2> QED
    BY <1>1, <2>1, <2>2, <2>3, <2>4
<1>2. CASE ForkChild
  BY <1>2 DEF ForkChild, Goto, Close, ReturnWith
<1>3. CASE CloseErrW
  BY <1>3 DEF CloseErrW, Goto, Close
<1>4. CASE ReadErr
  BY <1>4 DEF ReadErr, Goto
<1>5. CASE ReadErrFails
  BY <1>5 DEF ReadErrFails, Goto
<1>6. CASE ReadPidFails
  BY <1>6 DEF ReadPidFails, Goto, Close, ReturnWith
<1>7. CASE WaitChild
  BY <1>7 DEF WaitChild, Goto, Close, ReturnWith
<1>8. CASE ReadPid
  BY <1>8 DEF ReadPid, Goto, Close, ReturnWith
<1>9. CASE Unshare
  BY <1>9 DEF Unshare, Goto, Close
<1>10. CASE ForkInit
  BY <1>10 DEF ForkInit, Goto, Close
<1>11. CASE WritePid
  BY <1>11 DEF WritePid, Goto
<1>12. CASE CloseEvent
  BY <1>12 DEF CloseEvent, Goto, Close
<1>13. CASE SetupAndExec
  BY <1>13 DEF SetupAndExec, Goto, Close
<1>14. ASSUME NEW p \in {"child", "init"}, ChildErr(p)
      PROVE  TypeOK'
  BY <1>14 DEF ChildErr, Goto
<1>15. ASSUME NEW p \in {"child", "init"}, Kill(p)
      PROVE  TypeOK'
  BY <1>15 DEF Kill, Goto
<1>16. CASE UNCHANGED vars
  BY <1>16 DEF vars, history
<1> QED
  BY <1>1, <1>2, <1>3, <1>4, <1>5, <1>6, <1>7, <1>8, <1>9, <1>10, <1>11,
     <1>12, <1>13, <1>14, <1>15, <1>16
     DEF Next, ParentStep, ChildStep, InitStep, Terminated

(* What the parent has open is decided by the parent alone.                  *)
LEMMA NextParentFds ==
    ASSUME TypeOK, ParentFds, Forked, [Next]_vars
    PROVE  ParentFds'
<1> USE PlacesOf DEF history, TypeOK, ParentFds, Forked, Processes, Descriptors, BeforeFork, AfterFork
<1>1. CASE MakeDirs \/ MakePipe \/ MakeEventfd \/ OpenNetns
  BY <1>1 DEF MakeDirs, MakePipe, MakeEventfd, OpenNetns, Goto, Open, ReturnWith
<1>2. CASE ForkChild
  BY <1>2 DEF ForkChild, Goto, Close, ReturnWith
<1>3. CASE CloseErrW
  BY <1>3 DEF CloseErrW, Goto, Close
<1>4. CASE ReadErr
  BY <1>4 DEF ReadErr, Goto
<1>5. CASE ReadErrFails
  BY <1>5 DEF ReadErrFails, Goto
<1>6. CASE ReadPidFails
  BY <1>6 DEF ReadPidFails, Goto, Close, ReturnWith
<1>7. CASE WaitChild
  BY <1>7 DEF WaitChild, Goto, Close, ReturnWith
<1>8. CASE ReadPid
  BY <1>8 DEF ReadPid, Goto, Close, ReturnWith
<1>9. CASE Unshare
  BY <1>9 DEF Unshare, Goto, Close
<1>10. CASE ForkInit
  BY <1>10 DEF ForkInit, Goto, Close
<1>11. CASE WritePid
  BY <1>11 DEF WritePid, Goto
<1>12. CASE CloseEvent
  BY <1>12 DEF CloseEvent, Goto, Close
<1>13. CASE SetupAndExec
  BY <1>13 DEF SetupAndExec, Goto, Close
<1>14. ASSUME NEW p \in {"child", "init"}, ChildErr(p)
      PROVE  ParentFds'
  BY <1>14 DEF ChildErr, Goto
<1>15. ASSUME NEW p \in {"child", "init"}, Kill(p)
      PROVE  ParentFds'
  BY <1>15 DEF Kill, Goto
<1>16. CASE UNCHANGED vars
  BY <1>16 DEF vars, history
<1> QED
  BY <1>1, <1>2, <1>3, <1>4, <1>5, <1>6, <1>7, <1>8, <1>9, <1>10, <1>11,
     <1>12, <1>13, <1>14, <1>15, <1>16
     DEF Next, ParentStep, ChildStep, InitStep, Terminated

(* The child and init inherit the writing end and close it on every way out. *)
LEMMA NextWriterFds ==
    ASSUME TypeOK, ParentFds, WriterFds, Forked, [Next]_vars
    PROVE  WriterFds'
<1> USE PlacesOf DEF history, TypeOK, ParentFds, WriterFds, Forked,
        Processes, Descriptors, BeforeFork, AfterFork
<1>1. CASE MakeDirs \/ MakePipe \/ MakeEventfd \/ OpenNetns
  BY <1>1 DEF MakeDirs, MakePipe, MakeEventfd, OpenNetns, Goto, Open, ReturnWith
<1>2. CASE ForkChild
  BY <1>2 DEF ForkChild, Goto, Close, ReturnWith
<1>3. CASE CloseErrW
  BY <1>3 DEF CloseErrW, Goto, Close
<1>4. CASE ReadErr
  BY <1>4 DEF ReadErr, Goto
<1>5. CASE ReadErrFails
  BY <1>5 DEF ReadErrFails, Goto
<1>6. CASE ReadPidFails
  BY <1>6 DEF ReadPidFails, Goto, Close, ReturnWith
<1>7. CASE WaitChild
  BY <1>7 DEF WaitChild, Goto, Close, ReturnWith
<1>8. CASE ReadPid
  BY <1>8 DEF ReadPid, Goto, Close, ReturnWith
<1>9. CASE Unshare
  BY <1>9 DEF Unshare, Goto, Close
<1>10. CASE ForkInit
  BY <1>10 DEF ForkInit, Goto, Close
<1>11. CASE WritePid
  BY <1>11 DEF WritePid, Goto
<1>12. CASE CloseEvent
  BY <1>12 DEF CloseEvent, Goto, Close
<1>13. CASE SetupAndExec
  BY <1>13 DEF SetupAndExec, Goto, Close
<1>14. ASSUME NEW p \in {"child", "init"}, ChildErr(p)
      PROVE  WriterFds'
  BY <1>14 DEF ChildErr, Goto
<1>15. ASSUME NEW p \in {"child", "init"}, Kill(p)
      PROVE  WriterFds'
  BY <1>15 DEF Kill, Goto
<1>16. CASE UNCHANGED vars
  BY <1>16 DEF vars, history
<1> QED
  BY <1>1, <1>2, <1>3, <1>4, <1>5, <1>6, <1>7, <1>8, <1>9, <1>10, <1>11,
     <1>12, <1>13, <1>14, <1>15, <1>16
     DEF Next, ParentStep, ChildStep, InitStep, Terminated

(* The child is forked by the parent, init by the child.                     *)
LEMMA NextForked ==
    ASSUME TypeOK, Forked, EndOfFile, [Next]_vars
    PROVE  Forked'
<1> USE PlacesOf DEF history, TypeOK, Forked, EndOfFile, Processes, Descriptors, BeforeFork, AfterFork
<1>1. CASE MakeDirs \/ MakePipe \/ MakeEventfd \/ OpenNetns
  BY <1>1 DEF MakeDirs, MakePipe, MakeEventfd, OpenNetns, Goto, Open, ReturnWith
<1>2. CASE ForkChild
  BY <1>2 DEF ForkChild, Goto, Close, ReturnWith
<1>3. CASE CloseErrW
  BY <1>3 DEF CloseErrW, Goto, Close
<1>4. CASE ReadErr
  BY <1>4 DEF ReadErr, Goto
<1>5. CASE ReadErrFails
  BY <1>5 DEF ReadErrFails, Goto
<1>6. CASE ReadPidFails
  BY <1>6 DEF ReadPidFails, Goto, Close, ReturnWith
<1>7. CASE WaitChild
  BY <1>7 DEF WaitChild, Goto, Close, ReturnWith
<1>8. CASE ReadPid
  BY <1>8 DEF ReadPid, Goto, Close, ReturnWith
<1>9. CASE Unshare
  BY <1>9 DEF Unshare, Goto, Close
<1>10. CASE ForkInit
  BY <1>10 DEF ForkInit, Goto, Close
<1>11. CASE WritePid
  BY <1>11 DEF WritePid, Goto
<1>12. CASE CloseEvent
  BY <1>12 DEF CloseEvent, Goto, Close
<1>13. CASE SetupAndExec
  BY <1>13 DEF SetupAndExec, Goto, Close
<1>14. ASSUME NEW p \in {"child", "init"}, ChildErr(p)
      PROVE  Forked'
  BY <1>14 DEF ChildErr, Goto
<1>15. ASSUME NEW p \in {"child", "init"}, Kill(p)
      PROVE  Forked'
  BY <1>15 DEF Kill, Goto
<1>16. CASE UNCHANGED vars
  BY <1>16 DEF vars, history
<1> QED
  BY <1>1, <1>2, <1>3, <1>4, <1>5, <1>6, <1>7, <1>8, <1>9, <1>10, <1>11,
     <1>12, <1>13, <1>14, <1>15, <1>16
     DEF Next, ParentStep, ChildStep, InitStep, Terminated

(* Only one of the child and init ever reports.                              *)
LEMMA NextReported ==
    ASSUME TypeOK, Forked, Reported, [Next]_vars
    PROVE  Reported'
<1> USE PlacesOf DEF history, TypeOK, Forked, Reported, Processes, Descriptors, BeforeFork, AfterFork
<1>1. CASE MakeDirs \/ MakePipe \/ MakeEventfd \/ OpenNetns
  BY <1>1 DEF MakeDirs, MakePipe, MakeEventfd, OpenNetns, Goto, Open, ReturnWith
<1>2. CASE ForkChild
  BY <1>2 DEF ForkChild, Goto, Close, ReturnWith
<1>3. CASE CloseErrW
  BY <1>3 DEF CloseErrW, Goto, Close
<1>4. CASE ReadErr
  BY <1>4 DEF ReadErr, Goto
<1>5. CASE ReadErrFails
  BY <1>5 DEF ReadErrFails, Goto
<1>6. CASE ReadPidFails
  BY <1>6 DEF ReadPidFails, Goto, Close, ReturnWith
<1>7. CASE WaitChild
  BY <1>7 DEF WaitChild, Goto, Close, ReturnWith
<1>8. CASE ReadPid
  BY <1>8 DEF ReadPid, Goto, Close, ReturnWith
<1>9. CASE Unshare
  BY <1>9 DEF Unshare, Goto, Close
<1>10. CASE ForkInit
  BY <1>10 DEF ForkInit, Goto, Close
<1>11. CASE WritePid
  BY <1>11 DEF WritePid, Goto
<1>12. CASE CloseEvent
  BY <1>12 DEF CloseEvent, Goto, Close
<1>13. CASE SetupAndExec
  BY <1>13 DEF SetupAndExec, Goto, Close
<1>14. ASSUME NEW p \in {"child", "init"}, ChildErr(p)
      PROVE  Reported'
  BY <1>14 DEF ChildErr, Goto
<1>15. ASSUME NEW p \in {"child", "init"}, Kill(p)
      PROVE  Reported'
  BY <1>15 DEF Kill, Goto
<1>16. CASE UNCHANGED vars
  BY <1>16 DEF vars, history
<1> QED
  BY <1>1, <1>2, <1>3, <1>4, <1>5, <1>6, <1>7, <1>8, <1>9, <1>10, <1>11,
     <1>12, <1>13, <1>14, <1>15, <1>16
     DEF Next, ParentStep, ChildStep, InitStep, Terminated

(* The parent has its reading end open until it returns, so a report reaches *)
(* the pipe; taking it out of the pipe sets failed.                           *)
LEMMA NextNoSilentDeath ==
    ASSUME TypeOK, ParentFds, WriterFds, Forked, Reported, NoSilentDeath, EndOfFile, [Next]_vars
    PROVE  NoSilentDeath'
<1> USE PlacesOf DEF history, TypeOK, ParentFds, WriterFds, Forked, Reported, NoSilentDeath, EndOfFile,
        Processes, Descriptors, BeforeFork, AfterFork
<1>1. CASE MakeDirs \/ MakePipe \/ MakeEventfd \/ OpenNetns
  BY <1>1 DEF MakeDirs, MakePipe, MakeEventfd, OpenNetns, Goto, Open, ReturnWith
<1>2. CASE ForkChild
  BY <1>2 DEF ForkChild, Goto, Close, ReturnWith
<1>3. CASE CloseErrW
  BY <1>3 DEF CloseErrW, Goto, Close
<1>4. CASE ReadErr
  BY <1>4 DEF ReadErr, Goto
<1>5. CASE ReadErrFails
  BY <1>5 DEF ReadErrFails, Goto
<1>6. CASE ReadPidFails
  BY <1>6 DEF ReadPidFails, Goto, Close, ReturnWith
<1>7. CASE WaitChild
  BY <1>7 DEF WaitChild, Goto, Close, ReturnWith
<1>8. CASE ReadPid
  BY <1>8 DEF ReadPid, Goto, Close, ReturnWith
<1>9. CASE Unshare
  BY <1>9 DEF Unshare, Goto, Close
<1>10. CASE ForkInit
  BY <1>10 DEF ForkInit, Goto, Close
<1>11. CASE WritePid
  BY <1>11 DEF WritePid, Goto
<1>12. CASE CloseEvent
  BY <1>12 DEF CloseEvent, Goto, Close
<1>13. CASE SetupAndExec
  BY <1>13 DEF SetupAndExec, Goto, Close
<1>14. ASSUME NEW p \in {"child", "init"}, ChildErr(p)
      PROVE  NoSilentDeath'
  BY <1>14 DEF ChildErr, Goto
<1>15. ASSUME NEW p \in {"child", "init"}, Kill(p)
      PROVE  NoSilentDeath'
  BY <1>15 DEF Kill, Goto
<1>16. CASE UNCHANGED vars
  BY <1>16 DEF vars, history
<1> QED
  BY <1>1, <1>2, <1>3, <1>4, <1>5, <1>6, <1>7, <1>8, <1>9, <1>10, <1>11,
     <1>12, <1>13, <1>14, <1>15, <1>16
     DEF Next, ParentStep, ChildStep, InitStep, Terminated

(* An empty pipe without writers: nobody who could still fail is running.    *)
LEMMA NextEndOfFile ==
    ASSUME TypeOK, WriterFds, Forked, Reported, NoSilentDeath, EndOfFile, [Next]_vars
    PROVE  EndOfFile'
<1> USE PlacesOf DEF history, TypeOK, WriterFds, Forked, Reported, NoSilentDeath, EndOfFile,
        Processes, Descriptors, BeforeFork, AfterFork
<1>1. CASE MakeDirs \/ MakePipe \/ MakeEventfd \/ OpenNetns
  BY <1>1 DEF MakeDirs, MakePipe, MakeEventfd, OpenNetns, Goto, Open, ReturnWith
<1>2. CASE ForkChild
  BY <1>2 DEF ForkChild, Goto, Close, ReturnWith
<1>3. CASE CloseErrW
  BY <1>3 DEF CloseErrW, Goto, Close
<1>4. CASE ReadErr
  BY <1>4 DEF ReadErr, Goto
<1>5. CASE ReadErrFails
  BY <1>5 DEF ReadErrFails, Goto
<1>6. CASE ReadPidFails
  BY <1>6 DEF ReadPidFails, Goto, Close, ReturnWith
<1>7. CASE WaitChild
  BY <1>7 DEF WaitChild, Goto, Close, ReturnWith
<1>8. CASE ReadPid
  BY <1>8 DEF ReadPid, Goto, Close, ReturnWith
<1>9. CASE Unshare
  BY <1>9 DEF Unshare, Goto, Close
<1>10. CASE ForkInit
  BY <1>10 DEF ForkInit, Goto, Close
<1>11. CASE WritePid
  BY <1>11 DEF WritePid, Goto
<1>12. CASE CloseEvent
  BY <1>12 DEF CloseEvent, Goto, Close
<1>13. CASE SetupAndExec
  BY <1>13 DEF SetupAndExec, Goto, Close
<1>14. ASSUME NEW p \in {"child", "init"}, ChildErr(p)
      PROVE  EndOfFile'
  BY <1>14 DEF ChildErr, Goto
<1>15. ASSUME NEW p \in {"child", "init"}, Kill(p)
      PROVE  EndOfFile'
  BY <1>15 DEF Kill, Goto
<1>16. CASE UNCHANGED vars
  BY <1>16 DEF vars, history
<1> QED
  BY <1>1, <1>2, <1>3, <1>4, <1>5, <1>6, <1>7, <1>8, <1>9, <1>10, <1>11,
     <1>12, <1>13, <1>14, <1>15, <1>16
     DEF Next, ParentStep, ChildStep, InitStep, Terminated

-----------------------------------------------------------------------------
(* The inductive invariant: who lives, what is open, what has been reported. *)
THEOREM RunInvariant == Spec => []RunInv
<1>1. ASSUME Init
      PROVE  RunInv
  <2>1. TypeOK
    <3>1. DOMAIN at = Processes /\ \A p \in Processes : at[p] \in Places[p]
      BY <1>1, PlacesOf DEF Init, Processes
    <3>2. fds \in [Processes -> SUBSET Descriptors] /\ pipe \in 0..2
      BY <1>1 DEF Init
    <3> QED
      BY <1>1, <3>1, <3>2 DEF Init, TypeOK
  <2>2. /\ at["parent"] = "dirs" /\ at["child"] = "none" /\ at["init"] = "none"
        /\ \A p \in Processes : fds[p] = {}
    BY <1>1 DEF Init, Processes
  <2>3. ParentFds /\ WriterFds
    BY <2>2 DEF ParentFds, WriterFds, Processes
  <2>4. Forked /\ Reported
    BY <1>1, <2>2 DEF Init, Forked, Reported, BeforeFork, AfterFork
  <2>5. NoSilentDeath /\ EndOfFile
    BY <1>1, <2>2 DEF Init, NoSilentDeath, EndOfFile, AfterFork
  <2> QED
    BY <2>1, <2>3, <2>4, <2>5 DEF RunInv
<1>2. RunInv /\ [Next]_vars => RunInv'
  BY NextType, NextParentFds, NextWriterFds, NextForked, NextReported, NextNoSilentDeath,
     NextEndOfFile DEF RunInv
<1> QED
  BY <1>1, <1>2, PTL DEF Spec

(* A pid is returned only of an init that got through its set-up or was      *)
(* killed, unless the error pipe could not be read (goctr.c:398).            *)
THEOREM PidMeansReady == Spec => []SuccessMeansReady
<1>1. RunInv => SuccessMeansReady
  BY DEF RunInv, Forked, EndOfFile, SuccessMeansReady
<1> QED
  BY <1>1, RunInvariant, PTL

(* After an error nothing comes up any more, unless the error is that the    *)
(* pid could not be read (goctr.c:403, 414).                                 *)
THEOREM ErrorMeansGone == Spec => []FailureMeansGone
<1>1. RunInv => FailureMeansGone
  BY DEF RunInv, Forked, Reported, EndOfFile, FailureMeansGone
<1> QED
  BY <1>1, RunInvariant, PTL

(* The parent finds the pid in the eventfd (goctr.c:411).                    *)
THEOREM PidWasWritten == Spec => []PidIsThere
<1>1. RunInv => PidIsThere
  BY DEF RunInv, TypeOK, Forked, EndOfFile, NoSilentDeath, AfterFork, PidIsThere
<1> QED
  BY <1>1, RunInvariant, PTL

(* Once there was a child nothing stays open (goctr.c:363-418).              *)
THEOREM DescriptorsClosed == Spec => []NoDescriptorLeft
<1>1. RunInv => NoDescriptorLeft
  BY DEF RunInv, ParentFds, WriterFds, NoDescriptorLeft
<1> QED
  BY <1>1, RunInvariant, PTL
=============================================================================
