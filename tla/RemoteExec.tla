----------------------------- MODULE RemoteExec -----------------------------
(* One call of execute_command_on_multiple_machines, or of its siblings that *)
(* send and receive files (coordinator/util/remote.py): a thread for each    *)
(* machine with a command runs it over SSH, reads its standard error to the  *)
(* end and then its standard output, while the caller collects the results.  *)
(*                                                                           *)
(* The SSH library is external: both streams of a command share one window,  *)
(* the amount of data that may be sent and not yet read; a connection that   *)
(* breaks ends both streams, and what is on its way is lost; one whose other *)
(* side vanishes ends nothing, since no call sets a timeout. Output is       *)
(* counted in pieces.                                                        *)
EXTENDS Integers

CONSTANTS
    N,          \* machines are 1 .. N, in the order of the caller's list
    Window,     \* pieces that may be sent and not yet read
    Jobs        \* what commands may do

(* A command writes pieces to standard output and standard error; its errors *)
(* may start with the prompt for the password, and its output may have been  *)
(* redirected to a file.                                                     *)
ASSUME RemoteAssumption ==
    /\ N \in Nat \ {0} /\ Window \in Nat \ {0}
    /\ Jobs \subseteq [out : Nat, err : Nat, prompt : BOOLEAN, redirected : BOOLEAN]

Machines == 1 .. N
None == -1                  \* the thread's function returned None

VARIABLES
    op,         \* "exec" or "transfer"
    job,        \* what each machine's command does
    asked,      \* machines whose name is in the dictionary of commands
    absent,     \* machines whose connection failed: None in the caller's list
    conn,       \* "up", "broken" or "silent"
    process,    \* the remote command: "none", "running", "exited"
    sent,       \* pieces it has written to each stream
    reader,     \* the machine's thread
    read,       \* pieces the thread has read of each stream
    result,     \* what the thread's function returns
    answers,    \* the dictionary of results
    call        \* "running", "returned", "raised"

setting == <<op, job, asked, absent>>
vars == <<op, job, asked, absent, conn, process, sent, reader, read, result, answers, call>>

Streams == {"out", "err"}

(* What the caller finds for a machine: the number of pieces of its output,  *)
(* or, for None and an empty output alike, a text that reads like success.   *)
Report(r) == IF r = 0 THEN None ELSE r
Answers == {None} \union UNION {1 .. j.out : j \in Jobs}

(* Tasks are submitted in the order of the list until a machine that is None *)
(* raises an exception, after which the tasks already submitted are joined.  *)
Submitted == {m \in asked : \A a \in absent : m < a}
Raises == absent # {}

Unread(m) == sent[m]["out"] + sent[m]["err"] - read[m]["out"] - read[m]["err"]

Init ==
    /\ op \in {"exec", "transfer"}
    /\ job \in [Machines -> Jobs]
    /\ absent \in SUBSET Machines
    /\ asked \in SUBSET (Machines \ absent)
    /\ conn = [m \in Machines |-> "up"]
    /\ process = [m \in Machines |-> "none"]
    /\ sent = [m \in Machines |-> [s \in Streams |-> 0]]
    /\ reader = [m \in Machines |-> IF m \in Submitted THEN "queued" ELSE "none"]
    /\ read = [m \in Machines |-> [s \in Streams |-> 0]]
    /\ result = [m \in Machines |-> None]
    /\ answers = [m \in {} |-> m]
    /\ call = "running"

-----------------------------------------------------------------------------
(* The remote command                                                        *)

(* A command can only write while the window has room.                       *)
Write(m, s) ==
    /\ process[m] = "running" /\ conn[m] = "up"
    /\ sent[m][s] < job[m][s]
    /\ Unread(m) < Window
    /\ sent' = [sent EXCEPT ![m][s] = @ + 1]
    /\ UNCHANGED <<setting, conn, process, reader, read, result, answers, call>>

Exit(m) ==
    /\ process[m] = "running" /\ conn[m] = "up"
    /\ \A s \in Streams : sent[m][s] = job[m][s]
    /\ process' = [process EXCEPT ![m] = "exited"]
    /\ UNCHANGED <<setting, conn, sent, reader, read, result, answers, call>>

(* The connection fails, with or without the client's noticing.              *)
Fail(m, how) ==
    /\ conn[m] = "up" /\ reader[m] \in {"queued", "errors", "output"}
    /\ conn' = [conn EXCEPT ![m] = how]
    /\ UNCHANGED <<setting, process, sent, reader, read, result, answers, call>>

-----------------------------------------------------------------------------
(* The machine's thread                                                      *)

Finish(m, r) ==
    /\ reader' = [reader EXCEPT ![m] = "finished"]
    /\ result' = [result EXCEPT ![m] = r]

(* exec_command on a broken connection raises; the exception is printed.     *)
StartCommand(m) ==
    /\ op = "exec" /\ reader[m] = "queued"
    /\ \/ /\ conn[m] = "up"
          /\ process' = [process EXCEPT ![m] = "running"]
          /\ reader' = [reader EXCEPT ![m] = "errors"]
          /\ UNCHANGED result
       \/ /\ conn[m] = "broken"
          /\ Finish(m, None)
          /\ UNCHANGED process
    /\ UNCHANGED <<setting, conn, sent, read, answers, call>>

ReadPiece(m, s) ==
    /\ reader[m] = (IF s = "err" THEN "errors" ELSE "output")
    /\ read[m][s] < sent[m][s]
    /\ read' = [read EXCEPT ![m][s] = @ + 1]
    /\ UNCHANGED <<setting, conn, process, sent, reader, result, answers, call>>

(* A stream ends when all of it is read and the command has exited, or when  *)
(* the connection is known to be broken. Faulty variants: the first reading  *)
(* counts as the whole; a broken connection does not end a stream.           *)
StreamEndsAtOnce(m, s) == read[m][s] = sent[m][s]
StreamEndsOnExit(m, s) == read[m][s] = sent[m][s] /\ process[m] = "exited"
StreamEnds(m, s) ==
    \/ read[m][s] = sent[m][s] /\ process[m] = "exited"
    \/ conn[m] = "broken"

(* Errors other than the prompt for the password hide the output; with an    *)
(* output file nothing is read.                                              *)
EndOfErrors(m) ==
    /\ reader[m] = "errors" /\ StreamEnds(m, "err")
    /\ IF (read[m]["err"] > 0 /\ ~job[m].prompt) \/ job[m].redirected
       THEN Finish(m, None)
       ELSE reader' = [reader EXCEPT ![m] = "output"] /\ UNCHANGED result
    /\ UNCHANGED <<setting, conn, process, sent, read, answers, call>>

EndOfOutput(m) ==
    /\ reader[m] = "output" /\ StreamEnds(m, "out")
    /\ Finish(m, read[m]["out"])
    /\ UNCHANGED <<setting, conn, process, sent, read, answers, call>>

(* send_file and receive_file return None whether or not the copy succeeds.  *)
TransferFile(m) ==
    /\ op = "transfer" /\ reader[m] = "queued" /\ conn[m] # "silent"
    /\ Finish(m, None)
    /\ UNCHANGED <<setting, conn, process, sent, read, answers, call>>

-----------------------------------------------------------------------------
(* The caller                                                                *)

Collect(m) ==
    /\ call = "running" /\ ~Raises
    /\ reader[m] = "finished" /\ m \notin DOMAIN answers
    /\ answers' = [n \in DOMAIN answers \union {m} |->
                     IF n = m THEN Report(result[m]) ELSE answers[n]]
    /\ UNCHANGED <<setting, conn, process, sent, reader, read, result, call>>

(* as_completed is exhausted. Faulty variant: the first result is enough.    *)
ReturnEarly ==
    /\ call = "running" /\ ~Raises
    /\ Submitted # {} => DOMAIN answers # {}
    /\ call' = "returned"
    /\ UNCHANGED <<setting, conn, process, sent, reader, read, result, answers>>
Return ==
    /\ call = "running" /\ ~Raises
    /\ DOMAIN answers = Submitted
    /\ call' = "returned"
    /\ UNCHANGED <<setting, conn, process, sent, reader, read, result, answers>>

(* The exception leaves the executor's block, which joins its threads.       *)
Raise ==
    /\ call = "running" /\ Raises
    /\ \A m \in Submitted : reader[m] = "finished"
    /\ call' = "raised"
    /\ UNCHANGED <<setting, conn, process, sent, reader, read, result, answers>>

-----------------------------------------------------------------------------
MachineStep(m) ==
    \/ \E s \in Streams : Write(m, s) \/ ReadPiece(m, s)
    \/ Exit(m) \/ StartCommand(m) \/ EndOfErrors(m) \/ EndOfOutput(m)
    \/ TransferFile(m) \/ Collect(m)

Next ==
    \/ \E m \in Machines : MachineStep(m) \/ \E how \in {"broken", "silent"} : Fail(m, how)
    \/ Return \/ Raise

(* Threads and commands that can go on do; connections need not fail.        *)
Fairness ==
    /\ \A m \in Machines : WF_vars(MachineStep(m))
    /\ WF_vars(Return) /\ WF_vars(Raise)

Spec == Init /\ [][Next]_vars /\ Fairness

-----------------------------------------------------------------------------
(* Properties                                                                *)

TypeOK ==
    /\ op \in {"exec", "transfer"}
    /\ job \in [Machines -> Jobs]
    /\ absent \subseteq Machines /\ asked \subseteq Machines
    /\ conn \in [Machines -> {"up", "broken", "silent"}]
    /\ process \in [Machines -> {"none", "running", "exited"}]
    /\ sent \in [Machines -> [Streams -> Nat]]
    /\ reader \in [Machines -> {"none", "queued", "errors", "output", "finished"}]
    /\ read \in [Machines -> [Streams -> Nat]]
    /\ result \in [Machines -> {None} \union Nat]
    /\ answers \in UNION {[S -> Answers] : S \in SUBSET Machines}
    /\ call \in {"running", "returned", "raised"}

(* Output that reaches the caller is all the command wrote, although it is   *)
(* read only after the errors and the connection may fail in between; only a *)
(* connection that broke can have cut it off.                                *)
OutputComplete ==
    \A m \in DOMAIN answers :
        answers[m] # None => answers[m] = job[m].out \/ conn[m] = "broken"

(* The call keeps the promise of FanOut in every interleaving: each machine  *)
(* asked has one answer when it returns, no answer changes, and threads that *)
(* were started before an exception have ended when it is raised.            *)
AtWork == {m \in Machines : reader[m] \in {"queued", "errors", "output"}}
Promise == INSTANCE FanOut WITH atWork <- AtWork
KeepsPromise == Promise!FanSpec

(* The call ends unless a machine has fallen silent or its command waits     *)
(* with a window full of output for a thread that waits for its errors.      *)
Stuck(m) ==
    \/ reader[m] \in {"queued", "errors", "output"} /\ conn[m] = "silent"
    \/ reader[m] = "errors" /\ process[m] = "running" /\ Unread(m) = Window
         /\ read[m]["err"] = sent[m]["err"]
CallEnds == <>(call # "running") \/ <>[](\E m \in Machines : Stuck(m))
=============================================================================
