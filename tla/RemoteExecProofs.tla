-------------------------- MODULE RemoteExecProofs --------------------------
(* Proofs about RemoteExec for every number of machines, every window and    *)
(* every set of jobs.                                                        *)
EXTENDS RemoteExec, TLAPS

(* A thread reads no more than was sent, a command sends no more than it     *)
(* has, and one that has exited has sent all.                                *)
Flow(m) ==
    /\ \A s \in Streams : read[m][s] <= sent[m][s] /\ sent[m][s] <= job[m][s]
    /\ process[m] = "exited" => \A s \in Streams : sent[m][s] = job[m][s]

(* What a finished thread returns is a part of the output, and all of it     *)
(* unless the connection broke.                                              *)
Returned(m) ==
    result[m] # None =>
        /\ reader[m] = "finished"
        /\ result[m] <= job[m]["out"]
        /\ result[m] = job[m]["out"] \/ conn[m] = "broken"

(* Only machines that were given a task have a thread, and an answer comes   *)
(* from a finished thread.                                                   *)
Attributed(m) ==
    /\ reader[m] # "none" => m \in Submitted
    /\ m \in DOMAIN answers => reader[m] = "finished" /\ answers[m] = Report(result[m])

RemoteInv ==
    /\ TypeOK
    /\ \A m \in Machines : Flow(m) /\ Returned(m) /\ Attributed(m)

-----------------------------------------------------------------------------
LEMMA JobStreams ==
    ASSUME NEW j \in Jobs
    PROVE  /\ j["out"] \in Nat /\ j["err"] \in Nat
           /\ j.out = j["out"]
BY RemoteAssumption

LEMMA ReportIsAnswer ==
    ASSUME NEW j \in Jobs, NEW r \in {None} \union Nat, r # None => r <= j["out"]
    PROVE  Report(r) \in Answers
<1>1. CASE r = None \/ r = 0
  BY <1>1 DEF Report, Answers
<1>2. CASE r # None /\ r # 0
  <2>1. r \in 1 .. j.out
    BY <1>2, JobStreams DEF None
  <2> QED
    BY <1>2, <2>1 DEF Report, Answers
<1> QED
  BY <1>1, <1>2

LEMMA InitEstablishes == Init => RemoteInv
<1> SUFFICES ASSUME Init
             PROVE  RemoteInv
  OBVIOUS
<1>1. TypeOK
  <2>1. answers \in [{} -> Answers]
    BY DEF Init
  <2> QED
    BY <2>1 DEF Init, TypeOK, Streams, None, setting
<1>2. ASSUME NEW m \in Machines
      PROVE  Flow(m) /\ Returned(m) /\ Attributed(m)
  BY <1>2, JobStreams DEF Init, Flow, Returned, Attributed, Streams
<1> QED
  BY <1>1, <1>2 DEF RemoteInv
-----------------------------------------------------------------------------
(* One lemma per kind of step: those of a machine's command and connection,  *)
(* those of its thread, and those of the caller.                             *)
LEMMA WritePreserves ==
    ASSUME RemoteInv, NEW k \in Machines, NEW s \in Streams, Write(k, s)
    PROVE  RemoteInv'
<1>1. sent'[k][s] = sent[k][s] + 1 /\ sent[k][s] + 1 <= job[k][s]
  BY JobStreams DEF RemoteInv, TypeOK, Write, Streams, Flow
<1>2. TypeOK'
  BY DEF RemoteInv, TypeOK, Write, setting
<1>3. ASSUME NEW m \in Machines
      PROVE  Flow(m)' /\ Returned(m)' /\ Attributed(m)'
  <2>1. Flow(m)'
    BY <1>1, <1>3, JobStreams DEF RemoteInv, TypeOK, Write, setting, Flow, Streams
  <2>2. Returned(m)' /\ Attributed(m)'
    BY <1>3 DEF RemoteInv, Write, setting, Returned, Attributed, Submitted
  <2> QED
    BY <2>1, <2>2
<1> QED
  BY <1>2, <1>3 DEF RemoteInv

LEMMA ExitPreserves ==
    ASSUME RemoteInv, NEW k \in Machines, Exit(k)
    PROVE  RemoteInv'
<1>1. TypeOK'
  BY DEF RemoteInv, TypeOK, Exit, setting
<1>2. ASSUME NEW m \in Machines
      PROVE  Flow(m)' /\ Returned(m)' /\ Attributed(m)'
  BY <1>2 DEF RemoteInv, TypeOK, Exit, setting, Flow, Returned, Attributed, Submitted
<1> QED
  BY <1>1, <1>2 DEF RemoteInv

LEMMA FailPreserves ==
    ASSUME RemoteInv, NEW k \in Machines, NEW how \in {"broken", "silent"}, Fail(k, how)
    PROVE  RemoteInv'
<1>1. TypeOK'
  BY DEF RemoteInv, TypeOK, Fail, setting
<1>2. ASSUME NEW m \in Machines
      PROVE  Flow(m)' /\ Returned(m)' /\ Attributed(m)'
  BY <1>2 DEF RemoteInv, TypeOK, Fail, setting, Flow, Returned, Attributed, Submitted
<1> QED
  BY <1>1, <1>2 DEF RemoteInv

LEMMA StartPreserves ==
    ASSUME RemoteInv, NEW k \in Machines, StartCommand(k)
    PROVE  RemoteInv'
<1>1. TypeOK'
  BY DEF RemoteInv, TypeOK, StartCommand, Finish, setting
<1>2. ASSUME NEW m \in Machines
      PROVE  Flow(m)' /\ Returned(m)' /\ Attributed(m)'
  BY <1>2 DEF RemoteInv, TypeOK, StartCommand, Finish, setting, Flow, Returned,
              Attributed, Submitted
<1> QED
  BY <1>1, <1>2 DEF RemoteInv

LEMMA ReadPreserves ==
    ASSUME RemoteInv, NEW k \in Machines, NEW s \in Streams, ReadPiece(k, s)
    PROVE  RemoteInv'
<1>1. read'[k][s] = read[k][s] + 1 /\ read[k][s] + 1 <= sent[k][s]
  BY DEF RemoteInv, TypeOK, ReadPiece, Streams
<1>2. TypeOK'
  BY DEF RemoteInv, TypeOK, ReadPiece, setting
<1>3. ASSUME NEW m \in Machines
      PROVE  Flow(m)' /\ Returned(m)' /\ Attributed(m)'
  <2>1. Flow(m)'
    BY <1>1, <1>3 DEF RemoteInv, TypeOK, ReadPiece, setting, Flow, Streams
  <2>2. Returned(m)' /\ Attributed(m)'
    BY <1>3 DEF RemoteInv, ReadPiece, setting, Returned, Attributed, Submitted
  <2> QED
    BY <2>1, <2>2
<1> QED
  BY <1>2, <1>3 DEF RemoteInv

(* A thread that finishes with None, whatever it did before.                 *)
LEMMA FinishWithNone ==
    ASSUME RemoteInv, NEW k \in Machines, reader[k] \notin {"none", "finished"},
           Finish(k, None),
           UNCHANGED <<setting, conn, process, sent, read, answers, call>>
    PROVE  RemoteInv'
<1>1. TypeOK'
  BY DEF RemoteInv, TypeOK, Finish, setting
<1>2. ASSUME NEW m \in Machines
      PROVE  Flow(m)' /\ Returned(m)' /\ Attributed(m)'
  BY <1>2 DEF RemoteInv, TypeOK, Finish, setting, Flow, Returned, Attributed, Submitted
<1> QED
  BY <1>1, <1>2 DEF RemoteInv

LEMMA EndOfErrorsPreserves ==
    ASSUME RemoteInv, NEW k \in Machines, EndOfErrors(k)
    PROVE  RemoteInv'
<1>1. CASE Finish(k, None)
  BY <1>1, FinishWithNone DEF EndOfErrors
<1>2. CASE reader' = [reader EXCEPT ![k] = "output"] /\ UNCHANGED result
  <2>1. TypeOK'
    BY <1>2 DEF RemoteInv, TypeOK, EndOfErrors, setting
  <2>2. ASSUME NEW m \in Machines
        PROVE  Flow(m)' /\ Returned(m)' /\ Attributed(m)'
    BY <1>2, <2>2 DEF RemoteInv, TypeOK, EndOfErrors, setting, Flow, Returned,
                      Attributed, Submitted
  <2> QED
    BY <2>1, <2>2 DEF RemoteInv
<1> QED
  BY <1>1, <1>2 DEF EndOfErrors

LEMMA EndOfOutputPreserves ==
    ASSUME RemoteInv, NEW k \in Machines, EndOfOutput(k)
    PROVE  RemoteInv'
<1> DEFINE r == read[k]["out"]
<1>1. /\ r \in Nat /\ job[k] \in Jobs /\ "out" \in Streams
      /\ r <= job[k]["out"]
      /\ r = job[k]["out"] \/ conn[k] = "broken"
  BY JobStreams DEF RemoteInv, TypeOK, EndOfOutput, StreamEnds, Flow, Streams
<1>2. TypeOK'
  BY <1>1 DEF RemoteInv, TypeOK, EndOfOutput, Finish, setting
<1>3. ASSUME NEW m \in Machines
      PROVE  Flow(m)' /\ Returned(m)' /\ Attributed(m)'
  BY <1>1, <1>3 DEF RemoteInv, TypeOK, EndOfOutput, Finish, setting, Flow, Returned,
                    Attributed, Submitted
<1> QED
  BY <1>2, <1>3 DEF RemoteInv

LEMMA CollectPreserves ==
    ASSUME RemoteInv, NEW k \in Machines, Collect(k)
    PROVE  RemoteInv' /\ Report(result[k]) \in Answers /\ k \in asked \ DOMAIN answers
<1>1. Report(result[k]) \in Answers
  <2>1. job[k] \in Jobs /\ result[k] \in {None} \union Nat
    BY DEF RemoteInv, TypeOK
  <2>2. result[k] # None => result[k] <= job[k]["out"]
    BY DEF RemoteInv, Returned
  <2> QED
    BY <2>1, <2>2, ReportIsAnswer
<1>2. k \in asked \ DOMAIN answers
  BY DEF RemoteInv, Attributed, Collect, Submitted
<1>3. PICK S \in SUBSET Machines : answers \in [S -> Answers]
  BY DEF RemoteInv, TypeOK
<1>4. answers' \in [S \union {k} -> Answers]
  BY <1>1, <1>3 DEF Collect
<1>5. TypeOK'
  <2>1. answers' \in UNION {[T -> Answers] : T \in SUBSET Machines}
    BY <1>4
  <2> QED
    BY <2>1 DEF RemoteInv, TypeOK, Collect, setting
<1>6. ASSUME NEW m \in Machines
      PROVE  Flow(m)' /\ Returned(m)' /\ Attributed(m)'
  <2>1. Flow(m)' /\ Returned(m)'
    BY <1>6 DEF RemoteInv, Collect, setting, Flow, Returned
  <2>2. Attributed(m)'
    BY <1>3, <1>4, <1>6 DEF RemoteInv, Collect, setting, Attributed, Submitted
  <2> QED
    BY <2>1, <2>2
<1> QED
  BY <1>1, <1>2, <1>5, <1>6 DEF RemoteInv

(* Steps that leave the machines alone.                                      *)
LEMMA CallerPreserves ==
    ASSUME RemoteInv, call' \in {"running", "returned", "raised"},
           UNCHANGED <<setting, conn, process, sent, reader, read, result, answers>>
    PROVE  RemoteInv'
<1>1. TypeOK'
  BY DEF RemoteInv, TypeOK, setting
<1>2. ASSUME NEW m \in Machines
      PROVE  Flow(m)' /\ Returned(m)' /\ Attributed(m)'
  BY <1>2 DEF RemoteInv, setting, Flow, Returned, Attributed, Submitted
<1> QED
  BY <1>1, <1>2 DEF RemoteInv

LEMMA NextPreserves ==
    ASSUME RemoteInv, [Next]_vars
    PROVE  RemoteInv'
<1>1. ASSUME NEW m \in Machines, MachineStep(m)
      PROVE  RemoteInv'
  <2>1. CASE TransferFile(m)
    BY <2>1, FinishWithNone DEF TransferFile
  <2> QED
    BY <1>1, <2>1, WritePreserves, ReadPreserves, ExitPreserves, StartPreserves,
       EndOfErrorsPreserves, EndOfOutputPreserves, CollectPreserves DEF MachineStep
<1>2. CASE Return \/ Raise
  BY <1>2, CallerPreserves DEF Return, Raise
<1>3. CASE UNCHANGED vars
  BY <1>3, CallerPreserves DEF vars, setting, RemoteInv, TypeOK
<1> QED
  BY <1>1, <1>2, <1>3, FailPreserves DEF Next

-----------------------------------------------------------------------------
(* The values of a call are those the code can produce, and RemoteInv is     *)
(* inductive.                                                                *)
THEOREM RemoteInvariant == Spec => []RemoteInv
<1>1. Init => RemoteInv
  BY InitEstablishes
<1>2. RemoteInv /\ [Next]_vars => RemoteInv'
  BY NextPreserves
<1> QED
  BY <1>1, <1>2, PTL DEF Spec

(* An output that reaches the caller is whole unless its connection broke.   *)
THEOREM OutputIsComplete == Spec => []OutputComplete
<1>1. RemoteInv => OutputComplete
  <2> SUFFICES ASSUME RemoteInv, NEW m \in DOMAIN answers, answers[m] # None
               PROVE  answers[m] = job[m].out \/ conn[m] = "broken"
    BY DEF OutputComplete
  <2>1. m \in Machines
    BY DEF RemoteInv, TypeOK
  <2>2. answers[m] = Report(result[m]) /\ result[m] # None
    BY <2>1 DEF RemoteInv, Attributed, Report
  <2>3. answers[m] = result[m]
    BY <2>2 DEF Report
  <2>4. job[m].out = job[m]["out"]
    BY <2>1, JobStreams DEF RemoteInv, TypeOK
  <2> QED
    BY <2>1, <2>2, <2>3, <2>4 DEF RemoteInv, Returned
<1> QED
  BY <1>1, RemoteInvariant, PTL

(* A call implements FanOut: one answer per machine asked, none that is      *)
(* taken back, no return before the last one, and no thread at work after it *)
(* or after an exception.                                                    *)
THEOREM CallImplementsFanOut == Spec => KeepsPromise
<1>1. Init => Promise!FanInit
  BY DEF Init, Submitted, AtWork, Promise!FanInit
<1>2. RemoteInv /\ [Next]_vars => [Promise!FanNext]_Promise!fanVars
  <2> SUFFICES ASSUME RemoteInv, [Next]_vars
               PROVE  [Promise!FanNext]_Promise!fanVars
    OBVIOUS
  <2>1. ASSUME NEW m \in Machines, Collect(m)
        PROVE  Promise!FanNext
    <3>1. m \notin AtWork /\ AtWork' = AtWork
      BY <2>1 DEF Collect, AtWork
    <3>2. Promise!Answer(m, Report(result[m]))
      BY <2>1, <3>1, CollectPreserves DEF Collect, Promise!Answer, setting
    <3> QED
      BY <2>1, <3>2, CollectPreserves DEF Promise!FanNext
  <2>2. CASE Return
    <3>1. absent = {}
      BY <2>2 DEF Return, Raises
    <3>2. Submitted = asked
      BY <3>1 DEF Submitted
    <3>3. AtWork = {} /\ AtWork' = AtWork
      BY <2>2 DEF Return, AtWork, RemoteInv, Attributed
    <3> QED
      BY <2>2, <3>2, <3>3 DEF Return, Promise!FanNext, Promise!FanReturn, setting
  <2>3. CASE Raise
    <3>1. AtWork = {} /\ AtWork' = AtWork
      BY <2>3 DEF Raise, AtWork, RemoteInv, Attributed
    <3> QED
      BY <2>3, <3>1 DEF Raise, Promise!FanNext, Promise!FanRaise, setting
  <2>4. ASSUME NEW m \in Machines, m \in AtWork, UNCHANGED <<asked, answers, call>>,
               reader' = [reader EXCEPT ![m] = "finished"]
        PROVE  [Promise!FanNext]_Promise!fanVars
    <3>1. AtWork' = AtWork \ {m}
      BY <2>4 DEF AtWork, RemoteInv, TypeOK
    <3> QED
      BY <2>4, <3>1 DEF Promise!FanNext, Promise!ThreadEnds
  <2>5. ASSUME UNCHANGED <<asked, answers, call>>, AtWork' = AtWork
        PROVE  [Promise!FanNext]_Promise!fanVars
    BY <2>5 DEF Promise!fanVars
  <2>6. ASSUME NEW m \in Machines, MachineStep(m)
        PROVE  [Promise!FanNext]_Promise!fanVars
    <3>1. CASE StartCommand(m) \/ EndOfErrors(m) \/ EndOfOutput(m) \/ TransferFile(m)
      <4>1. m \in AtWork /\ UNCHANGED <<asked, answers, call>>
        BY <3>1 DEF StartCommand, EndOfErrors, EndOfOutput, TransferFile, AtWork, setting
      <4>2. CASE reader' = [reader EXCEPT ![m] = "finished"]
        BY <2>4, <4>1, <4>2
      <4>3. CASE \E s \in {"errors", "output"} : reader' = [reader EXCEPT ![m] = s]
        BY <2>5, <4>1, <4>3 DEF AtWork, RemoteInv, TypeOK
      <4> QED
        BY <3>1, <4>2, <4>3 DEF StartCommand, EndOfErrors, EndOfOutput, TransferFile, Finish
    <3>2. CASE Exit(m) \/ \E s \in Streams : Write(m, s) \/ ReadPiece(m, s)
      BY <2>5, <3>2 DEF Write, ReadPiece, Exit, AtWork, setting
    <3> QED
      BY <2>1, <2>6, <3>1, <3>2 DEF MachineStep
  <2>7. ASSUME NEW m \in Machines, NEW how \in {"broken", "silent"}, Fail(m, how)
        PROVE  [Promise!FanNext]_Promise!fanVars
    BY <2>5, <2>7 DEF Fail, AtWork, setting
  <2>8. CASE UNCHANGED vars
    BY <2>5, <2>8 DEF vars, AtWork, setting
  <2> QED
    BY <2>2, <2>3, <2>6, <2>7, <2>8 DEF Next
<1> QED
  BY <1>1, <1>2, RemoteInvariant, PTL DEF Spec, KeepsPromise, Promise!FanSpec
=============================================================================
